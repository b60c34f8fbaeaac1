------------------------ MODULE MemoryLifecycleProofs ------------------------
(***************************************************************************)
(* Proofs about the memory organ, for any number of memories, texts,       *)
(* proposals, turns, operations, operations at once and crashes.           *)
(***************************************************************************)
EXTENDS MemoryLifecycle, FiniteSetTheorems, WellFoundedInduction, TLAPS

-----------------------------------------------------------------------------
(* The inductive invariant *)

Deeds == {"ensure", "sync", "retire", "store", "link", "relink", "insert", "restore",
          "check", "propose", "invalid", "settle", "decide", "applied_create", "fixture"}
\* Statements on a row of the memory they name, which their caller works on.
Owned == {"ensure", "insert", "retire", "restore", "link", "relink", "fixture"}
Candidates == {"check", "propose", "invalid"}
Carriers == {"settle", "decide", "applied_create"}
Linking == {"link", "relink"}

Statement ==
    [do : Deeds, m : Ids \cup {Nobody}, n : Ids \cup {Nobody}, c : Contents \cup {NoKey},
     p : Props \cup {Nobody}, status : Statuses, set : SUBSET Ids]
MemoryRow ==
    [content : Contents, status : Statuses, by : Ids \cup {Nobody}, over : SUBSET Ids,
     maker : Props \cup {Nobody}, seen : SUBSET Ids]
ProposalRow ==
    [content : Contents, evidence : BOOLEAN,
     action : {"create_new", "noop_duplicate", "needs_review", "review_similar"},
     status : {"pending", "pending_review", "applied_create",
               "archived_noop_duplicate", "archived_rejected"},
     seen : SUBSET Ids, known : SUBSET Ids]
Kinds == {"idle", "write", "deprecate", "supersede", "backfill", "graph", "search",
          "review", "fixtures"}

RowTypes ==
    /\ mem \in Seq(MemoryRow) /\ Len(mem) <= MaxMemories
    /\ facts \in [Ids -> Seq(Statuses)]
    /\ node \in [Ids -> Statuses \cup {"none", "referenced"}]
    /\ prop \in Seq(ProposalRow) /\ Len(prop) <= MaxProposals
OpTypes ==
    op \in [Callers -> [kind : Kinds, todo : Seq(Statement), mine : SUBSET Ids,
                        calm : BOOLEAN]]

\* What a row names is stored, and no memory is linked to itself.
RowNames ==
    /\ \A m \in Stored : /\ mem[m].by \in (Stored \cup {Nobody}) \ {m}
                         /\ mem[m].over \subseteq Stored \ {m}
                         /\ mem[m].seen \subseteq Stored
                         /\ mem[m].maker \in DOMAIN prop \cup {Nobody}
    /\ \A p \in DOMAIN prop : prop[p].seen \subseteq Stored /\ prop[p].known \subseteq Stored
    /\ \A m \in Ids \ Stored : facts[m] = <<>>
    /\ reviewed \subseteq Stored /\ mixed \subseteq Stored

\* A caller with nothing left to execute is idle.
OpNames ==
    \A c \in Callers : /\ op[c].mine \subseteq Stored
                       /\ op[c].todo = <<>> <=> op[c].kind = "idle"
                       /\ op[c].todo = <<>> => op[c].mine = {}

\* What caller c may have in its list while it works on mine, S is stored and
\* P are the proposals.
StatementOK(c, mine, S, P, x) ==
    /\ x.do \in Owned => x.m \in mine
    /\ x.do = "sync" => x.m \in S /\ (c # Worker => x.m \in mine)
    /\ x.do \in Linking => x.n \in (S \cup {Nobody}) \ {x.m}
    /\ x.do = "link" => x.n \in S
    /\ x.do = "relink" => x.set \subseteq S \ {x.m}
    /\ x.do = "store" =>
          /\ x.c \in Contents /\ x.set \subseteq S
          /\ IF c = Worker THEN x.p \in P ELSE x.p = Nobody
    /\ x.do \in Candidates => c = Worker /\ x.c \in Contents
    /\ x.do \in Carriers => c = Worker /\ x.p \in P
    /\ x.do = "fixture" => c = Operator
    /\ x.do = "restore" => c \in Turns

\* The statement d may stand before the statement e.
MayPrecede(d, e) ==
    /\ e \notin Linking \cup {"insert"}
    /\ e = "fixture" => d \in {"fixture", "retire"}
    /\ e \in Candidates => d \in Candidates \cup {"sync"}
    /\ d \in Candidates => e \in Candidates \cup {"sync", "settle"}
    /\ d = "decide" => e = "decide"
    /\ d = "restore" => e \in {"restore", "sync"}
Ordered(s) == \A i, j \in 1..Len(s) : i < j => MayPrecede(s[i].do, s[j].do)

Has(s, deeds, m) == \E x \in ToSet(s) : x.do \in deeds /\ x.m = m
ListOK(c, s, mine, S, P) ==
    /\ \A x \in ToSet(s) :
         /\ StatementOK(c, mine, S, P, x)
         /\ x.do \in Candidates => mine = {}
         /\ x.do \in Linking \cup {"fixture"} => Has(s, {"sync"}, x.m)
    /\ Ordered(s)
Todo(c) == ToSet(op[c].todo)
ListsOK ==
    \A c \in Callers : ListOK(c, op[c].todo, op[c].mine, Stored, DOMAIN prop)

Pends(c, deeds, m) == m \in op[c].mine /\ Has(op[c].todo, deeds, m)
SomePends(deeds, m) == \E c \in Callers : Pends(c, deeds, m)

\* An unmixed memory is worked on by one operation.
Exclusive ==
    \A c, d \in Callers : \A m \in op[c].mine \cap op[d].mine : c = d \/ m \in mixed

\* What was computed before for an unmixed memory still holds.
Fresh(x) ==
    /\ x.do = "insert" => Extracts(x.m)
    /\ x.m \in Stored \ mixed =>
         /\ x.do = "insert" => x.status = mem[x.m].status
         /\ x.do = "retire" => mem[x.m].status = "deprecated"
         /\ x.do = "relink" => x.n = mem[x.m].by /\ mem[x.m].over \subseteq x.set
StatementsFresh == \A c \in Callers : \A x \in Todo(c) : Fresh(x)

FactsOK(m) ==
    /\ ~Extracts(m) => facts[m] = <<>>
    /\ m \notin mixed =>
         /\ mem[m].status = "deprecated" => ~HasActiveFact(m) \/ SomePends({"retire"}, m)
         /\ mem[m].status = "active" /\ mem[m].by = Nobody =>
              \A i \in DOMAIN facts[m] : facts[m][i] = "active"
         /\ Extracts(m) /\ facts[m] = <<>> => SomePends({"ensure", "insert"}, m)
FactsInv == \A m \in Stored : FactsOK(m)

\* The link back from x to m is stored, or the next thing its caller stores.
Stores(x, s, m) ==
    /\ s.m = x
    /\ (s.do = "link" /\ s.n = m) \/ (s.do = "relink" /\ m \in s.set)
LinksBack(x, m) ==
    m \in mem[x].over \/ \E c \in Callers : \E s \in Todo(c) : Stores(x, s, m)
LinksInv ==
    /\ \A m \in Stored : mem[m].by \in Stored \ mixed => LinksBack(mem[m].by, m)
    /\ \A c \in Callers : \A s \in Todo(c) :
         s.do = "relink" /\ s.n \in Stored \ mixed => LinksBack(s.n, s.m)

NodeOK(m) ==
    /\ node[m] # "none"
    /\ node[m] \in Statuses => node[m] = mem[m].status
    /\ node[m] = "referenced" => Linked(m) # {} \/ \E k \in Stored : m \in Linked(k)
NodesInv == \A m \in Stored \ mixed : NodeOK(m) \/ SomePends({"sync"}, m)

\* No memory with the text c and no contradiction of it was active.
NewAmong(c, S) == \A m \in S \cap Active : mem[m].content # c
FitsAmong(c, S) ==
    \A m \in S \cap Active : KeyOf[mem[m].content] = KeyOf[c] => KeyOf[c] = NoKey
StoreOK(s) ==
    /\ NewAmong(s.c, s.set)
    /\ s.p # Nobody => /\ prop[s.p].action = "create_new"
                       /\ s.c = prop[s.p].content /\ s.set = prop[s.p].seen
ChecksInv ==
    /\ \A p \in DOMAIN prop : prop[p].action = "create_new" =>
         /\ NewAmong(prop[p].content, prop[p].seen \cup prop[p].known)
         /\ FitsAmong(prop[p].content, prop[p].known)
    /\ \A c \in Callers : \A s \in Todo(c) : s.do = "store" => StoreOK(s)
    /\ \A m \in Stored : mem[m].maker # Nobody =>
         /\ prop[mem[m].maker].action = "create_new"
         /\ mem[m].content = prop[mem[m].maker].content
    /\ TwinsOnlyFromStaleChecks

Made(p) == \E m \in Stored : mem[m].maker = p
Follow(T) ==
    \A i \in 1..Len(T) : T[i].do = "store" =>
        i + 1 <= Len(T) /\ T[i + 1].do = "applied_create" /\ T[i + 1].p = T[i].p
OneCarrier(T) ==
    \A i, j \in 1..Len(T) :
        T[i].do \in Carriers /\ T[j].do \in Carriers /\ T[i].p = T[j].p => i = j
ProposalsInv ==
    /\ crashes \in Nat
    /\ OneCarrier(op[Worker].todo) /\ Follow(op[Worker].todo)
    /\ \A x \in Todo(Worker) :
         /\ x.do \in Carriers => prop[x.p].status = "pending"
         /\ x.do \in {"settle", "decide", "store"} => ~Made(x.p)
         /\ x.do = "applied_create" =>
              Made(x.p) \/ \E y \in Todo(Worker) : y.do = "store" /\ y.p = x.p
    /\ \A m, n \in Stored : mem[m].maker # Nobody /\ mem[m].maker = mem[n].maker => m = n
    /\ \A p \in DOMAIN prop :
         /\ prop[p].status = "applied_create" => Made(p)
         /\ Made(p) => prop[p].status \in {"pending", "applied_create"}
         /\ Made(p) /\ prop[p].status = "pending" /\ crashes = 0 =>
              \E x \in Todo(Worker) : x.do = "applied_create" /\ x.p = p

\* A backfill that met nobody has repaired what it no longer has to restore.
BackfillOK(T, mine) ==
    /\ \A x \in ToSet(T) : x.do \in {"ensure", "insert", "restore", "sync"}
    /\ T[Len(T)].do = "sync"
    /\ (\E x \in ToSet(T) : x.do \notin {"restore", "sync"}) =>
          \A m \in mine : Has(T, {"restore"}, m)
Healed(m) == mem[m].by = Nobody \/ ~HasActiveFact(m)
BackfillInv ==
    \A t \in Callers : op[t].calm =>
        /\ \A d \in Callers \ {t} : op[d].kind = "idle"
        /\ op[t].kind = "backfill" =>
             /\ BackfillOK(op[t].todo, op[t].mine)
             /\ \A m \in op[t].mine : Has(op[t].todo, {"restore"}, m) \/ Healed(m)

MemoryShape ==
    RowTypes /\ OpTypes /\ RowNames /\ OpNames /\ ListsOK /\ Exclusive
MemoryInv ==
    /\ MemoryShape
    /\ StatementsFresh /\ FactsInv /\ LinksInv /\ NodesInv
    /\ ChecksInv /\ ProposalsInv /\ BackfillInv

-----------------------------------------------------------------------------
(* Lists of statements *)

LEMMA TailIs ==
    ASSUME NEW M, NEW s \in Seq(M), s # <<>>
    PROVE  /\ Tail(s) \in Seq(M) /\ Len(s) \in Nat /\ Len(s) >= 1
           /\ Len(Tail(s)) = Len(s) - 1
           /\ \A i \in 1..(Len(s) - 1) : Tail(s)[i] = s[i + 1]
           /\ Head(s) = s[1] /\ s[1] \in M
OBVIOUS

LEMMA ConcatIs ==
    ASSUME NEW M, NEW s \in Seq(M), NEW t \in Seq(M)
    PROVE  /\ s \o t \in Seq(M) /\ Len(s \o t) = Len(s) + Len(t)
           /\ Len(s) \in Nat /\ Len(t) \in Nat
           /\ \A i \in 1..Len(s) : (s \o t)[i] = s[i]
           /\ \A i \in 1..Len(t) : (s \o t)[Len(s) + i] = t[i]
           /\ \A i \in (Len(s) + 1)..(Len(s) + Len(t)) : (s \o t)[i] = t[i - Len(s)]
OBVIOUS

LEMMA RemoveAtIs ==
    ASSUME NEW M, NEW s \in Seq(M), NEW i \in 1..Len(s)
    PROVE  /\ RemoveAt(s, i) \in Seq(M) /\ Len(RemoveAt(s, i)) = Len(s) - 1
           /\ \A j \in 1..(Len(s) - 1) : RemoveAt(s, i)[j] = s[IF j < i THEN j ELSE j + 1]
<1> DEFINE a == SubSeq(s, 1, i - 1)
           b == SubSeq(s, i + 1, Len(s))
<1>1. Len(s) \in Nat /\ i \in Nat /\ i >= 1 /\ i <= Len(s)
  OBVIOUS
<1>2. a \in Seq(M) /\ Len(a) = i - 1 /\ \A j \in 1..(i - 1) : a[j] = s[j]
  BY <1>1
<1>3. b \in Seq(M) /\ Len(b) = Len(s) - i /\ \A j \in 1..(Len(s) - i) : b[j] = s[i + j]
  BY <1>1
<1>4. RemoveAt(s, i) = a \o b
  BY DEF RemoveAt
<1> HIDE DEF a, b
<1>5. a \o b \in Seq(M) /\ Len(a \o b) = Len(s) - 1
  <2>1. a \o b \in Seq(M) /\ Len(a \o b) = Len(a) + Len(b)
    BY <1>2, <1>3, ConcatIs
  <2>2. (i - 1) + (Len(s) - i) = Len(s) - 1
    BY <1>1
  <2> QED BY <1>2, <1>3, <2>1, <2>2
<1>6. ASSUME NEW j \in 1..(Len(s) - 1), j < i PROVE (a \o b)[j] = s[j]
  BY <1>1, <1>2, <1>3, <1>6, ConcatIs
<1>7. ASSUME NEW j \in 1..(Len(s) - 1), ~(j < i) PROVE (a \o b)[j] = s[j + 1]
  <2>1. j \in (Len(a) + 1)..(Len(a) + Len(b)) /\ j - Len(a) \in 1..(Len(s) - i)
    BY <1>1, <1>2, <1>3, <1>7
  <2>2. (a \o b)[j] = b[j - Len(a)]
    BY <2>1, <1>2, <1>3, ConcatIs
  <2> QED BY <2>1, <2>2, <1>1, <1>2, <1>3
<1> QED BY <1>4, <1>5, <1>6, <1>7

LEMMA InSet ==
    ASSUME NEW M, NEW s \in Seq(M)
    PROVE  /\ \A i \in 1..Len(s) : s[i] \in ToSet(s)
           /\ \A x \in ToSet(s) : \E i \in 1..Len(s) : x = s[i]
           /\ ToSet(s) \subseteq M /\ (s # <<>> => Len(s) \in 1..Len(s) /\ 1 \in 1..Len(s))
           /\ Len(s) \in Nat
BY DEF ToSet

LEMMA TailSet ==
    ASSUME NEW M, NEW s \in Seq(M), s # <<>>
    PROVE  /\ ToSet(Tail(s)) \subseteq ToSet(s) /\ Head(s) \in ToSet(s)
           /\ ToSet(s) = ToSet(Tail(s)) \cup {Head(s)}
<1> DEFINE t == Tail(s)
<1>1. /\ t \in Seq(M) /\ Len(s) \in Nat /\ Len(s) >= 1 /\ Len(t) = Len(s) - 1
      /\ \A i \in 1..(Len(s) - 1) : t[i] = s[i + 1]
      /\ Head(s) = s[1]
  BY TailIs
<1> HIDE DEF t
<1>2. ASSUME NEW x \in ToSet(t) PROVE x \in ToSet(s)
  <2>1. PICK i \in 1..Len(t) : x = t[i]
    BY <1>1, InSet
  <2>2. i + 1 \in 1..Len(s) /\ t[i] = s[i + 1]
    BY <1>1
  <2> QED BY <2>1, <2>2, InSet
<1>3. ASSUME NEW x \in ToSet(s), x # s[1] PROVE x \in ToSet(t)
  <2>1. PICK i \in 1..Len(s) : x = s[i]
    BY InSet
  <2>2. i - 1 \in 1..Len(t) /\ t[i - 1] = s[i]
    BY <1>1, <1>3, <2>1
  <2> QED BY <1>1, <2>1, <2>2, InSet
<1>4. s[1] \in ToSet(s)
  BY <1>1, InSet
<1> QED BY <1>1, <1>2, <1>3, <1>4 DEF t

LEMMA JoinSet ==
    ASSUME NEW M, NEW s \in Seq(M), NEW t \in Seq(M)
    PROVE  ToSet(s \o t) = ToSet(s) \cup ToSet(t)
<1> DEFINE u == s \o t
<1>1. /\ u \in Seq(M) /\ Len(u) = Len(s) + Len(t) /\ Len(s) \in Nat /\ Len(t) \in Nat
      /\ \A i \in 1..Len(s) : u[i] = s[i]
      /\ \A i \in 1..Len(t) : u[Len(s) + i] = t[i]
      /\ \A i \in (Len(s) + 1)..Len(u) : u[i] = t[i - Len(s)]
  BY ConcatIs
<1> HIDE DEF u
<1>2. ASSUME NEW x \in ToSet(u) PROVE x \in ToSet(s) \cup ToSet(t)
  <2>1. PICK i \in 1..Len(u) : x = u[i]
    BY <1>1, InSet
  <2>2. \/ i \in 1..Len(s) /\ u[i] = s[i]
        \/ i - Len(s) \in 1..Len(t) /\ u[i] = t[i - Len(s)]
    BY <1>1
  <2> QED BY <2>1, <2>2, InSet
<1>3. ASSUME NEW x \in ToSet(s) PROVE x \in ToSet(u)
  <2>1. PICK i \in 1..Len(s) : x = s[i]
    BY InSet
  <2>2. i \in 1..Len(u) /\ u[i] = s[i]
    BY <1>1
  <2> QED BY <1>1, <2>1, <2>2, InSet
<1>4. ASSUME NEW x \in ToSet(t) PROVE x \in ToSet(u)
  <2>1. PICK i \in 1..Len(t) : x = t[i]
    BY InSet
  <2>2. Len(s) + i \in 1..Len(u) /\ u[Len(s) + i] = t[i]
    BY <1>1
  <2> QED BY <1>1, <2>1, <2>2, InSet
<1> QED BY <1>2, <1>3, <1>4 DEF u

LEMMA AppendIn ==
    ASSUME NEW M, NEW s \in Seq(M), NEW x \in M
    PROVE  ToSet(Append(s, x)) = ToSet(s) \cup {x}
<1>1. <<x>> \in Seq(M) /\ ToSet(<<x>>) = {x}
  BY DEF ToSet
<1>2. Append(s, x) = s \o <<x>>
  OBVIOUS
<1>3. ToSet(s \o <<x>>) = ToSet(s) \cup {x}
  <2> DEFINE y == <<x>>
  <2>1. y \in Seq(M) /\ ToSet(y) = {x}
    BY <1>1
  <2> HIDE DEF y
  <2>2. ToSet(s \o y) = ToSet(s) \cup ToSet(y)
    BY <2>1, JoinSet
  <2> QED BY <2>1, <2>2 DEF y
<1> QED BY <1>2, <1>3

LEMMA AppendSet ==
    ASSUME NEW M, NEW s \in Seq(M), NEW x \in M
    PROVE  /\ Append(s, x) \in Seq(M) /\ Append(s, x) = s \o <<x>>
           /\ ToSet(Append(s, x)) = ToSet(s) \cup {x}
BY AppendIn

LEMMA WithoutSet ==
    ASSUME NEW M, NEW s \in Seq(M), NEW i \in 1..Len(s)
    PROVE  /\ ToSet(RemoveAt(s, i)) \subseteq ToSet(s) /\ s[i] \in ToSet(s)
           /\ ToSet(s) = ToSet(RemoveAt(s, i)) \cup {s[i]}
<1> DEFINE t == RemoveAt(s, i)
<1>1. /\ t \in Seq(M) /\ Len(t) = Len(s) - 1 /\ Len(s) \in Nat /\ i \in 1..Len(s)
      /\ \A j \in 1..(Len(s) - 1) : t[j] = s[IF j < i THEN j ELSE j + 1]
  BY RemoveAtIs
<1> HIDE DEF t
<1>2. ASSUME NEW x \in ToSet(t) PROVE x \in ToSet(s)
  <2>1. PICK j \in 1..Len(t) : x = t[j]
    BY <1>1, InSet
  <2>2. \E k \in 1..Len(s) : t[j] = s[k]
    BY <1>1
  <2> QED BY <2>1, <2>2, InSet
<1>3. ASSUME NEW x \in ToSet(s), x # s[i] PROVE x \in ToSet(t)
  <2>1. PICK j \in 1..Len(s) : x = s[j]
    BY InSet
  <2>2. j < i \/ j > i
    BY <1>1, <1>3, <2>1
  <2>3. \E k \in 1..Len(t) : t[k] = s[j]
    <3>1. CASE j < i
      BY <1>1, <3>1
    <3>2. CASE j > i
      <4>1. j - 1 \in 1..Len(t) /\ t[j - 1] = s[j]
        BY <1>1, <3>2
      <4> QED BY <4>1
    <3> QED BY <2>2, <3>1, <3>2
  <2> QED BY <1>1, <2>1, <2>3, InSet
<1> QED BY <1>2, <1>3, InSet DEF t

LEMMA ListTail ==
    ASSUME NEW c, NEW s \in Seq(Statement), NEW mine, NEW S, NEW P, s # <<>>,
           ListOK(c, s, mine, S, P)
    PROVE  ListOK(c, Tail(s), mine, S, P)
<1> DEFINE t == Tail(s)
<1>1. /\ Len(s) \in Nat /\ Len(s) >= 1 /\ Len(t) = Len(s) - 1 /\ t \in Seq(Statement)
      /\ \A i \in 1..(Len(s) - 1) : t[i] = s[i + 1]
      /\ Head(s) = s[1]
  BY TailIs
<1>2. ToSet(s) = ToSet(t) \cup {s[1]}
  BY <1>1, TailSet
<1> HIDE DEF t
<1>3. \A i \in 1..Len(t) : 1 \in 1..Len(s) /\ i + 1 \in 1..Len(s) /\ 1 < i + 1 /\ t[i] = s[i + 1]
  BY <1>1
<1>4. \A i, j \in 1..Len(t) : i < j => MayPrecede(t[i].do, t[j].do)
  BY <1>1, <1>3 DEF ListOK, Ordered
<1>5. \A x \in ToSet(t) : MayPrecede(s[1].do, x.do)
  <2>1. \A i \in 1..Len(t) : MayPrecede(s[1].do, t[i].do)
    BY <1>3 DEF ListOK, Ordered
  <2> QED BY <1>1, <2>1, InSet
<1>6. ASSUME NEW x \in ToSet(t), x.do \in Linking \cup {"fixture"}
      PROVE  Has(t, {"sync"}, x.m)
  <2>1. PICK y \in ToSet(s) : y.do = "sync" /\ y.m = x.m
    BY <1>2, <1>6 DEF ListOK, Has
  <2>2. y # s[1]
    BY <1>5, <1>6, <2>1 DEF MayPrecede, Linking
  <2> QED BY <1>2, <2>1, <2>2 DEF Has
<1> QED BY <1>2, <1>4, <1>6 DEF ListOK, Ordered, t

LEMMA ListGrow ==
    ASSUME NEW c, NEW s, NEW mine, NEW S, NEW P, NEW mine2, NEW S2, NEW P2,
           ListOK(c, s, mine, S, P),
           mine \subseteq mine2, S \subseteq S2, P \subseteq P2,
           mine2 = mine \/ \A x \in ToSet(s) : x.do \notin Candidates
    PROVE  ListOK(c, s, mine2, S2, P2)
<1>1. \A x \in ToSet(s) : StatementOK(c, mine2, S2, P2, x)
  BY DEF ListOK, StatementOK
<1> QED BY <1>1 DEF ListOK

LEMMA ListJoin ==
    ASSUME NEW c, NEW r \in Seq(Statement), NEW s \in Seq(Statement),
           NEW mine, NEW S, NEW P,
           ListOK(c, r, mine, S, P), ListOK(c, s, mine, S, P),
           \A x \in ToSet(r), y \in ToSet(s) : MayPrecede(x.do, y.do)
    PROVE  /\ ListOK(c, r \o s, mine, S, P) /\ r \o s \in Seq(Statement)
           /\ ToSet(r \o s) = ToSet(r) \cup ToSet(s)
<1> DEFINE u == r \o s
<1>1. /\ Len(u) = Len(r) + Len(s) /\ Len(r) \in Nat /\ Len(s) \in Nat
      /\ \A i \in 1..Len(r) : u[i] = r[i]
      /\ u \in Seq(Statement)
      /\ \A i \in (Len(r) + 1)..Len(u) : u[i] = s[i - Len(r)]
  BY ConcatIs
<1>2. ToSet(u) = ToSet(r) \cup ToSet(s)
  BY JoinSet
<1> HIDE DEF u
<1>3. \A i \in 1..Len(u) : \/ i \in 1..Len(r) /\ u[i] = r[i]
                           \/ i - Len(r) \in 1..Len(s) /\ u[i] = s[i - Len(r)]
  BY <1>1
<1>4. ASSUME NEW i \in 1..Len(u), NEW j \in 1..Len(u), i < j
      PROVE  MayPrecede(u[i].do, u[j].do)
  <2>1. CASE j \in 1..Len(r)
    BY <1>1, <1>4, <2>1 DEF ListOK, Ordered
  <2>2. CASE i \notin 1..Len(r)
    <3>1. /\ i - Len(r) \in 1..Len(s) /\ j - Len(r) \in 1..Len(s)
          /\ u[i] = s[i - Len(r)] /\ u[j] = s[j - Len(r)] /\ i - Len(r) < j - Len(r)
      BY <1>1, <1>3, <1>4, <2>2
    <3> QED BY <3>1 DEF ListOK, Ordered
  <2>3. CASE i \in 1..Len(r) /\ j \notin 1..Len(r)
    <3>1. u[i] \in ToSet(r) /\ u[j] \in ToSet(s)
      BY <1>3, <1>1, <2>3, InSet
    <3> QED BY <3>1
  <2> QED BY <2>1, <2>2, <2>3
<1>5. \A x \in ToSet(u) : /\ StatementOK(c, mine, S, P, x)
                          /\ x.do \in Candidates => mine = {}
                          /\ x.do \in Linking \cup {"fixture"} => Has(u, {"sync"}, x.m)
  BY <1>2 DEF ListOK, Has
<1> QED BY <1>1, <1>2, <1>4, <1>5 DEF ListOK, Ordered, u

\* A list of decisions without one of them.
LEMMA ListWithout ==
    ASSUME NEW c, NEW s \in Seq(Statement), NEW mine, NEW S, NEW P, NEW i \in 1..Len(s),
           ListOK(c, s, mine, S, P), \A x \in ToSet(s) : x.do = "decide"
    PROVE  ListOK(c, RemoveAt(s, i), mine, S, P)
<1> DEFINE t == RemoveAt(s, i)
<1>1. t \in Seq(Statement) /\ ToSet(t) \subseteq ToSet(s)
  BY RemoveAtIs, WithoutSet
<1>2. MayPrecede("decide", "decide")
  BY DEF MayPrecede, Linking, Candidates
<1> HIDE DEF t
<1>3. \A j \in 1..Len(t) : t[j].do = "decide"
  BY <1>1, InSet
<1> QED BY <1>1, <1>2, <1>3 DEF ListOK, Ordered, t, Linking, Candidates

-----------------------------------------------------------------------------
(* Memories in the order of their ids *)

LEMMA Greatest ==
    ASSUME NEW S \in SUBSET Nat, S # {}, NEW n \in Nat, \A x \in S : x <= n
    PROVE  \E x \in S : \A y \in S : y <= x
<1> DEFINE Before == {n - x : x \in S}
<1>1. Before \in SUBSET Nat /\ Before # {}
  <2>1. \A x \in S : n - x \in Nat
    OBVIOUS
  <2> QED BY <2>1
<1>2. PICK least \in Before : \A y \in Before : ~(<<y, least>> \in OpToRel(<, Nat))
  BY <1>1, WFMin, NatLessThanWellFounded
<1>3. \A y \in Before : ~(y < least)
  BY <1>1, <1>2 DEF OpToRel
<1>4. PICK x \in S : least = n - x
  OBVIOUS
<1>5. ASSUME NEW y \in S PROVE y <= x
  <2>1. ~(n - y < n - x) /\ x \in Nat /\ y \in Nat
    BY <1>3, <1>4
  <2> QED BY <2>1
<1> QED BY <1>5

LEMMA IdsFinite == ASSUME NEW S \in SUBSET Ids PROVE IsFiniteSet(S) /\ S \subseteq Nat
<1>1. MaxMemories \in Nat
  BY BoundsAssumption
<1>2. IsFiniteSet(1..MaxMemories)
  BY <1>1, FS_Interval
<1>3. S \in SUBSET (1..MaxMemories)
  BY DEF Ids
<1>4. IsFiniteSet(S)
  BY <1>2, <1>3, FS_Subset
<1> QED BY <1>1, <1>3, <1>4

Rising(s) == \A i, j \in DOMAIN s : i < j => s[i] < s[j]

LEMMA RisingExists ==
    \A S \in SUBSET Ids : \E s \in SetToSeqs(S) : Rising(s)
<1> DEFINE Bad == {Cardinality(S) : S \in {R \in SUBSET Ids : ~\E s \in SetToSeqs(R) : Rising(s)}}
<1>1. SUFFICES ASSUME Bad # {} PROVE FALSE
  OBVIOUS
<1>2. Bad \in SUBSET Nat
  BY IdsFinite, FS_CardinalityType
<1>3. PICK n \in Bad : \A k \in Bad : ~(<<k, n>> \in OpToRel(<, Nat))
  BY <1>1, <1>2, WFMin, NatLessThanWellFounded
<1>4. n \in Nat /\ \A k \in Bad : ~(k < n)
  BY <1>2, <1>3 DEF OpToRel
<1>5. PICK S \in SUBSET Ids : n = Cardinality(S) /\ ~\E s \in SetToSeqs(S) : Rising(s)
  OBVIOUS
<1>6. IsFiniteSet(S) /\ S \subseteq Nat /\ S \subseteq 1..MaxMemories /\ MaxMemories \in Nat
  BY IdsFinite, BoundsAssumption DEF Ids
<1>7. CASE S = {}
  <2>1. n = 0
    BY <1>5, <1>7, FS_EmptySet
  <2>2. <<>> \in SetToSeqs(S) /\ Rising(<<>>)
    BY <1>5, <1>7, <2>1 DEF SetToSeqs, Rising
  <2> QED BY <1>5, <2>2
<1>8. CASE S # {}
  <2>1. PICK g \in S : \A y \in S : y <= g
    <3>1. \A x \in S : x <= MaxMemories
      BY <1>6
    <3>2. S \in SUBSET Nat
      BY <1>6
    <3> QED BY <1>6, <1>8, <3>1, <3>2, Greatest
  <2> DEFINE R == S \ {g}
  <2>2. Cardinality(R) = n - 1 /\ n - 1 \in Nat
    <3>1. Cardinality(R) = n - 1 /\ IsFiniteSet(R)
      BY <1>5, <1>6, FS_RemoveElement
    <3>2. Cardinality(R) \in Nat
      BY <3>1, FS_CardinalityType
    <3> QED BY <3>1, <3>2
  <2>3. \E s \in SetToSeqs(R) : Rising(s)
    <3>1. Cardinality(R) \notin Bad
      BY <1>4, <2>2
    <3> QED BY <3>1
  <2>4. PICK s \in SetToSeqs(R) : Rising(s)
    BY <2>3
  <2>5. s \in [1..(n - 1) -> R] /\ \A i, j \in 1..(n - 1) : i < j => s[i] < s[j]
    BY <2>2, <2>4 DEF SetToSeqs, Rising
  <2> DEFINE t == [i \in 1..n |-> IF i = n THEN g ELSE s[i]]
  <2>6. \A i \in 1..n : i = n \/ i \in 1..(n - 1)
    BY <1>4
  <2>7. t \in [1..n -> S]
    BY <2>5, <2>6
  <2>8. ASSUME NEW i \in 1..n, NEW j \in 1..n, i < j PROVE t[i] < t[j]
    <3>1. i \in 1..(n - 1) /\ t[i] = s[i] /\ s[i] \in R
      BY <1>4, <2>5, <2>8
    <3>2. CASE j = n
      <4>1. t[j] = g /\ s[i] <= g /\ s[i] # g /\ s[i] \in Nat /\ g \in Nat
        BY <1>6, <2>1, <3>1, <3>2
      <4> QED BY <3>1, <4>1
    <3>3. CASE j # n
      BY <2>5, <2>6, <2>8, <3>1, <3>3
    <3> QED BY <3>2, <3>3
  <2>9. \A i, j \in 1..n : i # j => t[i] # t[j]
    <3> SUFFICES ASSUME NEW i \in 1..n, NEW j \in 1..n, i # j PROVE t[i] # t[j]
      OBVIOUS
    <3>1. i < j \/ j < i
      BY <1>4
    <3>2. t[i] \in Nat /\ t[j] \in Nat
      BY <1>6, <2>7
    <3>3. t[i] < t[j] \/ t[j] < t[i]
      BY <2>8, <3>1
    <3> HIDE DEF t
    <3> QED BY <3>2, <3>3
  <2>10. t \in SetToSeqs(S) /\ Rising(t)
    <3>1. DOMAIN t = 1..n
      BY <2>7
    <3> HIDE DEF t
    <3> QED BY <1>5, <2>7, <2>8, <2>9, <3>1 DEF SetToSeqs, Rising
  <2> QED BY <1>5, <2>10
<1> QED BY <1>7, <1>8

LEMMA OldestIs ==
    ASSUME NEW S \in SUBSET Ids
    PROVE  /\ Oldest(S) \in Seq(S) /\ Len(Oldest(S)) = Cardinality(S)
           /\ \A x \in S : \E i \in 1..Len(Oldest(S)) : Oldest(S)[i] = x
<1> DEFINE s == Oldest(S)
           n == Cardinality(S)
<1>1. s \in SetToSeqs(S)
  BY RisingExists DEF Oldest, Rising
<1>2. IsFiniteSet(S) /\ n \in Nat
  BY IdsFinite, FS_CardinalityType
<1>3. s \in [1..n -> S] /\ \A i, j \in 1..n : i # j => s[i] # s[j]
  BY <1>1 DEF SetToSeqs
<1>4. s \in Surjection(1..n, S)
  <2>1. s \in Injection(1..n, S)
    BY <1>3 DEF Injection, IsInjective
  <2>2. IsFiniteSet(1..n) /\ Cardinality(1..n) = n
    BY <1>2, FS_Interval
  <2> QED BY <1>2, <2>1, <2>2, FS_Injection
<1>5. \A x \in S : \E i \in 1..n : s[i] = x
  BY <1>4 DEF Surjection
<1>6. s \in Seq(S) /\ Len(s) = n
  BY <1>2, <1>3
<1> QED BY <1>5, <1>6

LEMMA NewestIs ==
    ASSUME NEW S \in SUBSET Ids
    PROVE  /\ Newest(S) \in Seq(S) /\ Len(Newest(S)) = Cardinality(S)
           /\ \A x \in S : \E i \in 1..Len(Newest(S)) : Newest(S)[i] = x
<1> DEFINE s == Oldest(S)
           n == Len(s)
           t == Newest(S)
<1>1. s \in Seq(S) /\ n \in Nat /\ n = Cardinality(S) /\ \A x \in S : \E i \in 1..n : s[i] = x
  BY OldestIs
<1>2. t = [i \in 1..n |-> s[(n - i) + 1]]
  BY DEF Newest, Reverse
<1> HIDE DEF s, n, t
<1>3. \A i \in 1..n : (n - i) + 1 \in 1..n /\ s[i] \in S
  BY <1>1 DEF n
<1>4. t \in [1..n -> S]
  BY <1>2, <1>3
<1>5. t \in Seq(S) /\ Len(t) = n
  BY <1>1, <1>4
<1>6. ASSUME NEW x \in S PROVE \E i \in 1..n : t[i] = x
  <2>1. PICK i \in 1..n : s[i] = x
    BY <1>1
  <2>2. (n - i) + 1 \in 1..n /\ (n - ((n - i) + 1)) + 1 = i
    BY <1>1
  <2>3. t[(n - i) + 1] = s[i]
    BY <1>2, <2>2
  <2> QED BY <2>1, <2>2, <2>3
<1> QED BY <1>1, <1>5, <1>6 DEF t

-----------------------------------------------------------------------------
(* What a step does to the operations *)

\* Caller c moves on: it leaves x behind, takes up statements of N, and has the
\* list R on the memories M.
Moves(c, x, N, R, M) ==
    /\ op'[c].todo = R /\ op'[c].mine = IF R = <<>> THEN {} ELSE M
    /\ op'[c].kind = "idle" <=> R = <<>>
    /\ \A d \in Callers \ {c} : /\ op'[d].todo = op[d].todo /\ op'[d].mine = op[d].mine
                                /\ op'[d].kind = op[d].kind
                                /\ op[d].mine \cap M \subseteq mixed'
    /\ mixed \subseteq mixed'
    /\ op[c].mine \subseteq M
    /\ ToSet(op[c].todo) \subseteq ToSet(R) \cup {x}
    /\ ToSet(R) \subseteq ToSet(op[c].todo) \cup N

LEMMA Overlaps ==
    ASSUME OpTypes, OpNames, NEW c \in Callers, NEW d \in Callers \ {c}, NEW M
    PROVE  op[d].mine \cap M \subseteq Overlapping(c, M)
<1> SUFFICES ASSUME NEW m \in op[d].mine, m \in M PROVE m \in Overlapping(c, M)
  OBVIOUS
<1>1. d \in Busy
  BY DEF Busy, OpNames
<1> QED BY <1>1 DEF Overlapping

LEMMA ContinueMoves ==
    ASSUME OpTypes, OpNames, NEW c \in Callers, op[c].todo # <<>>,
           NEW M \in SUBSET Ids, NEW R \in Seq(Statement), NEW others, NEW x, NEW N,
           ContinueMixing(c, M, R, others), op[c].mine \subseteq M,
           ToSet(op[c].todo) \subseteq ToSet(R) \cup {x},
           ToSet(R) \subseteq ToSet(op[c].todo) \cup N
    PROVE  OpTypes' /\ Moves(c, x, N, R, M) /\ mixed' \subseteq mixed \cup M \cup others
<1> DEFINE Types == [kind : Kinds, todo : Seq(Statement), mine : SUBSET Ids, calm : BOOLEAN]
           new == IF R = <<>> THEN Idle ELSE [op[c] EXCEPT !.todo = R, !.mine = M]
<1>1. op \in [Callers -> Types]
  BY DEF OpTypes
<1>2. op' = [op EXCEPT ![c] = new] /\ mixed' = mixed \cup Overlapping(c, M) \cup others
  BY DEF ContinueMixing
<1>3. Idle \in Types /\ Idle.todo = <<>> /\ Idle.mine = {} /\ Idle.kind = "idle"
  BY DEF Idle, Kinds
<1>4. op[c] \in Types /\ op[c].kind # "idle"
  BY <1>1 DEF OpNames
<1>5. new \in Types /\ new.todo = R /\ new.mine = (IF R = <<>> THEN {} ELSE M)
      /\ (new.kind = "idle" <=> R = <<>>)
  BY <1>3, <1>4
<1> HIDE DEF new, Types
<1>6. op' \in [Callers -> Types] /\ op'[c] = new /\ \A d \in Callers \ {c} : op'[d] = op[d]
  BY <1>1, <1>2, <1>5
<1>7. \A d \in Callers \ {c} : op[d].mine \cap M \subseteq mixed'
  BY <1>2, Overlaps
<1>8. OpTypes'
  BY <1>6 DEF OpTypes, Types
<1>9. mixed' \subseteq mixed \cup M \cup others /\ mixed \subseteq mixed'
  BY <1>2 DEF Overlapping
<1> QED BY <1>5, <1>6, <1>7, <1>8, <1>9 DEF Moves

LEMMA BeginMoves ==
    ASSUME OpTypes, OpNames, NEW c \in Callers, Free(c), NEW kind \in Kinds \ {"idle"},
           NEW M \in SUBSET Ids, NEW R \in Seq(Statement), R # <<>>, NEW x,
           Begin(c, kind, M, R)
    PROVE  /\ OpTypes' /\ Moves(c, x, ToSet(R), R, M) /\ mixed' \subseteq mixed \cup M
           /\ op[c].todo = <<>> /\ op[c].mine = {}
           /\ op'[c].kind = kind /\ op'[c].calm = (Busy = {})
           /\ \A d \in Callers \ {c} : op'[d].calm = FALSE
<1> DEFINE Types == [kind : Kinds, todo : Seq(Statement), mine : SUBSET Ids, calm : BOOLEAN]
           new == [kind |-> kind, todo |-> R, mine |-> M, calm |-> Busy = {}]
<1>1. op \in [Callers -> Types]
  BY DEF OpTypes
<1>2. /\ op' = [d \in Callers |-> IF d = c THEN new ELSE [op[d] EXCEPT !.calm = FALSE]]
      /\ mixed' = mixed \cup Overlapping(c, M)
  BY DEF Begin
<1>3. (Busy = {}) \in BOOLEAN
  OBVIOUS
<1>4. new \in Types /\ new.todo = R /\ new.mine = M /\ new.kind = kind /\ new.calm = (Busy = {})
  BY <1>3
<1>5. \A d \in Callers : [op[d] EXCEPT !.calm = FALSE] \in Types
  BY <1>1
<1> HIDE DEF new
<1>6. op' \in [Callers -> Types] /\ op'[c] = new
  BY <1>2, <1>4, <1>5
<1>7. \A d \in Callers \ {c} : op'[d] = [op[d] EXCEPT !.calm = FALSE] /\ op[d] \in Types
  BY <1>1, <1>2
<1>8. \A d \in Callers \ {c} : /\ op'[d].todo = op[d].todo /\ op'[d].mine = op[d].mine
                               /\ op'[d].kind = op[d].kind /\ op'[d].calm = FALSE
  BY <1>7
<1>9. op[c].todo = <<>> /\ op[c].mine = {}
  BY DEF Free, Busy, OpNames
<1>10. \A d \in Callers \ {c} : op[d].mine \cap M \subseteq mixed'
  BY <1>2, Overlaps
<1>11. mixed' \subseteq mixed \cup M /\ mixed \subseteq mixed'
  BY <1>2 DEF Overlapping
<1>12. ToSet(op[c].todo) = {}
  BY <1>9 DEF ToSet
<1> QED BY <1>4, <1>6, <1>8, <1>9, <1>10, <1>11, <1>12 DEF OpTypes, Moves

\* Callers of D forget what they were doing.
Forgets(D) ==
    /\ D \subseteq Callers
    /\ \A c \in D : op'[c].todo = <<>> /\ op'[c].mine = {} /\ op'[c].kind = "idle"
                    /\ op[c].mine \subseteq mixed'
    /\ \A c \in Callers \ D : op'[c] = op[c]
    /\ mixed \subseteq mixed'
    /\ mixed' \subseteq mixed \cup UNION {op[c].mine : c \in D}

\* The operations stay sound when the new list is.
LEMMA MovesShape ==
    ASSUME OpTypes, OpNames, ListsOK, Exclusive,
           NEW c \in Callers, NEW x, NEW N, NEW R, NEW M, Moves(c, x, N, R, M),
           M \subseteq Stored', Stored \subseteq Stored', DOMAIN prop \subseteq DOMAIN prop',
           ListOK(c, R, M, Stored', DOMAIN prop')
    PROVE  OpNames' /\ ListsOK' /\ Exclusive'
<1>1. ASSUME NEW d \in Callers
      PROVE  /\ op'[d].mine \subseteq Stored'
             /\ op'[d].todo = <<>> <=> op'[d].kind = "idle"
             /\ op'[d].todo = <<>> => op'[d].mine = {}
             /\ ListOK(d, op'[d].todo, op'[d].mine, Stored', DOMAIN prop')
  <2>1. CASE d = c
    <3>1. CASE R = <<>>
      <4>1. ToSet(R) = {} /\ Ordered(R)
        BY <3>1 DEF ToSet, Ordered
      <4> QED BY <2>1, <3>1, <4>1 DEF Moves, ListOK
    <3>2. CASE R # <<>>
      BY <2>1, <3>2 DEF Moves
    <3> QED BY <3>1, <3>2
  <2>2. CASE d # c
    <3>1. op'[d].todo = op[d].todo /\ op'[d].mine = op[d].mine /\ op'[d].kind = op[d].kind
      BY <2>2 DEF Moves
    <3>2. ListOK(d, op[d].todo, op[d].mine, Stored', DOMAIN prop')
      BY ListGrow DEF ListsOK
    <3>3. op[d].mine \subseteq Stored'
      BY DEF OpNames
    <3> QED BY <3>1, <3>2, <3>3 DEF OpNames
  <2> QED BY <2>1, <2>2
<1>2. OpNames' /\ ListsOK'
  BY <1>1 DEF OpNames, ListsOK
<1>3. ASSUME NEW d \in Callers, NEW e \in Callers, d # e,
             NEW m \in op'[d].mine \cap op'[e].mine
      PROVE  m \in mixed'
  <2>1. CASE d # c /\ e # c
    BY <1>3, <2>1 DEF Moves, Exclusive
  <2>2. CASE d = c
    BY <1>3, <2>2 DEF Moves
  <2>3. CASE e = c
    BY <1>3, <2>3 DEF Moves
  <2> QED BY <2>1, <2>2, <2>3
<1> QED BY <1>2, <1>3 DEF Exclusive

LEMMA ForgetsShape ==
    ASSUME OpTypes, OpNames, ListsOK, Exclusive, NEW D, Forgets(D),
           Stored' = Stored, DOMAIN prop' = DOMAIN prop
    PROVE  OpNames' /\ ListsOK' /\ Exclusive'
<1>1. ASSUME NEW d \in Callers
      PROVE  /\ op'[d].mine \subseteq Stored'
             /\ op'[d].todo = <<>> <=> op'[d].kind = "idle"
             /\ op'[d].todo = <<>> => op'[d].mine = {}
             /\ ListOK(d, op'[d].todo, op'[d].mine, Stored', DOMAIN prop')
  <2>1. CASE d \in D
    <3>1. ToSet(<<>>) = {} /\ Ordered(<<>>)
      BY DEF ToSet, Ordered
    <3> QED BY <2>1, <3>1 DEF Forgets, ListOK
  <2>2. CASE d \notin D
    BY <2>2 DEF Forgets, OpNames, ListsOK
  <2> QED BY <2>1, <2>2
<1>2. ASSUME NEW d \in Callers, NEW e \in Callers, d # e,
             NEW m \in op'[d].mine \cap op'[e].mine
      PROVE  m \in mixed'
  <2>1. d \notin D /\ e \notin D
    BY <1>2 DEF Forgets
  <2> QED BY <1>2, <2>1 DEF Forgets, Exclusive
<1> QED BY <1>1, <1>2 DEF OpNames, ListsOK, Exclusive

-----------------------------------------------------------------------------
(* Statements and rows *)

LEMMA DoIs ==
    ASSUME NEW what \in Deeds, NEW m \in Ids \cup {Nobody}, NEW n \in Ids \cup {Nobody}
    PROVE  /\ Do(what, m, n) \in Statement
           /\ Do(what, m, n).do = what /\ Do(what, m, n).m = m /\ Do(what, m, n).n = n
           /\ Do(what, m, n).status = "active" /\ Do(what, m, n).set = {}
           /\ Do(what, m, n).p = Nobody /\ Do(what, m, n).c = NoKey
BY DEF Do, Statement, Statuses

LEMMA HeadIs ==
    ASSUME MemoryShape, NEW c \in Callers, op[c].todo # <<>>
    PROVE  /\ op[c].todo \in Seq(Statement) /\ Tail(op[c].todo) \in Seq(Statement)
           /\ Current(c) \in Statement /\ Current(c) \in Todo(c)
           /\ StatementOK(c, op[c].mine, Stored, DOMAIN prop, Current(c))
           /\ Current(c).do \in Candidates => op[c].mine = {}
           /\ Current(c).do \in Linking \cup {"fixture"} =>
                 Has(op[c].todo, {"sync"}, Current(c).m)
           /\ ListOK(c, Tail(op[c].todo), op[c].mine, Stored, DOMAIN prop)
           /\ Todo(c) = ToSet(Tail(op[c].todo)) \cup {Current(c)}
           /\ \A y \in ToSet(Tail(op[c].todo)) : MayPrecede(Current(c).do, y.do)
           /\ op[c].mine \in SUBSET Ids /\ op[c].mine \subseteq Stored
<1> DEFINE T == op[c].todo
<1>1. T \in Seq(Statement) /\ op[c].mine \in SUBSET Ids
  BY DEF MemoryShape, OpTypes
<1>2. ListOK(c, T, op[c].mine, Stored, DOMAIN prop) /\ op[c].mine \subseteq Stored
  BY DEF MemoryShape, ListsOK, OpNames
<1> HIDE DEF T
<1>3. T # <<>> /\ Todo(c) = ToSet(T) /\ Current(c) = Head(T)
  BY DEF T, Todo, Current
<1>4. /\ ToSet(T) = ToSet(Tail(T)) \cup {Head(T)} /\ Head(T) \in Statement
      /\ Head(T) = T[1] /\ Tail(T) \in Seq(Statement)
      /\ Len(T) \in Nat /\ Len(Tail(T)) = Len(T) - 1
      /\ \A i \in 1..(Len(T) - 1) : Tail(T)[i] = T[i + 1]
  BY <1>1, <1>3, TailSet, TailIs
<1>5. ListOK(c, Tail(T), op[c].mine, Stored, DOMAIN prop)
  BY <1>1, <1>2, <1>3, ListTail
<1>6. ASSUME NEW y \in ToSet(Tail(T)) PROVE MayPrecede(Head(T).do, y.do)
  <2>1. PICK i \in 1..Len(Tail(T)) : y = Tail(T)[i]
    BY <1>4, InSet
  <2>2. 1 \in 1..Len(T) /\ i + 1 \in 1..Len(T) /\ 1 < i + 1 /\ y = T[i + 1]
    BY <1>4, <2>1
  <2> QED BY <1>2, <1>4, <2>2 DEF ListOK, Ordered
<1> QED BY <1>1, <1>2, <1>3, <1>4, <1>5, <1>6 DEF ListOK, T

\* A caller takes up the list R in place of the statement it executed.
LEMMA ListMoves ==
    ASSUME MemoryShape, NEW c \in Callers, op[c].todo # <<>>,
           NEW M \in SUBSET Ids, NEW R \in Seq(Statement), NEW others, NEW x, NEW N,
           ContinueMixing(c, M, R, others), op[c].mine \subseteq M, M \subseteq Stored',
           Todo(c) \subseteq ToSet(R) \cup {x}, ToSet(R) \subseteq Todo(c) \cup N,
           Stored \subseteq Stored', DOMAIN prop \subseteq DOMAIN prop',
           ListOK(c, R, M, Stored', DOMAIN prop')
    PROVE  /\ OpTypes' /\ OpNames' /\ ListsOK' /\ Exclusive'
           /\ Moves(c, x, N, R, M) /\ mixed' \subseteq mixed \cup M \cup others
           /\ reviewed' = reviewed
<1>1. OpTypes' /\ Moves(c, x, N, R, M) /\ mixed' \subseteq mixed \cup M \cup others
  BY ContinueMoves DEF MemoryShape, Todo
<1>2. OpNames' /\ ListsOK' /\ Exclusive'
  BY <1>1, MovesShape DEF MemoryShape
<1> QED BY <1>1, <1>2 DEF ContinueMixing

LEMMA StepMoves ==
    ASSUME MemoryShape, NEW c \in Callers, op[c].todo # <<>>, NEW others,
           ContinueMixing(c, op[c].mine, Tail(op[c].todo), others),
           Stored \subseteq Stored', DOMAIN prop \subseteq DOMAIN prop'
    PROVE  /\ OpTypes' /\ OpNames' /\ ListsOK' /\ Exclusive'
           /\ Moves(c, Current(c), {}, Tail(op[c].todo), op[c].mine)
           /\ mixed' \subseteq mixed \cup Stored \cup others
           /\ reviewed' = reviewed
<1> DEFINE R == Tail(op[c].todo)
           M == op[c].mine
<1>1. /\ R \in Seq(Statement) /\ ListOK(c, R, M, Stored, DOMAIN prop)
      /\ Todo(c) = ToSet(R) \cup {Current(c)} /\ M \in SUBSET Ids /\ M \subseteq Stored
  BY HeadIs
<1>2. ContinueMixing(c, M, R, others) /\ op[c].mine \subseteq M
  OBVIOUS
<1> HIDE DEF R, M
<1>3. ListOK(c, R, M, Stored', DOMAIN prop')
  BY <1>1, ListGrow
<1>4. Todo(c) \subseteq ToSet(R) \cup {Current(c)} /\ ToSet(R) \subseteq Todo(c) \cup {}
  BY <1>1
<1>5. M \subseteq Stored'
  BY <1>1
<1>6. /\ OpTypes' /\ OpNames' /\ ListsOK' /\ Exclusive'
      /\ Moves(c, Current(c), {}, R, M) /\ mixed' \subseteq mixed \cup M \cup others
      /\ reviewed' = reviewed
  BY <1>1, <1>2, <1>3, <1>4, <1>5, ListMoves
<1>7. mixed' \subseteq mixed \cup Stored \cup others
  BY <1>1, <1>6
<1> QED BY <1>6, <1>7 DEF R, M

LEMMA PrefixMoves ==
    ASSUME MemoryShape, NEW c \in Callers, op[c].todo # <<>>,
           NEW M \in SUBSET Ids, NEW P \in Seq(Statement),
           Continue(c, M, P \o Tail(op[c].todo)), op[c].mine \subseteq M, M \subseteq Stored',
           Stored \subseteq Stored', DOMAIN prop \subseteq DOMAIN prop',
           ListOK(c, P, M, Stored', DOMAIN prop'),
           \A x \in ToSet(P), y \in ToSet(Tail(op[c].todo)) : MayPrecede(x.do, y.do),
           M = op[c].mine \/ \A y \in ToSet(Tail(op[c].todo)) : y.do \notin Candidates
    PROVE  /\ OpTypes' /\ OpNames' /\ ListsOK' /\ Exclusive'
           /\ Moves(c, Current(c), ToSet(P), P \o Tail(op[c].todo), M)
           /\ mixed' \subseteq mixed \cup M /\ reviewed' = reviewed
<1> DEFINE S == Tail(op[c].todo)
           R == P \o S
<1>1. /\ S \in Seq(Statement) /\ ListOK(c, S, op[c].mine, Stored, DOMAIN prop)
      /\ Todo(c) = ToSet(S) \cup {Current(c)}
  BY HeadIs
<1> HIDE DEF S
<1>2. ListOK(c, S, M, Stored', DOMAIN prop')
  BY <1>1, ListGrow DEF S
<1>3. ListOK(c, R, M, Stored', DOMAIN prop') /\ R \in Seq(Statement)
      /\ ToSet(R) = ToSet(P) \cup ToSet(S)
  BY <1>1, <1>2, ListJoin, ZenonT(90) DEF S
<1>4. ContinueMixing(c, M, R, {})
  BY DEF Continue, S
<1> DEFINE x == Current(c)
           N == ToSet(P)
<1> HIDE DEF R
<1>5. Todo(c) \subseteq ToSet(R) \cup {x} /\ ToSet(R) \subseteq Todo(c) \cup N
  BY <1>1, <1>3
<1> HIDE DEF x, N
<1>6. /\ OpTypes' /\ OpNames' /\ ListsOK' /\ Exclusive'
      /\ Moves(c, x, N, R, M) /\ mixed' \subseteq mixed \cup M \cup {}
      /\ reviewed' = reviewed
  BY <1>3, <1>4, <1>5, ListMoves
<1> QED BY <1>6 DEF R, S, x, N

LEMMA StoredIds == ASSUME RowTypes PROVE Stored \subseteq Ids /\ Len(mem) \in Nat /\ MaxMemories \in Nat
BY BoundsAssumption DEF RowTypes, Stored, Ids

\* A row changes, the others do not.
LEMMA RowChange ==
    ASSUME NEW m \in Stored, mem \in Seq(MemoryRow), NEW r \in MemoryRow,
           mem' = [mem EXCEPT ![m] = r]
    PROVE  /\ mem' \in Seq(MemoryRow) /\ Len(mem') = Len(mem) /\ Stored' = Stored
           /\ mem'[m] = r /\ \A k \in Stored \ {m} : mem'[k] = mem[k]
BY DEF Stored

LEMMA LifecycleIs ==
    ASSUME RowTypes, NEW m \in Stored, NEW by \in Ids \cup {Nobody}, NEW status \in Statuses,
           mem' = Lifecycle(m, by, status)
    PROVE  /\ mem' \in Seq(MemoryRow) /\ Len(mem') = Len(mem) /\ Stored' = Stored
           /\ \A k \in Stored \ {m} : mem'[k] = mem[k]
           /\ mem'[m] \in MemoryRow
           /\ mem'[m].status = status /\ mem'[m].by = by /\ mem'[m].over = mem[m].over
           /\ mem'[m].content = mem[m].content /\ mem'[m].maker = mem[m].maker
           /\ mem'[m].seen = mem[m].seen
<1> DEFINE r == [mem[m] EXCEPT !.status = status, !.by = by]
<1>1. mem \in Seq(MemoryRow) /\ mem[m] \in MemoryRow
  BY DEF RowTypes, Stored
<1>2. /\ r \in MemoryRow /\ r.status = status /\ r.by = by /\ r.over = mem[m].over
      /\ r.content = mem[m].content /\ r.maker = mem[m].maker /\ r.seen = mem[m].seen
  BY <1>1 DEF MemoryRow
<1>3. mem' = [mem EXCEPT ![m] = r]
  BY DEF Lifecycle
<1> HIDE DEF r
<1> QED BY <1>1, <1>2, <1>3, RowChange

-----------------------------------------------------------------------------
(* The lists operations begin with *)

LEMMA EachIs ==
    ASSUME NEW what \in Deeds, NEW S \in SUBSET Ids, NEW ms \in Seq(S)
    PROVE  /\ Each(what, ms) \in Seq(Statement) /\ Len(Each(what, ms)) = Len(ms)
           /\ \A x \in ToSet(Each(what, ms)) : \E m \in S : x = Do(what, m, Nobody)
           /\ \A m \in S : (\E i \in 1..Len(ms) : ms[i] = m) =>
                 Do(what, m, Nobody) \in ToSet(Each(what, ms))
<1> DEFINE s == Each(what, ms)
           n == Len(ms)
<1>1. n \in Nat /\ \A i \in 1..n : ms[i] \in S
  OBVIOUS
<1>2. DOMAIN ms = 1..n
  OBVIOUS
<1>3. s = [i \in 1..n |-> Do(what, ms[i], Nobody)]
  BY <1>2 DEF Each
<1>4. \A i \in 1..n : Do(what, ms[i], Nobody) \in Statement
  BY <1>1, DoIs
<1> HIDE DEF s, n
<1>5. s \in [1..n -> Statement]
  BY <1>3, <1>4
<1>6. s \in Seq(Statement) /\ Len(s) = n
  BY <1>1, <1>5
<1>7. ASSUME NEW x \in ToSet(s) PROVE \E m \in S : x = Do(what, m, Nobody)
  <2>1. PICK i \in 1..n : x = s[i]
    BY <1>6, InSet
  <2> QED BY <2>1, <1>1, <1>3
<1>8. ASSUME NEW i \in 1..n PROVE Do(what, ms[i], Nobody) \in ToSet(s)
  <2>1. s[i] \in ToSet(s)
    BY <1>6, InSet
  <2> QED BY <2>1, <1>3
<1> QED BY <1>6, <1>7, <1>8 DEF s, n

\* One deed for each memory of S, which the caller works on.
LEMMA EachOK ==
    ASSUME NEW what \in {"ensure", "restore", "sync"}, NEW S \in SUBSET Ids, NEW ms \in Seq(S),
           NEW c \in Callers, NEW mine, NEW St, NEW P, S \subseteq St,
           (what = "sync" /\ c = Worker) \/ S \subseteq mine,
           what = "restore" => c \in Turns
    PROVE  ListOK(c, Each(what, ms), mine, St, P)
<1> DEFINE s == Each(what, ms)
<1>1. what \in Deeds
  BY DEF Deeds
<1>2. s \in Seq(Statement) /\ \A x \in ToSet(s) : \E m \in S : x = Do(what, m, Nobody)
  BY <1>1, EachIs
<1> HIDE DEF s
<1>3. \A x \in ToSet(s) : x.do = what /\ x.m \in S
  BY <1>1, <1>2, DoIs
<1>4. \A x \in ToSet(s) : StatementOK(c, mine, St, P, x)
  BY <1>3 DEF StatementOK, Owned, Linking, Candidates, Carriers
<1>5. MayPrecede(what, what)
  BY DEF MayPrecede, Linking, Candidates
<1>6. \A i \in 1..Len(s) : s[i].do = what
  BY <1>2, <1>3, InSet
<1>7. Ordered(s)
  BY <1>5, <1>6 DEF Ordered
<1> QED BY <1>3, <1>4, <1>7 DEF ListOK, Candidates, Linking, s

\* Deeds of lists that join.
LEMMA EachPrecede ==
    ASSUME NEW d \in Deeds, NEW e \in Deeds, NEW S \in SUBSET Ids, NEW ms \in Seq(S),
           NEW ns \in Seq(S), MayPrecede(d, e)
    PROVE  \A x \in ToSet(Each(d, ms)), y \in ToSet(Each(e, ns)) : MayPrecede(x.do, y.do)
<1>1. \A x \in ToSet(Each(d, ms)) : x.do = d
  BY EachIs, DoIs
<1>2. \A x \in ToSet(Each(e, ns)) : x.do = e
  BY EachIs, DoIs
<1> QED BY <1>1, <1>2

LEMMA SingleOK ==
    ASSUME NEW c, NEW mine, NEW S, NEW P, NEW x \in Statement,
           StatementOK(c, mine, S, P, x), x.do \notin Linking \cup {"fixture"},
           x.do \in Candidates => mine = {}
    PROVE  /\ ListOK(c, <<x>>, mine, S, P) /\ <<x>> \in Seq(Statement) /\ <<x>> # <<>>
           /\ ToSet(<<x>>) = {x}
<1>1. ToSet(<<x>>) = {x}
  BY DEF ToSet
<1>2. Ordered(<<x>>)
  BY DEF Ordered
<1> QED BY <1>1, <1>2 DEF ListOK

BackfillTodo(S) ==
    Each("ensure", Newest(S)) \o Each("restore", Newest(S)) \o Each("sync", Newest(S))

LEMMA BackfillList ==
    ASSUME RowTypes, NEW c \in Turns, NEW S \in SUBSET Ids, S \subseteq Stored, S # {},
           NEW R, R = BackfillTodo(S)
    PROVE  /\ R \in Seq(Statement) /\ R # <<>> /\ ListOK(c, R, S, Stored, DOMAIN prop)
           /\ \A x \in ToSet(R) : \E m \in S, d \in {"ensure", "restore", "sync"} :
                                    x = Do(d, m, Nobody)
           /\ \A m \in S : Has(R, {"restore"}, m)
           /\ R[Len(R)].do = "sync"
<1> DEFINE ms == Newest(S)
           a == Each("ensure", ms)
           b == Each("restore", ms)
           d == Each("sync", ms)
<1>1. ms \in Seq(S) /\ \A x \in S : \E i \in 1..Len(ms) : ms[i] = x
  BY NewestIs
<1>2. c \in Callers /\ {"ensure", "restore", "sync"} \subseteq Deeds
  BY DEF Callers, Deeds
<1> HIDE DEF ms
<1>3. /\ a \in Seq(Statement) /\ b \in Seq(Statement) /\ d \in Seq(Statement)
      /\ Len(d) = Len(ms)
  BY <1>1, <1>2, EachIs
<1>4. /\ ListOK(c, a, S, Stored, DOMAIN prop) /\ ListOK(c, b, S, Stored, DOMAIN prop)
      /\ ListOK(c, d, S, Stored, DOMAIN prop)
  BY <1>1, <1>2, EachOK
<1>5. /\ MayPrecede("ensure", "restore") /\ MayPrecede("ensure", "sync")
      /\ MayPrecede("restore", "sync")
  BY DEF MayPrecede, Linking, Candidates
<1>6. /\ \A x \in ToSet(a), y \in ToSet(b) : MayPrecede(x.do, y.do)
      /\ \A x \in ToSet(a), y \in ToSet(d) : MayPrecede(x.do, y.do)
      /\ \A x \in ToSet(b), y \in ToSet(d) : MayPrecede(x.do, y.do)
  <2>1. \A x \in ToSet(a), y \in ToSet(b) : MayPrecede(x.do, y.do)
    BY <1>1, <1>2, <1>5, EachPrecede
  <2>2. \A x \in ToSet(a), y \in ToSet(d) : MayPrecede(x.do, y.do)
    BY <1>1, <1>2, <1>5, EachPrecede
  <2>3. \A x \in ToSet(b), y \in ToSet(d) : MayPrecede(x.do, y.do)
    BY <1>1, <1>2, <1>5, EachPrecede
  <2> QED BY <2>1, <2>2, <2>3
<1>7. /\ \A x \in ToSet(a) : \E m \in S : x = Do("ensure", m, Nobody)
      /\ \A x \in ToSet(b) : \E m \in S : x = Do("restore", m, Nobody)
      /\ \A x \in ToSet(d) : \E m \in S : x = Do("sync", m, Nobody)
      /\ \A m \in S : Do("restore", m, Nobody) \in ToSet(b)
  BY <1>1, <1>2, EachIs
<1> HIDE DEF a, b, d
<1>8. /\ ListOK(c, a \o b, S, Stored, DOMAIN prop) /\ a \o b \in Seq(Statement)
      /\ ToSet(a \o b) = ToSet(a) \cup ToSet(b)
  BY <1>3, <1>4, <1>6, ListJoin, ZenonT(90)
<1> DEFINE u == a \o b
<1>9. \A x \in ToSet(u), y \in ToSet(d) : MayPrecede(x.do, y.do)
  BY <1>6, <1>8
<1>10. u \in Seq(Statement) /\ ListOK(c, u, S, Stored, DOMAIN prop)
       /\ ToSet(u) = ToSet(a) \cup ToSet(b)
  BY <1>8
<1> HIDE DEF u
<1>11. /\ ListOK(c, u \o d, S, Stored, DOMAIN prop) /\ u \o d \in Seq(Statement)
       /\ ToSet(u \o d) = ToSet(u) \cup ToSet(d)
  <2>1. /\ d \in Seq(Statement) /\ u \in Seq(Statement)
        /\ ListOK(c, d, S, Stored, DOMAIN prop) /\ ListOK(c, u, S, Stored, DOMAIN prop)
    BY <1>3, <1>4, <1>10
  <2> QED BY <2>1, <1>9, ListJoin
<1>12. R = u \o d
  BY DEF BackfillTodo, u, a, b, d, ms
<1>13. Len(d) \in Nat /\ Len(d) > 0
  BY <1>1, <1>3
<1>14. R # <<>> /\ R[Len(R)].do = "sync"
  <2>1. /\ Len(R) = Len(u) + Len(d) /\ Len(u) \in Nat
        /\ (u \o d)[Len(u) + Len(d)] = d[Len(d)]
    <3>1. d \in Seq(Statement) /\ u \in Seq(Statement) /\ Len(d) \in 1..Len(d)
      BY <1>3, <1>10, <1>13
    <3>2. Len(u \o d) = Len(u) + Len(d) /\ Len(u) \in Nat
          /\ (u \o d)[Len(u) + Len(d)] = d[Len(d)]
      BY <3>1, ConcatIs
    <3> QED BY <1>12, <3>2
  <2>2. d[Len(d)] \in ToSet(d)
    BY <1>3, <1>13, InSet
  <2>3. d[Len(d)].do = "sync"
    BY <1>2, <1>7, <2>2, DoIs
  <2> QED BY <1>12, <1>13, <2>1, <2>3
<1>15. ASSUME NEW m \in S PROVE Has(R, {"restore"}, m)
  <2>1. Do("restore", m, Nobody) \in ToSet(R)
    BY <1>7, <1>10, <1>11, <1>12
  <2>2. Do("restore", m, Nobody).do = "restore" /\ Do("restore", m, Nobody).m = m
    BY <1>2, DoIs
  <2> QED BY <2>1, <2>2 DEF Has
<1>16. ToSet(R) = ToSet(a) \cup ToSet(b) \cup ToSet(d)
  BY <1>10, <1>11, <1>12
<1> QED BY <1>7, <1>11, <1>12, <1>14, <1>15, <1>16

LEMMA SyncList ==
    ASSUME RowTypes, NEW c \in Callers, NEW S \in SUBSET Ids, S \subseteq Stored, S # {},
           NEW mine, c = Worker \/ S \subseteq mine
    PROVE  /\ Each("sync", Newest(S)) \in Seq(Statement) /\ Each("sync", Newest(S)) # <<>>
           /\ ListOK(c, Each("sync", Newest(S)), mine, Stored, DOMAIN prop)
           /\ \A x \in ToSet(Each("sync", Newest(S))) : \E m \in S : x = Do("sync", m, Nobody)
<1>1. /\ Newest(S) \in Seq(S) /\ \A x \in S : \E i \in 1..Len(Newest(S)) : Newest(S)[i] = x
  BY NewestIs
<1>2. "sync" \in Deeds
  BY DEF Deeds
<1>3. ListOK(c, Each("sync", Newest(S)), mine, Stored, DOMAIN prop)
  BY <1>1, EachOK
<1>4. /\ Each("sync", Newest(S)) \in Seq(Statement)
      /\ \A x \in ToSet(Each("sync", Newest(S))) : \E m \in S : x = Do("sync", m, Nobody)
      /\ Len(Each("sync", Newest(S))) = Len(Newest(S))
  BY <1>1, <1>2, EachIs
<1>5. Len(Newest(S)) > 0 /\ Len(Newest(S)) \in Nat
  BY <1>1
<1> QED BY <1>3, <1>4, <1>5

\* The statements of a deprecation and of a supersession.
LEMMA DeedsAre ==
    ASSUME NEW m \in Ids, NEW by \in Ids \cup {Nobody}
    PROVE  /\ Ensure(m) \in Statement /\ Ensure(m).do = "ensure" /\ Ensure(m).m = m
           /\ Sync(m) \in Statement /\ Sync(m).do = "sync" /\ Sync(m).m = m
           /\ Retire(m, by) \in Statement /\ Retire(m, by).do = "retire" /\ Retire(m, by).m = m
<1>1. {"ensure", "sync", "retire"} \subseteq Deeds /\ m \in Ids \cup {Nobody}
      /\ Nobody \in Ids \cup {Nobody}
  BY DEF Deeds
<1>2. Ensure(m) \in Statement /\ Ensure(m).do = "ensure" /\ Ensure(m).m = m
  BY <1>1, DoIs DEF Ensure
<1>3. Sync(m) \in Statement /\ Sync(m).do = "sync" /\ Sync(m).m = m
  BY <1>1, DoIs DEF Sync
<1>4. Retire(m, by) \in Statement /\ Retire(m, by).do = "retire" /\ Retire(m, by).m = m
  BY <1>1, DoIs DEF Retire
<1> QED BY <1>2, <1>3, <1>4

\* A list of the deeds of these commands in which only the first statement links.
LEMMA OneLinkOK ==
    ASSUME NEW c, NEW mine, NEW S, NEW P, NEW s \in Seq(Statement), s # <<>>,
           \A x \in ToSet(s) : x.do \in {"link", "relink", "ensure", "retire", "sync"},
           \A i \in 2..Len(s) : s[i].do \in {"ensure", "retire", "sync"},
           \A x \in ToSet(s) : x.m \in mine /\ x.m \in S,
           s[1].do \in Linking => /\ s[1].n \in (S \cup {Nobody}) \ {s[1].m}
                                  /\ s[1].do = "link" => s[1].n \in S
                                  /\ s[1].do = "relink" => s[1].set \subseteq S \ {s[1].m}
                                  /\ Has(s, {"sync"}, s[1].m)
    PROVE  ListOK(c, s, mine, S, P)
<1>2. \A x \in ToSet(s) : x = s[1] \/ x.do \in {"ensure", "retire", "sync"}
  <2>1. \A i \in 1..Len(s) : i = 1 \/ i \in 2..Len(s)
    OBVIOUS
  <2> QED BY <2>1, InSet
<1>3. ASSUME NEW x \in ToSet(s) PROVE StatementOK(c, mine, S, P, x)
  BY <1>2 DEF StatementOK, Owned, Linking, Candidates, Carriers
<1>4. ASSUME NEW i \in 1..Len(s), NEW j \in 1..Len(s), i < j
      PROVE  MayPrecede(s[i].do, s[j].do)
  <2>1. j \in 2..Len(s) /\ s[i] \in ToSet(s)
    BY <1>4, InSet
  <2>2. /\ s[j].do \in {"ensure", "retire", "sync"}
        /\ s[i].do \in {"link", "relink", "ensure", "retire", "sync"}
    BY <2>1
  <2> QED BY <2>2 DEF MayPrecede, Linking, Candidates
<1> QED BY <1>2, <1>3, <1>4 DEF ListOK, Ordered, Linking, Candidates

LEMMA DeprecateList ==
    ASSUME RowTypes, NEW c \in Turns, NEW m \in Stored,
           NEW by \in (Stored \cup {Nobody}) \ {m}
    PROVE  /\ Deprecation(m, by) \in Seq(Statement) /\ Deprecation(m, by) # <<>>
           /\ ListOK(c, Deprecation(m, by), {m, by} \ {Nobody}, Stored, DOMAIN prop)
           /\ ToSet(Deprecation(m, by)) =
                 {Ensure(m), Retire(m, by), Sync(m)} \cup
                 (IF by = Nobody THEN {} ELSE {Do("link", by, m), Ensure(by), Sync(by)})
<1> DEFINE mine == {m, by} \ {Nobody}
           R == Deprecation(m, by)
<1>1. m \in Ids /\ by \in Ids \cup {Nobody} /\ m # Nobody /\ m # by
  BY StoredIds DEF Stored, Nobody
<1>2. /\ Ensure(m) \in Statement /\ Ensure(m).do = "ensure" /\ Ensure(m).m = m
      /\ Sync(m) \in Statement /\ Sync(m).do = "sync" /\ Sync(m).m = m
      /\ Retire(m, by) \in Statement /\ Retire(m, by).do = "retire" /\ Retire(m, by).m = m
  BY <1>1, DeedsAre
<1>3. CASE by = Nobody
  <2>1. R = <<Ensure(m), Retire(m, by), Sync(m)>>
    BY <1>3 DEF Deprecation
  <2> HIDE DEF R
  <2>2. ToSet(R) = {Ensure(m), Retire(m, by), Sync(m)} /\ R # <<>> /\ Len(R) = 3
        /\ R[1] = Ensure(m) /\ R[2] = Retire(m, by) /\ R[3] = Sync(m)
    <3>1. ToSet(R) = {Ensure(m), Retire(m, by), Sync(m)}
      BY <2>1 DEF ToSet
    <3>2. R # <<>> /\ Len(R) = 3
          /\ R[1] = Ensure(m) /\ R[2] = Retire(m, by) /\ R[3] = Sync(m)
      BY <2>1
    <3> QED BY <3>1, <3>2
  <2>3. R \in Seq(Statement)
    BY <1>2, <2>1
  <2>4. \A i \in 2..Len(R) : R[i].do \in {"ensure", "retire", "sync"}
    BY <1>2, <2>2
  <2>5. \A x \in ToSet(R) : x.do \in {"link", "relink", "ensure", "retire", "sync"}
                            /\ x.m \in mine /\ x.m \in Stored
    BY <1>1, <1>2, <2>2
  <2>6. R[1].do \notin Linking
    BY <1>2, <2>2 DEF Linking
  <2>7. ListOK(c, R, mine, Stored, DOMAIN prop)
    BY <2>2, <2>3, <2>4, <2>5, <2>6, OneLinkOK
  <2> QED BY <1>3, <2>2, <2>3, <2>7 DEF R
<1>4. CASE by # Nobody
  <2> DEFINE lk == Do("link", by, m)
  <2>1. /\ Ensure(by) \in Statement /\ Ensure(by).do = "ensure" /\ Ensure(by).m = by
        /\ Sync(by) \in Statement /\ Sync(by).do = "sync" /\ Sync(by).m = by
    BY <1>1, <1>4, DeedsAre
  <2>2. lk \in Statement /\ lk.do = "link" /\ lk.m = by /\ lk.n = m
    <3>1. "link" \in Deeds
      BY DEF Deeds
    <3> QED BY <1>1, <3>1, DoIs
  <2>3. R = <<lk, Ensure(m), Ensure(by), Retire(m, by), Sync(m), Sync(by)>>
    BY <1>4 DEF Deprecation
  <2> HIDE DEF R, lk
  <2>4. /\ ToSet(R) = {Ensure(m), Retire(m, by), Sync(m)} \cup {lk, Ensure(by), Sync(by)}
        /\ R # <<>> /\ Len(R) = 6
        /\ R[1] = lk /\ R[2] = Ensure(m) /\ R[3] = Ensure(by) /\ R[4] = Retire(m, by)
        /\ R[5] = Sync(m) /\ R[6] = Sync(by)
    <3>1. ToSet(R) = {Ensure(m), Retire(m, by), Sync(m)} \cup {lk, Ensure(by), Sync(by)}
      BY <2>3 DEF ToSet
    <3>2. R # <<>> /\ Len(R) = 6
          /\ R[1] = lk /\ R[2] = Ensure(m) /\ R[3] = Ensure(by) /\ R[4] = Retire(m, by)
          /\ R[5] = Sync(m) /\ R[6] = Sync(by)
      BY <2>3
    <3> QED BY <3>1, <3>2
  <2>5. R \in Seq(Statement)
    BY <1>2, <2>1, <2>2, <2>3
  <2>6. \A i \in 2..Len(R) : R[i].do \in {"ensure", "retire", "sync"}
    <3>1. \A i \in 2..Len(R) : i \in {2, 3, 4, 5, 6}
      BY <2>4
    <3> QED BY <1>2, <2>1, <2>4, <3>1
  <2>7. \A x \in ToSet(R) : x.do \in {"link", "relink", "ensure", "retire", "sync"}
                            /\ x.m \in mine /\ x.m \in Stored
    BY <1>1, <1>2, <1>4, <2>1, <2>2, <2>4
  <2>8. Has(R, {"sync"}, by)
    BY <2>1, <2>4 DEF Has
  <2>9. /\ R[1].n \in (Stored \cup {Nobody}) \ {R[1].m}
        /\ R[1].do = "link" => R[1].n \in Stored
        /\ R[1].do = "relink" => R[1].set \subseteq Stored \ {R[1].m}
        /\ Has(R, {"sync"}, R[1].m)
    BY <1>1, <2>2, <2>4, <2>8
  <2>10. ListOK(c, R, mine, Stored, DOMAIN prop)
    BY <2>4, <2>5, <2>6, <2>7, <2>9, OneLinkOK
  <2> QED BY <1>4, <2>4, <2>5, <2>10 DEF R, lk
<1> QED BY <1>3, <1>4

LEMMA RelinkIs ==
    ASSUME RowTypes, RowNames, NEW old \in Stored, NEW new \in Stored \ {old}
    PROVE  /\ Relink(old, new) \in Statement /\ Relink(old, new).do = "relink"
           /\ Relink(old, new).m = new /\ Relink(old, new).n = mem[new].by
           /\ Relink(old, new).set = mem[new].over \cup {old}
<1>1. mem[new].by \in Ids \cup {Nobody} /\ mem[new].over \cup {old} \in SUBSET Ids
  BY StoredIds DEF RowNames
<1>2. "relink" \in Deeds /\ new \in Ids \cup {Nobody}
  BY StoredIds DEF Deeds
<1>3. /\ Do("relink", new, mem[new].by) \in Statement
      /\ Do("relink", new, mem[new].by).do = "relink"
      /\ Do("relink", new, mem[new].by).m = new
      /\ Do("relink", new, mem[new].by).n = mem[new].by
  BY <1>1, <1>2, DoIs
<1> QED BY <1>1, <1>3 DEF Statement, Relink

LEMMA SupersedeList ==
    ASSUME RowTypes, RowNames, NEW c \in Turns, NEW old \in Stored, NEW new \in Stored \ {old},
           NEW deprecateOld \in BOOLEAN
    PROVE  /\ Supersession(old, new, deprecateOld) \in Seq(Statement)
           /\ Supersession(old, new, deprecateOld) # <<>>
           /\ ListOK(c, Supersession(old, new, deprecateOld), {old, new}, Stored, DOMAIN prop)
           /\ LET s == {Relink(old, new), Ensure(old), Ensure(new), Sync(old), Sync(new)} IN
              /\ deprecateOld =>
                    ToSet(Supersession(old, new, deprecateOld)) = s \cup {Retire(old, new)}
              /\ ~deprecateOld => ToSet(Supersession(old, new, deprecateOld)) = s
<1> DEFINE mine == {old, new}
           R == Supersession(old, new, deprecateOld)
           x == Relink(old, new)
<1>1. /\ old \in Ids /\ new \in Ids /\ old # new /\ Stored \subseteq Ids
      /\ mem[new].by \in (Stored \cup {Nobody}) \ {new} /\ mem[new].over \subseteq Stored \ {new}
  BY StoredIds DEF RowNames
<1>2. /\ Ensure(old) \in Statement /\ Ensure(old).do = "ensure" /\ Ensure(old).m = old
      /\ Ensure(new) \in Statement /\ Ensure(new).do = "ensure" /\ Ensure(new).m = new
      /\ Retire(old, new) \in Statement /\ Retire(old, new).do = "retire"
      /\ Retire(old, new).m = old
      /\ Sync(old) \in Statement /\ Sync(old).do = "sync" /\ Sync(old).m = old
      /\ Sync(new) \in Statement /\ Sync(new).do = "sync" /\ Sync(new).m = new
  BY <1>1, DeedsAre
<1>3. /\ x \in Statement /\ x.do = "relink" /\ x.m = new /\ x.n = mem[new].by
      /\ x.set = mem[new].over \cup {old}
  BY RelinkIs
<1>4. CASE deprecateOld
  <2>1. R = <<x, Ensure(old), Ensure(new), Retire(old, new), Sync(old), Sync(new)>>
    BY <1>4 DEF Supersession
  <2> HIDE DEF R, x
  <2>2. /\ ToSet(R) = {x, Ensure(old), Ensure(new), Sync(old), Sync(new)}
                      \cup {Retire(old, new)}
        /\ R # <<>> /\ Len(R) = 6
        /\ R[1] = x /\ R[2] = Ensure(old) /\ R[3] = Ensure(new) /\ R[4] = Retire(old, new)
        /\ R[5] = Sync(old) /\ R[6] = Sync(new)
    <3>1. ToSet(R) = {x, Ensure(old), Ensure(new), Sync(old), Sync(new)}
                      \cup {Retire(old, new)}
      BY <2>1 DEF ToSet
    <3>2. R # <<>> /\ Len(R) = 6
          /\ R[1] = x /\ R[2] = Ensure(old) /\ R[3] = Ensure(new) /\ R[4] = Retire(old, new)
          /\ R[5] = Sync(old) /\ R[6] = Sync(new)
      BY <2>1
    <3> QED BY <3>1, <3>2
  <2>3. R \in Seq(Statement)
    BY <1>2, <1>3, <2>1
  <2>4. \A i \in 2..Len(R) : R[i].do \in {"ensure", "retire", "sync"}
    <3>1. \A i \in 2..Len(R) : i \in {2, 3, 4, 5, 6}
      BY <2>2
    <3> QED BY <1>2, <2>2, <3>1
  <2>5. \A y \in ToSet(R) : y.do \in {"link", "relink", "ensure", "retire", "sync"}
                            /\ y.m \in mine /\ y.m \in Stored
    BY <1>1, <1>2, <1>3, <2>2
  <2>6. Has(R, {"sync"}, new)
    BY <1>2, <2>2 DEF Has
  <2>7. /\ R[1].n \in (Stored \cup {Nobody}) \ {R[1].m}
        /\ R[1].do = "link" => R[1].n \in Stored
        /\ R[1].do = "relink" => R[1].set \subseteq Stored \ {R[1].m}
        /\ Has(R, {"sync"}, R[1].m)
    BY <1>1, <1>3, <2>2, <2>6
  <2>8. ListOK(c, R, mine, Stored, DOMAIN prop)
    BY <2>2, <2>3, <2>4, <2>5, <2>7, OneLinkOK
  <2> QED BY <1>4, <2>2, <2>3, <2>8 DEF R, x
<1>5. CASE ~deprecateOld
  <2>1. R = <<x, Ensure(old), Ensure(new), Sync(old), Sync(new)>>
    BY <1>5 DEF Supersession
  <2> HIDE DEF R, x
  <2>2. /\ ToSet(R) = {x, Ensure(old), Ensure(new), Sync(old), Sync(new)}
        /\ R # <<>> /\ Len(R) = 5
        /\ R[1] = x /\ R[2] = Ensure(old) /\ R[3] = Ensure(new)
        /\ R[4] = Sync(old) /\ R[5] = Sync(new)
    <3>1. ToSet(R) = {x, Ensure(old), Ensure(new), Sync(old), Sync(new)}
      BY <2>1 DEF ToSet
    <3>2. R # <<>> /\ Len(R) = 5
          /\ R[1] = x /\ R[2] = Ensure(old) /\ R[3] = Ensure(new)
          /\ R[4] = Sync(old) /\ R[5] = Sync(new)
      BY <2>1
    <3> QED BY <3>1, <3>2
  <2>3. R \in Seq(Statement)
    BY <1>2, <1>3, <2>1
  <2>4. \A i \in 2..Len(R) : R[i].do \in {"ensure", "retire", "sync"}
    <3>1. \A i \in 2..Len(R) : i \in {2, 3, 4, 5}
      BY <2>2
    <3> QED BY <1>2, <2>2, <3>1
  <2>5. \A y \in ToSet(R) : y.do \in {"link", "relink", "ensure", "retire", "sync"}
                            /\ y.m \in mine /\ y.m \in Stored
    BY <1>1, <1>2, <1>3, <2>2
  <2>6. Has(R, {"sync"}, new)
    BY <1>2, <2>2 DEF Has
  <2>7. /\ R[1].n \in (Stored \cup {Nobody}) \ {R[1].m}
        /\ R[1].do = "link" => R[1].n \in Stored
        /\ R[1].do = "relink" => R[1].set \subseteq Stored \ {R[1].m}
        /\ Has(R, {"sync"}, R[1].m)
    BY <1>1, <1>3, <2>2, <2>6
  <2>8. ListOK(c, R, mine, Stored, DOMAIN prop)
    BY <2>2, <2>3, <2>4, <2>5, <2>7, OneLinkOK
  <2> QED BY <1>5, <2>2, <2>3, <2>8 DEF R, x
<1> QED BY <1>4, <1>5

-----------------------------------------------------------------------------
(* Every step keeps the shape *)

\* In place of the statement an operation starts from.
NoStatement == [do |-> "none", m |-> Nobody]

LEMMA BeginShape ==
    ASSUME MemoryShape, NEW c \in Callers, Free(c), NEW kind \in Kinds \ {"idle"},
           NEW M \in SUBSET Ids, M \subseteq Stored, NEW R \in Seq(Statement), R # <<>>,
           Begin(c, kind, M, R), ListOK(c, R, M, Stored, DOMAIN prop),
           Stored' = Stored, DOMAIN prop' = DOMAIN prop
    PROVE  /\ OpTypes' /\ OpNames' /\ ListsOK' /\ Exclusive'
           /\ Moves(c, NoStatement, ToSet(R), R, M) /\ mixed' \subseteq mixed \cup M
           /\ reviewed' = reviewed /\ crashes' = crashes
           /\ op[c].todo = <<>> /\ op[c].mine = {}
           /\ op'[c].kind = kind /\ op'[c].calm = (Busy = {})
           /\ \A d \in Callers \ {c} : op'[d].calm = FALSE
<1> DEFINE x == NoStatement
           N == ToSet(R)
<1>1. OpTypes /\ OpNames /\ ListsOK /\ Exclusive
  BY DEF MemoryShape
<1> HIDE DEF x, N
<1>2. /\ OpTypes' /\ Moves(c, x, N, R, M) /\ mixed' \subseteq mixed \cup M
      /\ op[c].todo = <<>> /\ op[c].mine = {}
      /\ op'[c].kind = kind /\ op'[c].calm = (Busy = {})
      /\ \A d \in Callers \ {c} : op'[d].calm = FALSE
  BY <1>1, BeginMoves DEF N
<1>3. OpNames' /\ ListsOK' /\ Exclusive'
  <2>1. M \subseteq Stored' /\ Stored \subseteq Stored' /\ DOMAIN prop \subseteq DOMAIN prop'
    OBVIOUS
  <2>2. ListOK(c, R, M, Stored', DOMAIN prop')
    OBVIOUS
  <2> QED BY <1>1, <1>2, <2>1, <2>2, MovesShape
<1>4. reviewed' = reviewed /\ crashes' = crashes
  BY DEF Begin
<1> QED BY <1>2, <1>3, <1>4 DEF x, N

\* The rows keep their shape when they do not change.
LEMMA RowsStay ==
    ASSUME MemoryShape, UNCHANGED store, mixed' \subseteq mixed \cup Stored,
           reviewed' \subseteq Stored
    PROVE  RowTypes' /\ RowNames' /\ Stored' = Stored /\ DOMAIN prop' = DOMAIN prop
<1>1. mem' = mem /\ facts' = facts /\ node' = node /\ prop' = prop /\ Stored' = Stored
  BY DEF store, Stored
<1>2. RowTypes' /\ RowNames'
  BY <1>1 DEF MemoryShape, RowTypes, RowNames
<1> QED BY <1>1, <1>2

\* An operation begins and changes no row.
LEMMA BeginStays ==
    ASSUME MemoryShape, NEW c \in Callers, Free(c), NEW kind \in Kinds \ {"idle"},
           NEW M \in SUBSET Ids, M \subseteq Stored, NEW R \in Seq(Statement), R # <<>>,
           Begin(c, kind, M, R), ListOK(c, R, M, Stored, DOMAIN prop), UNCHANGED store
    PROVE  /\ MemoryShape' /\ Moves(c, NoStatement, ToSet(R), R, M)
           /\ crashes' = crashes /\ op[c].todo = <<>> /\ op[c].mine = {}
           /\ op'[c].kind = kind /\ op'[c].calm = (Busy = {})
           /\ \A d \in Callers \ {c} : op'[d].calm = FALSE
<1>1. Stored' = Stored /\ DOMAIN prop' = DOMAIN prop
  BY DEF store, Stored
<1> DEFINE Post == /\ OpTypes' /\ OpNames' /\ ListsOK' /\ Exclusive'
                   /\ Moves(c, NoStatement, ToSet(R), R, M) /\ mixed' \subseteq mixed \cup M
                   /\ reviewed' = reviewed /\ crashes' = crashes
                   /\ op[c].todo = <<>> /\ op[c].mine = {}
                   /\ op'[c].kind = kind /\ op'[c].calm = (Busy = {})
                   /\ \A d \in Callers \ {c} : op'[d].calm = FALSE
<1>2. Post
  BY <1>1, BeginShape
<1>3. RowTypes' /\ RowNames'
  <2>1. mixed' \subseteq mixed \cup Stored
    BY <1>2
  <2>2. reviewed' \subseteq Stored
    BY <1>2 DEF MemoryShape, RowNames
  <2> QED BY <2>1, <2>2, RowsStay
<1> QED BY <1>2, <1>3 DEF MemoryShape

LEMMA FreeOf == ASSUME NEW c \in Callers, NEW kind, May(c, kind) PROVE Free(c)
BY DEF May

LEMMA StoreTextIs ==
    ASSUME NEW c \in Contents, NEW p \in Props \cup {Nobody}, NEW known \in SUBSET Ids
    PROVE  /\ StoreText(c, p, known) \in Statement /\ StoreText(c, p, known).do = "store"
           /\ StoreText(c, p, known).c = c /\ StoreText(c, p, known).p = p
           /\ StoreText(c, p, known).set = known
<1>1. Nobody \in Ids \cup {Nobody} /\ "store" \in Deeds
  BY DEF Deeds
<1>2. Do("store", Nobody, Nobody) \in Statement /\ Do("store", Nobody, Nobody).do = "store"
  BY <1>1, DoIs
<1> QED BY <1>2 DEF StoreText, Statement

LEMMA WriteShape ==
    ASSUME MemoryShape, NEW t \in Turns, NEW c \in Contents, Write(t, c)
    PROVE  /\ MemoryShape' /\ crashes' = crashes /\ UNCHANGED store /\ op[t].todo = <<>>
           /\ op'[t].kind = "write" /\ \A d \in Callers \ {t} : op'[d].calm = FALSE
           /\ LET x == StoreText(c, Nobody, Stored) IN
              Moves(t, NoStatement, {x}, <<x>>, {})
<1> DEFINE x == StoreText(c, Nobody, Stored)
<1>1. t \in Callers /\ t # Worker
  BY CallersAssumption DEF Callers
<1>2. /\ x \in Statement /\ x.do = "store" /\ x.c = c /\ x.p = Nobody /\ x.set = Stored
  BY StoredIds, StoreTextIs DEF MemoryShape
<1>3. Free(t) /\ Begin(t, "write", {}, <<x>>) /\ UNCHANGED store
  BY <1>1, FreeOf DEF Write
<1> HIDE DEF x
<1>4. StatementOK(t, {}, Stored, DOMAIN prop, x)
  BY <1>1, <1>2 DEF StatementOK, Owned, Linking, Candidates, Carriers
<1>5. /\ ListOK(t, <<x>>, {}, Stored, DOMAIN prop) /\ <<x>> \in Seq(Statement)
      /\ <<x>> # <<>> /\ ToSet(<<x>>) = {x}
  <2>1. x.do \notin Linking \cup {"fixture"}
    BY <1>2 DEF Linking
  <2> QED BY <1>2, <1>4, <2>1, SingleOK
<1>6. "write" \in Kinds \ {"idle"} /\ {} \in SUBSET Ids /\ {} \subseteq Stored
  BY DEF Kinds
<1> DEFINE R == <<x>>
<1> HIDE DEF R
<1>7. /\ R \in Seq(Statement) /\ R # <<>> /\ Begin(t, "write", {}, R)
      /\ ListOK(t, R, {}, Stored, DOMAIN prop) /\ ToSet(R) = {x}
  BY <1>3, <1>5 DEF R
<1>8. /\ MemoryShape' /\ Moves(t, NoStatement, ToSet(R), R, {})
      /\ crashes' = crashes /\ op[t].todo = <<>>
      /\ op'[t].kind = "write" /\ \A d \in Callers \ {t} : op'[d].calm = FALSE
  BY <1>1, <1>3, <1>6, <1>7, BeginStays
<1> QED BY <1>3, <1>7, <1>8 DEF R, x

LEMMA BackfillShape ==
    ASSUME MemoryShape, NEW t \in Turns, NEW S, S \subseteq Stored, Backfill(t, S)
    PROVE  LET R == BackfillTodo(S) IN
           /\ MemoryShape' /\ crashes' = crashes /\ UNCHANGED store /\ op[t].todo = <<>>
           /\ op'[t].kind = "backfill" /\ op'[t].calm = (Busy = {})
           /\ \A d \in Callers \ {t} : op'[d].calm = FALSE
           /\ Moves(t, NoStatement, ToSet(R), R, S) /\ R # <<>>
           /\ \A x \in ToSet(R) : x.do \in {"ensure", "restore", "sync"}
           /\ \A m \in S : Has(R, {"restore"}, m)
           /\ R[Len(R)].do = "sync"
<1> DEFINE R == BackfillTodo(S)
<1>1. t \in Callers /\ Free(t) /\ S # {} /\ UNCHANGED store
  BY FreeOf DEF Callers, Backfill
<1>2. S \in SUBSET Ids /\ RowTypes
  BY StoredIds DEF MemoryShape
<1>3. Begin(t, "backfill", S, R) /\ "backfill" \in Kinds \ {"idle"}
  BY DEF Backfill, BackfillTodo, Kinds
<1> HIDE DEF R
<1>4. /\ R \in Seq(Statement) /\ R # <<>> /\ ListOK(t, R, S, Stored, DOMAIN prop)
      /\ \A x \in ToSet(R) : \E m \in S, d \in {"ensure", "restore", "sync"} :
                               x = Do(d, m, Nobody)
      /\ \A m \in S : Has(R, {"restore"}, m)
      /\ R[Len(R)].do = "sync"
  BY <1>1, <1>2, BackfillList DEF R
<1>5. /\ MemoryShape' /\ Moves(t, NoStatement, ToSet(R), R, S)
      /\ crashes' = crashes /\ op[t].todo = <<>>
      /\ op'[t].kind = "backfill" /\ op'[t].calm = (Busy = {})
      /\ \A d \in Callers \ {t} : op'[d].calm = FALSE
  BY <1>1, <1>2, <1>3, <1>4, BeginStays
<1>6. ASSUME NEW x \in ToSet(R) PROVE x.do \in {"ensure", "restore", "sync"}
  <2>1. PICK m \in S, d \in {"ensure", "restore", "sync"} : x = Do(d, m, Nobody)
    BY <1>4
  <2>2. m \in Ids /\ d \in Deeds
    BY <1>2 DEF Deeds
  <2> QED BY <2>1, <2>2, DoIs
<1> QED BY <1>1, <1>4, <1>5, <1>6 DEF R

LEMMA ExploreShape ==
    ASSUME MemoryShape, NEW t \in Turns, NEW m, Explore(t, m)
    PROVE  /\ MemoryShape' /\ crashes' = crashes /\ UNCHANGED store /\ op[t].todo = <<>>
           /\ op'[t].kind = "graph" /\ \A d \in Callers \ {t} : op'[d].calm = FALSE
           /\ Moves(t, NoStatement, {Sync(m)}, <<Sync(m)>>, {m})
           /\ Sync(m).do = "sync" /\ m \in Stored
<1> DEFINE R == <<Sync(m)>>
<1>1. t \in Callers /\ Free(t) /\ m \in Stored /\ UNCHANGED store
  BY FreeOf DEF Callers, Explore
<1>2. {m} \in SUBSET Ids /\ {m} \subseteq Stored /\ m \in Ids
  BY <1>1, StoredIds DEF MemoryShape
<1>3. Begin(t, "graph", {m}, R) /\ "graph" \in Kinds \ {"idle"}
  BY DEF Explore, Kinds
<1>4. Sync(m) \in Statement /\ Sync(m).do = "sync" /\ Sync(m).m = m
  BY <1>2, DeedsAre
<1>5. StatementOK(t, {m}, Stored, DOMAIN prop, Sync(m))
  BY <1>1, <1>4 DEF StatementOK, Owned, Linking, Candidates, Carriers
<1>6. /\ ListOK(t, R, {m}, Stored, DOMAIN prop) /\ R \in Seq(Statement)
      /\ R # <<>> /\ ToSet(R) = {Sync(m)}
  BY <1>4, <1>5, SingleOK DEF Linking, Candidates
<1> HIDE DEF R
<1>7. /\ MemoryShape' /\ Moves(t, NoStatement, ToSet(R), R, {m})
      /\ crashes' = crashes /\ op[t].todo = <<>>
      /\ op'[t].kind = "graph" /\ \A d \in Callers \ {t} : op'[d].calm = FALSE
  BY <1>1, <1>2, <1>3, <1>6, BeginStays
<1> QED BY <1>1, <1>4, <1>6, <1>7 DEF R

LEMMA SearchShape ==
    ASSUME MemoryShape, NEW t \in Turns, Search(t)
    PROVE  LET R == Each("sync", Newest(Active)) IN
           /\ MemoryShape' /\ crashes' = crashes /\ UNCHANGED store /\ op[t].todo = <<>>
           /\ op'[t].kind = "search" /\ \A d \in Callers \ {t} : op'[d].calm = FALSE
           /\ Moves(t, NoStatement, ToSet(R), R, Active)
           /\ \A x \in ToSet(R) : x.do = "sync"
<1> DEFINE R == Each("sync", Newest(Active))
<1>1. t \in Callers /\ Free(t) /\ Active # {} /\ UNCHANGED store
  BY FreeOf DEF Callers, Search
<1>2. Active \in SUBSET Ids /\ Active \subseteq Stored /\ RowTypes
  BY StoredIds DEF MemoryShape, Active
<1>3. Begin(t, "search", Active, R) /\ "search" \in Kinds \ {"idle"}
  BY DEF Search, Kinds
<1>4. /\ R \in Seq(Statement) /\ R # <<>> /\ ListOK(t, R, Active, Stored, DOMAIN prop)
      /\ \A x \in ToSet(R) : \E m \in Active : x = Do("sync", m, Nobody)
  BY <1>1, <1>2, SyncList
<1>5. \A x \in ToSet(R) : x.do = "sync"
  <2>1. "sync" \in Deeds
    BY DEF Deeds
  <2> QED BY <1>2, <1>4, <2>1, DoIs
<1> HIDE DEF R
<1>6. /\ MemoryShape' /\ Moves(t, NoStatement, ToSet(R), R, Active)
      /\ crashes' = crashes /\ op[t].todo = <<>>
      /\ op'[t].kind = "search" /\ \A d \in Callers \ {t} : op'[d].calm = FALSE
  BY <1>1, <1>2, <1>3, <1>4, BeginStays
<1> QED BY <1>1, <1>5, <1>6 DEF R

LEMMA CandidateIs ==
    ASSUME NEW what \in Deeds, NEW c \in Contents
    PROVE  Candidate(what, c) \in Statement /\ Candidate(what, c).do = what
           /\ Candidate(what, c).c = c
<1>1. Nobody \in Ids \cup {Nobody}
  OBVIOUS
<1>2. Do(what, Nobody, Nobody) \in Statement /\ Do(what, Nobody, Nobody).do = what
  BY <1>1, DoIs
<1> QED BY <1>2 DEF Candidate, Statement

LEMMA ForProposalIs ==
    ASSUME NEW what \in Deeds, NEW p \in Props
    PROVE  ForProposal(what, p) \in Statement /\ ForProposal(what, p).do = what
           /\ ForProposal(what, p).p = p
<1>1. Nobody \in Ids \cup {Nobody}
  OBVIOUS
<1>2. Do(what, Nobody, Nobody) \in Statement /\ Do(what, Nobody, Nobody).do = what
  BY <1>1, DoIs
<1> QED BY <1>2 DEF ForProposal, Statement

LEMMA ReviewShape ==
    ASSUME MemoryShape, NEW cs \in Seq(Contents), Review(cs)
    PROVE  LET R == [i \in DOMAIN cs |-> Candidate("check", cs[i])] IN
           /\ MemoryShape' /\ crashes' = crashes /\ UNCHANGED store /\ op[Worker].todo = <<>>
           /\ op'[Worker].kind = "review" /\ \A d \in Callers \ {Worker} : op'[d].calm = FALSE
           /\ Moves(Worker, NoStatement, ToSet(R), R, {})
           /\ \A x \in ToSet(R) : x.do = "check"
           /\ R \in Seq(Statement)
<1> DEFINE R == [i \in DOMAIN cs |-> Candidate("check", cs[i])]
<1>1. Worker \in Callers /\ Free(Worker) /\ UNCHANGED store
  BY DEF Callers, Review
<1>2. Begin(Worker, "review", {}, R) /\ "review" \in Kinds \ {"idle"}
  BY DEF Review, Kinds
<1>3. "check" \in Deeds
  BY DEF Deeds
<1>4. Len(cs) \in Nat /\ DOMAIN cs = 1..Len(cs) /\ \A i \in 1..Len(cs) : cs[i] \in Contents
  OBVIOUS
<1>5. Len(cs) > 0
  <2>1. Len(cs) \in 1..(MaxProposals - Len(prop))
    BY DEF Review
  <2>2. MaxProposals \in Nat /\ Len(prop) \in Nat
    BY BoundsAssumption DEF MemoryShape, RowTypes
  <2> QED BY <2>1, <2>2
<1>6. \A i \in 1..Len(cs) : Candidate("check", cs[i]) \in Statement
  BY <1>3, <1>4, CandidateIs
<1>7. R \in [1..Len(cs) -> Statement]
  BY <1>4, <1>6
<1>8. R \in Seq(Statement) /\ Len(R) = Len(cs) /\ R # <<>>
  BY <1>4, <1>5, <1>7
<1>9. \A i \in 1..Len(R) : R[i] = Candidate("check", cs[i]) /\ R[i].do = "check"
                           /\ R[i].c \in Contents
  BY <1>3, <1>4, <1>8, CandidateIs
<1> HIDE DEF R
<1>10. \A x \in ToSet(R) : x.do = "check" /\ x.c \in Contents
  BY <1>8, <1>9, InSet
<1>11. \A x \in ToSet(R) : StatementOK(Worker, {}, Stored, DOMAIN prop, x)
  BY <1>10 DEF StatementOK, Owned, Linking, Candidates, Carriers
<1>12. Ordered(R)
  <2>1. MayPrecede("check", "check")
    BY DEF MayPrecede, Linking, Candidates
  <2> QED BY <1>9, <2>1 DEF Ordered
<1>13. ListOK(Worker, R, {}, Stored, DOMAIN prop)
  BY <1>10, <1>11, <1>12 DEF ListOK, Linking, Candidates
<1>14. {} \in SUBSET Ids /\ {} \subseteq Stored
  OBVIOUS
<1>15. /\ MemoryShape' /\ Moves(Worker, NoStatement, ToSet(R), R, {})
       /\ crashes' = crashes /\ op[Worker].todo = <<>>
       /\ op'[Worker].kind = "review" /\ \A d \in Callers \ {Worker} : op'[d].calm = FALSE
  BY <1>1, <1>2, <1>8, <1>13, <1>14, BeginStays
<1> QED BY <1>1, <1>8, <1>10, <1>15 DEF R

LEMMA FixturesShape ==
    ASSUME MemoryShape, DeprecateFixtures
    PROVE  LET ms == Oldest(reviewed)
               R == Each("fixture", ms) \o Each("sync", ms) IN
           /\ MemoryShape' /\ crashes' = crashes /\ UNCHANGED store
           /\ op[Operator].todo = <<>> /\ op'[Operator].kind = "fixtures"
           /\ \A d \in Callers \ {Operator} : op'[d].calm = FALSE
           /\ Moves(Operator, NoStatement, ToSet(R), R, reviewed)
           /\ \A x \in ToSet(R) : x.do \in {"fixture", "sync"}
<1> DEFINE ms == Oldest(reviewed)
           a == Each("fixture", ms)
           b == Each("sync", ms)
           R == a \o b
<1>1. Operator \in Callers /\ Free(Operator) /\ UNCHANGED store /\ reviewed # {}
  BY DEF Callers, DeprecateFixtures
<1>2. reviewed \subseteq Stored /\ reviewed \in SUBSET Ids
  BY StoredIds DEF MemoryShape, RowNames
<1>3. Begin(Operator, "fixtures", reviewed, R) /\ "fixtures" \in Kinds \ {"idle"}
  BY DEF DeprecateFixtures, Kinds
<1>4. ms \in Seq(reviewed) /\ \A x \in reviewed : \E i \in 1..Len(ms) : ms[i] = x
  BY <1>2, OldestIs
<1>5. {"fixture", "sync"} \subseteq Deeds
  BY DEF Deeds
<1> HIDE DEF ms
<1>6. /\ a \in Seq(Statement) /\ Len(a) = Len(ms)
      /\ \A x \in ToSet(a) : \E m \in reviewed : x = Do("fixture", m, Nobody)
  BY <1>2, <1>4, <1>5, EachIs
<1>7. /\ b \in Seq(Statement)
      /\ \A x \in ToSet(b) : \E m \in reviewed : x = Do("sync", m, Nobody)
      /\ \A m \in reviewed : Do("sync", m, Nobody) \in ToSet(b)
  BY <1>2, <1>4, <1>5, EachIs
<1> HIDE DEF a, b
<1>8. /\ \A x \in ToSet(a) : x.do = "fixture" /\ x.m \in reviewed
      /\ \A x \in ToSet(b) : x.do = "sync" /\ x.m \in reviewed
      /\ \A m \in reviewed : Has(b, {"sync"}, m)
  <2>1. \A m \in reviewed : /\ Do("fixture", m, Nobody).do = "fixture"
                            /\ Do("fixture", m, Nobody).m = m
                            /\ Do("sync", m, Nobody).do = "sync" /\ Do("sync", m, Nobody).m = m
    BY <1>2, <1>5, DoIs
  <2> QED BY <1>6, <1>7, <2>1 DEF Has
<1>9. /\ R \in Seq(Statement) /\ Len(R) = Len(a) + Len(b)
      /\ Len(a) \in Nat /\ Len(b) \in Nat
      /\ \A i \in 1..Len(a) : R[i] = a[i]
      /\ \A i \in (Len(a) + 1)..(Len(a) + Len(b)) : R[i] = b[i - Len(a)]
  <2>1. a \in Seq(Statement) /\ b \in Seq(Statement)
    BY <1>6, <1>7
  <2> QED BY ONLY <2>1, ConcatIs
<1>10. ToSet(R) = ToSet(a) \cup ToSet(b)
  BY <1>6, <1>7, JoinSet
<1>11. R # <<>>
  <2>1. Len(ms) > 0 /\ Len(ms) \in Nat
    BY <1>1, <1>4
  <2> QED BY <1>6, <1>9, <2>1
<1> HIDE DEF R
<1>12. \A x \in ToSet(R) : x.do \in {"fixture", "sync"} /\ x.m \in reviewed
                           /\ Has(R, {"sync"}, x.m)
  BY <1>8, <1>10 DEF Has
<1>13. \A x \in ToSet(R) : StatementOK(Operator, reviewed, Stored, DOMAIN prop, x)
  BY <1>2, <1>12 DEF StatementOK, Owned, Linking, Candidates, Carriers
<1>14. Ordered(R)
  <2>1. /\ MayPrecede("fixture", "fixture") /\ MayPrecede("fixture", "sync")
        /\ MayPrecede("sync", "sync")
    BY DEF MayPrecede, Linking, Candidates
  <2>2. \A i \in 1..Len(a) : R[i].do = "fixture"
    BY <1>6, <1>8, <1>9, InSet
  <2>3. \A i \in (Len(a) + 1)..Len(R) : R[i].do = "sync"
    <3>1. \A i \in (Len(a) + 1)..Len(R) : i - Len(a) \in 1..Len(b)
      BY <1>9
    <3>2. \A j \in 1..Len(b) : b[j].do = "sync"
      BY <1>7, <1>8, InSet
    <3> QED BY <1>9, <3>1, <3>2
  <2>4. \A i \in 1..Len(R) : i \in 1..Len(a) \/ i \in (Len(a) + 1)..Len(R)
    BY <1>9
  <2>5. ASSUME NEW i \in 1..Len(R), NEW j \in 1..Len(R), i < j
        PROVE  MayPrecede(R[i].do, R[j].do)
    <3>1. j \in 1..Len(a) => i \in 1..Len(a)
      BY <1>9, <2>5
    <3> QED BY <2>1, <2>2, <2>3, <2>4, <3>1
  <2> QED BY <2>5 DEF Ordered
<1>15. ListOK(Operator, R, reviewed, Stored, DOMAIN prop)
  BY <1>12, <1>13, <1>14 DEF ListOK, Linking, Candidates
<1>16. /\ MemoryShape' /\ Moves(Operator, NoStatement, ToSet(R), R, reviewed)
       /\ crashes' = crashes /\ op[Operator].todo = <<>>
       /\ op'[Operator].kind = "fixtures"
       /\ \A d \in Callers \ {Operator} : op'[d].calm = FALSE
  BY <1>1, <1>2, <1>3, <1>9, <1>11, <1>15, BeginStays
<1> QED BY <1>1, <1>12, <1>16 DEF R, a, b, ms

LEMMA ContinueKinds ==
    ASSUME OpTypes, NEW c \in Callers, NEW M, NEW R, NEW others, ContinueMixing(c, M, R, others)
    PROVE  /\ \A d \in Callers \ {c} : op'[d] = op[d]
           /\ op'[c].calm => op[c].calm
           /\ op'[c].kind \in {op[c].kind, "idle"}
           /\ crashes' = crashes
<1> DEFINE new == IF R = <<>> THEN Idle ELSE [op[c] EXCEPT !.todo = R, !.mine = M]
<1>1. op' = [op EXCEPT ![c] = new] /\ crashes' = crashes
  BY DEF ContinueMixing
<1>2. (new.calm => op[c].calm) /\ new.kind \in {op[c].kind, "idle"}
  BY DEF Idle, OpTypes
<1> HIDE DEF new
<1>3. op'[c] = new /\ \A d \in Callers \ {c} : op'[d] = op[d]
  BY <1>1 DEF OpTypes
<1> QED BY <1>1, <1>2, <1>3

\* The rows keep their shape when one memory's status and successor change.
LEMMA LifecycleRows ==
    ASSUME MemoryShape, NEW m \in Stored, NEW by \in (Stored \cup {Nobody}) \ {m},
           NEW status \in Statuses, mem' = Lifecycle(m, by, status),
           UNCHANGED <<facts, node, prop>>, mixed' \subseteq mixed \cup Stored,
           reviewed' = reviewed
    PROVE  RowTypes' /\ RowNames'
<1>1. by \in Ids \cup {Nobody} /\ RowTypes /\ RowNames
  BY StoredIds DEF MemoryShape
<1>2. /\ mem' \in Seq(MemoryRow) /\ Len(mem') = Len(mem) /\ Stored' = Stored
      /\ \A k \in Stored \ {m} : mem'[k] = mem[k]
      /\ mem'[m].by = by /\ mem'[m].over = mem[m].over
      /\ mem'[m].maker = mem[m].maker /\ mem'[m].seen = mem[m].seen
  BY <1>1, LifecycleIs
<1>3. RowTypes'
  BY <1>1, <1>2 DEF RowTypes
<1>4. ASSUME NEW k \in Stored
      PROVE  /\ mem'[k].by \in (Stored \cup {Nobody}) \ {k}
             /\ mem'[k].over \subseteq Stored \ {k}
             /\ mem'[k].seen \subseteq Stored
             /\ mem'[k].maker \in DOMAIN prop \cup {Nobody}
  BY <1>1, <1>2 DEF RowNames
<1>5. RowNames'
  BY <1>1, <1>2, <1>4 DEF RowNames
<1> QED BY <1>3, <1>5

LEMMA DeprecateShape ==
    ASSUME MemoryShape, NEW t \in Turns, NEW m, NEW by, Deprecate(t, m, by)
    PROVE  LET R == Deprecation(m, by) IN
           /\ MemoryShape' /\ crashes' = crashes /\ UNCHANGED <<facts, node, prop>>
           /\ op[t].todo = <<>> /\ op'[t].kind = "deprecate"
           /\ \A d \in Callers \ {t} : op'[d].calm = FALSE
           /\ Moves(t, NoStatement, ToSet(R), R, {m, by} \ {Nobody})
           /\ R # <<>>
           /\ ToSet(R) = {Ensure(m), Retire(m, by), Sync(m)} \cup
                 (IF by = Nobody THEN {} ELSE {Do("link", by, m), Ensure(by), Sync(by)})
           /\ m \in Stored /\ by \in (Stored \cup {Nobody}) \ {m}
           /\ mem' = Lifecycle(m, by, "deprecated")
<1> DEFINE R == Deprecation(m, by)
           M == {m, by} \ {Nobody}
<1>1. /\ t \in Callers /\ Free(t) /\ m \in Stored /\ by \in (Stored \cup {Nobody}) \ {m}
      /\ mem' = Lifecycle(m, by, "deprecated") /\ UNCHANGED <<facts, node, prop>>
      /\ Begin(t, "deprecate", M, R) /\ "deprecate" \in Kinds \ {"idle"}
      /\ "deprecated" \in Statuses
  BY FreeOf DEF Callers, Deprecate, Kinds, Statuses
<1>2. M \in SUBSET Ids /\ M \subseteq Stored /\ RowTypes /\ by \in Ids \cup {Nobody}
  BY <1>1, StoredIds DEF MemoryShape
<1>3. /\ R \in Seq(Statement) /\ R # <<>> /\ ListOK(t, R, M, Stored, DOMAIN prop)
      /\ ToSet(R) = {Ensure(m), Retire(m, by), Sync(m)} \cup
            (IF by = Nobody THEN {} ELSE {Do("link", by, m), Ensure(by), Sync(by)})
  BY <1>1, <1>2, DeprecateList
<1>4. Stored' = Stored /\ DOMAIN prop' = DOMAIN prop
  BY <1>1, <1>2, LifecycleIs
<1> HIDE DEF R, M
<1> DEFINE Post == /\ OpTypes' /\ OpNames' /\ ListsOK' /\ Exclusive'
                   /\ Moves(t, NoStatement, ToSet(R), R, M) /\ mixed' \subseteq mixed \cup M
                   /\ reviewed' = reviewed /\ crashes' = crashes
                   /\ op[t].todo = <<>> /\ op'[t].kind = "deprecate"
                   /\ \A d \in Callers \ {t} : op'[d].calm = FALSE
<1>5. Post
  BY <1>1, <1>2, <1>3, <1>4, BeginShape
<1>6. RowTypes' /\ RowNames'
  <2>1. mixed' \subseteq mixed \cup Stored /\ reviewed' = reviewed
    BY <1>2, <1>5
  <2> QED BY <1>1, <2>1, LifecycleRows
<1> QED BY <1>1, <1>3, <1>5, <1>6 DEF MemoryShape, R, M

\* deprecate_old or not.
Supersedes(t, old, new) == \E deprecateOld \in BOOLEAN : Supersede(t, old, new, deprecateOld)

\* What the command does, for its list R and the status it gives the old memory.
Superseded(t, old, new, R, status) ==
    LET x == Relink(old, new)
        s == {x, Ensure(old), Ensure(new), Sync(old), Sync(new)} IN
    /\ MemoryShape' /\ crashes' = crashes /\ UNCHANGED <<facts, node, prop>>
    /\ op[t].todo = <<>> /\ op'[t].kind = "supersede"
    /\ \A d \in Callers \ {t} : op'[d].calm = FALSE
    /\ Moves(t, NoStatement, ToSet(R), R, {old, new})
    /\ x.do = "relink" /\ x.m = new /\ x.n = mem[new].by
    /\ x.set = mem[new].over \cup {old}
    /\ s \subseteq ToSet(R) /\ ToSet(R) \subseteq s \cup {Retire(old, new)}
    /\ old \in Stored /\ new \in Stored \ {old}
    /\ status \in Statuses /\ mem' = Lifecycle(old, new, status)
    /\ status # mem[old].status =>
          status = "deprecated" /\ Retire(old, new) \in ToSet(R)
    /\ Retire(old, new) \in ToSet(R) => status = "deprecated"

LEMMA SupersedeShape ==
    ASSUME MemoryShape, NEW t \in Turns, NEW old, NEW new, Supersedes(t, old, new)
    PROVE  \E R, status : Superseded(t, old, new, R, status)
<1>0. PICK deprecateOld \in BOOLEAN : Supersede(t, old, new, deprecateOld)
  BY DEF Supersedes
<1> DEFINE R == Supersession(old, new, deprecateOld)
           M == {old, new}
           status == IF deprecateOld THEN "deprecated" ELSE mem[old].status
<1>1. /\ t \in Callers /\ Free(t) /\ old \in Stored /\ new \in Stored \ {old}
      /\ mem' = Lifecycle(old, new, status) /\ UNCHANGED <<facts, node, prop>>
      /\ Begin(t, "supersede", M, R) /\ "supersede" \in Kinds \ {"idle"}
  BY <1>0, FreeOf DEF Callers, Supersede, Kinds
<1>2. M \in SUBSET Ids /\ M \subseteq Stored /\ RowTypes /\ RowNames /\ new \in Ids \cup {Nobody}
  BY <1>1, StoredIds DEF MemoryShape
<1>3. status \in Statuses
  <2>1. mem[old] \in MemoryRow /\ "deprecated" \in Statuses
    BY <1>1, <1>2 DEF RowTypes, Stored, Statuses
  <2> QED BY <2>1 DEF MemoryRow
<1> DEFINE Listed == /\ R \in Seq(Statement) /\ R # <<>>
                     /\ ListOK(t, R, M, Stored, DOMAIN prop)
                     /\ Relink(old, new).do = "relink" /\ Relink(old, new).m = new
                     /\ Relink(old, new).n = mem[new].by
                     /\ Relink(old, new).set = mem[new].over \cup {old}
                     /\ ToSet(R) = {Relink(old, new), Ensure(old), Ensure(new), Sync(old),
                                    Sync(new)}
                                   \cup (IF deprecateOld THEN {Retire(old, new)} ELSE {})
<1>4. Listed
  <2>1. RowTypes /\ RowNames /\ old \in Stored /\ new \in Stored \ {old}
    BY <1>1, <1>2
  <2>2. R \in Seq(Statement) /\ R # <<>> /\ ListOK(t, R, M, Stored, DOMAIN prop)
    BY <2>1, SupersedeList
  <2>3. /\ Relink(old, new).do = "relink" /\ Relink(old, new).m = new
        /\ Relink(old, new).n = mem[new].by
        /\ Relink(old, new).set = mem[new].over \cup {old}
    BY <2>1, RelinkIs
  <2>4. ToSet(R) = {Relink(old, new), Ensure(old), Ensure(new), Sync(old), Sync(new)}
                   \cup (IF deprecateOld THEN {Retire(old, new)} ELSE {})
    <3> DEFINE s == {Relink(old, new), Ensure(old), Ensure(new), Sync(old), Sync(new)}
    <3> HIDE DEF R
    <3>1. deprecateOld => ToSet(R) = s \cup {Retire(old, new)}
      BY <2>1, SupersedeList, Zenon DEF R
    <3>2. ~deprecateOld => ToSet(R) = s
      BY <2>1, SupersedeList, Zenon DEF R
    <3> HIDE DEF s
    <3>3. ToSet(R) = s \cup (IF deprecateOld THEN {Retire(old, new)} ELSE {})
      BY <3>1, <3>2
    <3> QED BY <3>3 DEF s
  <2> QED BY <2>2, <2>3, <2>4
<1>5. Stored' = Stored /\ DOMAIN prop' = DOMAIN prop
  BY <1>1, <1>2, <1>3, LifecycleIs
<1> HIDE DEF R, M, status
<1> DEFINE Post == /\ OpTypes' /\ OpNames' /\ ListsOK' /\ Exclusive'
                   /\ Moves(t, NoStatement, ToSet(R), R, M) /\ mixed' \subseteq mixed \cup M
                   /\ reviewed' = reviewed /\ crashes' = crashes
                   /\ op[t].todo = <<>> /\ op'[t].kind = "supersede"
                   /\ \A d \in Callers \ {t} : op'[d].calm = FALSE
<1>6. Post
  <2>1. /\ R \in Seq(Statement) /\ R # <<>> /\ ListOK(t, R, M, Stored, DOMAIN prop)
    BY <1>4
  <2> QED BY <1>1, <1>2, <1>5, <2>1, BeginShape
<1>7. RowTypes' /\ RowNames'
  <2>1. mixed' \subseteq mixed \cup Stored /\ reviewed' = reviewed
    BY <1>2, <1>6
  <2>2. new \in (Stored \cup {Nobody}) \ {old}
    BY <1>1
  <2> QED BY <1>1, <1>3, <2>1, <2>2, LifecycleRows
<1> DEFINE x == Relink(old, new)
           s == {x, Ensure(old), Ensure(new), Sync(old), Sync(new)}
<1>8. /\ status # mem[old].status => status = "deprecated" /\ Retire(old, new) \in ToSet(R)
      /\ Retire(old, new) \in ToSet(R) => status = "deprecated"
  <2>1. Retire(old, new) \notin s
    <3>1. old \in Ids /\ new \in Ids
      BY <1>1, <1>2, StoredIds
    <3>2. /\ Ensure(old).do = "ensure" /\ Sync(old).do = "sync"
          /\ Ensure(new).do = "ensure" /\ Sync(new).do = "sync"
          /\ Retire(old, new).do = "retire"
      BY <3>1, DeedsAre
    <3> QED BY <1>4, <3>2
  <2>2. ToSet(R) = s \cup (IF deprecateOld THEN {Retire(old, new)} ELSE {})
    BY <1>4
  <2> HIDE DEF s
  <2> QED BY <2>1, <2>2 DEF status
<1>9. s \subseteq ToSet(R) /\ ToSet(R) \subseteq s \cup {Retire(old, new)}
  BY <1>4
<1>10. MemoryShape'
  BY <1>6, <1>7 DEF MemoryShape
<1> HIDE DEF s
<1>11. /\ MemoryShape' /\ crashes' = crashes /\ UNCHANGED <<facts, node, prop>>
       /\ op[t].todo = <<>> /\ op'[t].kind = "supersede"
       /\ \A d \in Callers \ {t} : op'[d].calm = FALSE
       /\ Moves(t, NoStatement, ToSet(R), R, {old, new})
       /\ x.do = "relink" /\ x.m = new /\ x.n = mem[new].by
       /\ x.set = mem[new].over \cup {old}
       /\ s \subseteq ToSet(R) /\ ToSet(R) \subseteq s \cup {Retire(old, new)}
       /\ old \in Stored /\ new \in Stored \ {old}
       /\ status \in Statuses /\ mem' = Lifecycle(old, new, status)
       /\ status # mem[old].status =>
             status = "deprecated" /\ Retire(old, new) \in ToSet(R)
       /\ Retire(old, new) \in ToSet(R) => status = "deprecated"
  BY <1>1, <1>3, <1>4, <1>6, <1>8, <1>9, <1>10 DEF M
<1>12. Superseded(t, old, new, R, status)
  BY <1>11 DEF s, Superseded
<1> QED BY <1>12

LEMMA AtIs ==
    ASSUME NEW c, NEW what, At(c, what)
    PROVE  op[c].todo # <<>> /\ Current(c).do = what
BY DEF At, Current

\* A memory is appended to the others.
LEMMA AppendRow ==
    ASSUME RowTypes, NEW r \in MemoryRow, Len(mem) + 1 \in Ids, mem' = Append(mem, r)
    PROVE  /\ mem' \in Seq(MemoryRow) /\ Len(mem') = Len(mem) + 1 /\ Len(mem') <= MaxMemories
           /\ Stored' = Stored \cup {Len(mem) + 1} /\ Len(mem) + 1 \notin Stored
           /\ \A k \in Stored : mem'[k] = mem[k] /\ k < Len(mem) + 1
           /\ mem'[Len(mem) + 1] = r
<1>1. mem \in Seq(MemoryRow) /\ Len(mem) \in Nat /\ MaxMemories \in Nat
  BY StoredIds DEF RowTypes
<1>2. Len(mem) + 1 <= MaxMemories
  BY <1>1 DEF Ids
<1>3. /\ mem' \in Seq(MemoryRow) /\ Len(mem') = Len(mem) + 1
      /\ \A k \in 1..Len(mem) : mem'[k] = mem[k] /\ k < Len(mem) + 1
      /\ mem'[Len(mem) + 1] = r
  BY <1>1
<1>4. 1..(Len(mem) + 1) = (1..Len(mem)) \cup {Len(mem) + 1} /\ Len(mem) + 1 \notin 1..Len(mem)
  BY <1>1
<1> QED BY <1>2, <1>3, <1>4 DEF Stored

LEMMA StoreShape ==
    ASSUME MemoryShape, NEW c \in Callers, StoreMemory(c)
    PROVE  LET s == Current(c)
               m == Len(mem) + 1
               R == <<Ensure(m), Sync(m)>> \o Tail(op[c].todo) IN
           /\ MemoryShape' /\ crashes' = crashes /\ UNCHANGED <<facts, node, prop>>
           /\ op[c].todo # <<>> /\ s.do = "store" /\ s \in Todo(c)
           /\ Moves(c, s, {Ensure(m), Sync(m)}, R, op[c].mine \cup {m})
           /\ m \in Ids /\ Stored' = Stored \cup {m} /\ m \notin Stored
           /\ \A k \in Stored : mem'[k] = mem[k] /\ k < m
           /\ mem'[m] = NewMemory(s.c, s.p, s.set)
<1> DEFINE s == Current(c)
           m == Len(mem) + 1
           P == <<Ensure(m), Sync(m)>>
           M == op[c].mine \cup {m}
           S == Tail(op[c].todo)
<1>1. /\ op[c].todo # <<>> /\ s.do = "store" /\ m \in Ids /\ UNCHANGED <<facts, node, prop>>
      /\ mem' = Append(mem, NewMemory(s.c, s.p, s.set)) /\ Continue(c, M, P \o S)
  BY AtIs DEF StoreMemory
<1>2. /\ s \in Statement /\ s \in Todo(c)
      /\ StatementOK(c, op[c].mine, Stored, DOMAIN prop, s)
      /\ \A y \in ToSet(S) : MayPrecede("store", y.do)
      /\ op[c].mine \in SUBSET Ids /\ op[c].mine \subseteq Stored
  BY <1>1, HeadIs
<1>3. RowTypes /\ RowNames /\ OpTypes
  BY DEF MemoryShape
<1>4. /\ s.c \in Contents /\ s.set \subseteq Stored
      /\ s.p \in DOMAIN prop \cup {Nobody}
  BY <1>1, <1>2 DEF StatementOK
<1>5. NewMemory(s.c, s.p, s.set) \in MemoryRow
  <2>1. s.p \in Props \cup {Nobody} /\ s.set \in SUBSET Ids
    BY <1>2 DEF Statement
  <2> QED BY <1>4, <2>1 DEF NewMemory, MemoryRow, Statuses
<1> HIDE DEF s, m, M, S, P
<1>6. /\ mem' \in Seq(MemoryRow) /\ Len(mem') = m /\ Len(mem') <= MaxMemories
      /\ Stored' = Stored \cup {m} /\ m \notin Stored
      /\ \A k \in Stored : mem'[k] = mem[k] /\ k < m
      /\ mem'[m] = NewMemory(s.c, s.p, s.set)
  BY <1>1, <1>3, <1>5, AppendRow DEF m
<1>7. RowTypes'
  BY <1>1, <1>3, <1>6 DEF RowTypes
<1>8. /\ Ensure(m) \in Statement /\ Ensure(m).do = "ensure" /\ Ensure(m).m = m
      /\ Sync(m) \in Statement /\ Sync(m).do = "sync" /\ Sync(m).m = m
  <2>1. Nobody \in Ids \cup {Nobody}
    OBVIOUS
  <2> QED BY <1>1, <2>1, DeedsAre
<1>9. /\ ToSet(P) = {Ensure(m), Sync(m)} /\ P # <<>> /\ P \in Seq(Statement) /\ Len(P) = 2
      /\ P[1] = Ensure(m) /\ P[2] = Sync(m)
  <2>1. ToSet(P) = {Ensure(m), Sync(m)}
    BY DEF P, ToSet
  <2>2. P # <<>> /\ P \in Seq(Statement) /\ Len(P) = 2 /\ P[1] = Ensure(m) /\ P[2] = Sync(m)
    BY <1>8 DEF P
  <2> QED BY <2>1, <2>2
<1>10. /\ M \in SUBSET Ids /\ op[c].mine \subseteq M /\ m \in M /\ M \subseteq Stored'
       /\ Stored \subseteq Stored' /\ DOMAIN prop \subseteq DOMAIN prop' /\ m \in Stored'
  BY <1>1, <1>2, <1>6 DEF M
<1>11. ListOK(c, P, M, Stored', DOMAIN prop')
  <2>1. \A i \in 2..Len(P) : P[i].do \in {"ensure", "retire", "sync"}
    <3>1. \A i \in 2..Len(P) : i = 2
      BY <1>9
    <3> QED BY <1>8, <1>9, <3>1
  <2>2. \A x \in ToSet(P) : x.do \in {"link", "relink", "ensure", "retire", "sync"}
                            /\ x.m \in M /\ x.m \in Stored'
    BY <1>8, <1>9, <1>10
  <2>3. P[1].do \notin Linking
    BY <1>8, <1>9 DEF Linking
  <2> QED BY <1>9, <2>1, <2>2, <2>3, OneLinkOK
<1>12. \A x \in ToSet(P), y \in ToSet(S) : MayPrecede(x.do, y.do)
  BY <1>2, <1>8, <1>9 DEF MayPrecede, Candidates, Linking
<1>13. \A y \in ToSet(S) : y.do \notin Candidates
  BY <1>2 DEF MayPrecede, Candidates
<1>14. /\ OpTypes' /\ OpNames' /\ ListsOK' /\ Exclusive'
       /\ Moves(c, s, ToSet(P), P \o S, M)
       /\ mixed' \subseteq mixed \cup M /\ reviewed' = reviewed
  BY <1>1, <1>9, <1>10, <1>11, <1>12, <1>13, PrefixMoves DEF s, S
<1>15. crashes' = crashes
  BY <1>1 DEF Continue, ContinueMixing
<1>16. RowNames'
  <2>1. /\ mem'[m].by = Nobody /\ mem'[m].over = {} /\ mem'[m].seen = s.set
        /\ mem'[m].maker = s.p
    BY <1>6 DEF NewMemory
  <2>2. ASSUME NEW k \in Stored'
        PROVE  /\ mem'[k].by \in (Stored' \cup {Nobody}) \ {k}
               /\ mem'[k].over \subseteq Stored' \ {k}
               /\ mem'[k].seen \subseteq Stored'
               /\ mem'[k].maker \in DOMAIN prop' \cup {Nobody}
    <3>1. CASE k \in Stored
      BY <1>1, <1>3, <1>6, <3>1 DEF RowNames
    <3>2. CASE k = m
      <4>1. m # Nobody
        BY <1>1 DEF Ids, Nobody
      <4> QED BY <1>1, <1>4, <1>6, <2>1, <3>2, <4>1
    <3> QED BY <1>6, <3>1, <3>2
  <2>3. mixed' \subseteq Stored' /\ reviewed' \subseteq Stored'
    BY <1>3, <1>6, <1>10, <1>14 DEF RowNames
  <2>4. \A p \in DOMAIN prop' : prop'[p].seen \subseteq Stored' /\ prop'[p].known \subseteq Stored'
    BY <1>1, <1>3, <1>6 DEF RowNames
  <2>5. \A k \in Ids \ Stored' : facts'[k] = <<>>
    BY <1>1, <1>3, <1>6 DEF RowNames
  <2> QED BY <2>2, <2>3, <2>4, <2>5 DEF RowNames
<1>17. MemoryShape'
  BY <1>7, <1>14, <1>16 DEF MemoryShape
<1>18. Moves(c, s, {Ensure(m), Sync(m)}, P \o S, M)
  BY <1>9, <1>14
<1> QED BY <1>1, <1>2, <1>6, <1>15, <1>17, <1>18 DEF s, m, M, S, P

LEMMA LookShape ==
    ASSUME MemoryShape, NEW c \in Callers, LookForFact(c)
    PROVE  \E x \in Statement : \E R, N :
           /\ MemoryShape' /\ crashes' = crashes /\ UNCHANGED store
           /\ op[c].todo # <<>> /\ Current(c).do = "ensure" /\ Current(c) \in Todo(c)
           /\ Current(c).m \in op[c].mine /\ Current(c).m \in Stored
           /\ Moves(c, Current(c), N, R, op[c].mine)
           /\ IF Extracts(Current(c).m) /\ facts[Current(c).m] = <<>>
                THEN N = {x} /\ R # <<>> /\ x \in ToSet(R) /\ R = <<x>> \o Tail(op[c].todo)
                ELSE N = {} /\ R = Tail(op[c].todo)
           /\ x.do = "insert" /\ x.m = Current(c).m /\ x.status = mem[Current(c).m].status
<1> DEFINE s == Current(c)
           m == s.m
           x == [Do("insert", m, Nobody) EXCEPT !.status = mem[m].status]
           S == Tail(op[c].todo)
           M == op[c].mine
<1>1. /\ op[c].todo # <<>> /\ s.do = "ensure" /\ UNCHANGED store
      /\ Continue(c, M, IF Extracts(m) /\ facts[m] = <<>> THEN <<x>> \o S ELSE S)
  BY AtIs DEF LookForFact
<1>2. /\ s \in Statement /\ s \in Todo(c)
      /\ StatementOK(c, M, Stored, DOMAIN prop, s)
      /\ \A y \in ToSet(S) : MayPrecede("ensure", y.do)
      /\ M \in SUBSET Ids /\ M \subseteq Stored
      /\ S \in Seq(Statement)
  BY <1>1, HeadIs
<1>3. RowTypes /\ RowNames /\ OpTypes
  BY DEF MemoryShape
<1>4. m \in M /\ m \in Stored /\ m \in Ids
  BY <1>1, <1>2 DEF StatementOK, Owned
<1>5. /\ x \in Statement /\ x.do = "insert" /\ x.m = m /\ x.status = mem[m].status
  <2>1. "insert" \in Deeds /\ m \in Ids \cup {Nobody} /\ Nobody \in Ids \cup {Nobody}
    BY <1>4 DEF Deeds
  <2>2. /\ Do("insert", m, Nobody) \in Statement /\ Do("insert", m, Nobody).do = "insert"
        /\ Do("insert", m, Nobody).m = m
    BY <2>1, DoIs
  <2>3. mem[m] \in MemoryRow
    BY <1>3, <1>4 DEF RowTypes, Stored
  <2>4. mem[m].status \in Statuses
    BY <2>3 DEF MemoryRow
  <2> QED BY <2>2, <2>4 DEF Statement
<1>6. Stored' = Stored /\ DOMAIN prop' = DOMAIN prop
  BY <1>1 DEF store, Stored
<1>7. crashes' = crashes
  BY <1>1 DEF Continue, ContinueMixing
<1> HIDE DEF s, m, x, S, M
<1>8. CASE Extracts(m) /\ facts[m] = <<>>
  <2> DEFINE P == <<x>>
  <2>1. Continue(c, M, P \o S)
    BY <1>1, <1>8
  <2>2. /\ ListOK(c, P, M, Stored, DOMAIN prop) /\ P \in Seq(Statement)
        /\ P # <<>> /\ ToSet(P) = {x}
    <3>1. StatementOK(c, M, Stored, DOMAIN prop, x)
      BY <1>4, <1>5 DEF StatementOK, Owned, Linking, Candidates, Carriers
    <3>2. x.do \notin Linking \cup {"fixture"} /\ x.do \notin Candidates
      BY <1>5 DEF Linking, Candidates
    <3> QED BY <1>5, <3>1, <3>2, SingleOK
  <2> HIDE DEF P
  <2>3. \A y \in ToSet(P), z \in ToSet(S) : MayPrecede(y.do, z.do)
    BY <1>2, <1>5, <2>2 DEF MayPrecede, Candidates, Linking
  <2>4. /\ OpTypes' /\ OpNames' /\ ListsOK' /\ Exclusive'
        /\ Moves(c, s, ToSet(P), P \o S, M)
        /\ mixed' \subseteq mixed \cup M /\ reviewed' = reviewed
    <3>1. /\ M = op[c].mine /\ M \subseteq Stored' /\ Stored \subseteq Stored'
          /\ DOMAIN prop \subseteq DOMAIN prop' /\ ListOK(c, P, M, Stored', DOMAIN prop')
      BY <1>2, <1>6, <2>2 DEF M
    <3> QED BY <1>1, <1>2, <2>1, <2>2, <2>3, <3>1, PrefixMoves DEF s, S
  <2>5. RowTypes' /\ RowNames'
    <3>1. mixed' \subseteq mixed \cup Stored /\ reviewed' \subseteq Stored
      BY <1>2, <1>3, <2>4 DEF RowNames
    <3> QED BY <1>1, <3>1, RowsStay
  <2>6. MemoryShape' /\ Moves(c, s, {x}, P \o S, M)
    BY <2>2, <2>4, <2>5 DEF MemoryShape
  <2>7. P \o S # <<>> /\ x \in ToSet(P \o S)
    <3>1. ToSet(P \o S) = ToSet(P) \cup ToSet(S)
      BY <1>2, <2>2, JoinSet
    <3>2. ToSet(<<>>) = {}
      BY DEF ToSet
    <3> QED BY <2>2, <3>1, <3>2
  <2> QED BY <1>1, <1>2, <1>4, <1>5, <1>7, <1>8, <2>6, <2>7 DEF s, m, S, M, P
<1>9. CASE ~(Extracts(m) /\ facts[m] = <<>>)
  <2>1. ContinueMixing(c, op[c].mine, Tail(op[c].todo), {})
    BY <1>1, <1>9 DEF Continue, M, S
  <2>2. /\ OpTypes' /\ OpNames' /\ ListsOK' /\ Exclusive'
        /\ Moves(c, Current(c), {}, Tail(op[c].todo), op[c].mine)
        /\ mixed' \subseteq mixed \cup Stored \cup {}
        /\ reviewed' = reviewed
    BY <1>1, <1>6, <2>1, StepMoves
  <2>3. RowTypes' /\ RowNames'
    <3>1. mixed' \subseteq mixed \cup Stored /\ reviewed' \subseteq Stored
      BY <1>3, <2>2 DEF RowNames
    <3> QED BY <1>1, <3>1, RowsStay
  <2>4. MemoryShape'
    BY <2>2, <2>3 DEF MemoryShape
  <2> QED BY <1>1, <1>2, <1>4, <1>5, <1>7, <1>9, <2>2, <2>4 DEF s, m, S, M
<1> QED BY <1>8, <1>9

\* One statement executes and nothing takes its place.
LEMMA StepShape ==
    ASSUME MemoryShape, NEW c \in Callers, op[c].todo # <<>>, NEW others,
           ContinueMixing(c, op[c].mine, Tail(op[c].todo), others), others \subseteq Stored,
           RowTypes', Stored' = Stored, DOMAIN prop' = DOMAIN prop,
           mixed' \subseteq Stored /\ reviewed' \subseteq Stored => RowNames'
    PROVE  /\ MemoryShape' /\ crashes' = crashes
           /\ Moves(c, Current(c), {}, Tail(op[c].todo), op[c].mine)
           /\ Current(c) \in Todo(c) /\ Current(c) \in Statement
           /\ StatementOK(c, op[c].mine, Stored, DOMAIN prop, Current(c))
           /\ op[c].mine \subseteq Stored
<1>1. /\ OpTypes' /\ OpNames' /\ ListsOK' /\ Exclusive'
      /\ Moves(c, Current(c), {}, Tail(op[c].todo), op[c].mine)
      /\ mixed' \subseteq mixed \cup Stored \cup others
      /\ reviewed' = reviewed
  BY StepMoves
<1>2. mixed' \subseteq Stored /\ reviewed' \subseteq Stored
  BY <1>1 DEF MemoryShape, RowNames
<1>3. crashes' = crashes
  BY DEF ContinueMixing
<1>4. /\ Current(c) \in Todo(c) /\ Current(c) \in Statement
      /\ StatementOK(c, op[c].mine, Stored, DOMAIN prop, Current(c))
      /\ op[c].mine \subseteq Stored
  BY HeadIs
<1>5. MemoryShape'
  BY <1>1, <1>2 DEF MemoryShape
<1> QED BY <1>1, <1>3, <1>4, <1>5

LEMMA PlainStep ==
    ASSUME MemoryShape, NEW c \in Callers, op[c].todo # <<>>, Step(c),
           RowTypes', Stored' = Stored, DOMAIN prop' = DOMAIN prop,
           mixed' \subseteq Stored /\ reviewed' \subseteq Stored => RowNames'
    PROVE  /\ MemoryShape' /\ crashes' = crashes
           /\ Moves(c, Current(c), {}, Tail(op[c].todo), op[c].mine)
           /\ Current(c) \in Todo(c) /\ Current(c) \in Statement
           /\ StatementOK(c, op[c].mine, Stored, DOMAIN prop, Current(c))
           /\ op[c].mine \subseteq Stored
<1> DEFINE others == {}
<1>1. ContinueMixing(c, op[c].mine, Tail(op[c].todo), others) /\ others \subseteq Stored
  BY DEF Step, Continue
<1> HIDE DEF others
<1> QED BY <1>1, StepShape

\* The facts of one memory change.
LEMMA FactRows ==
    ASSUME MemoryShape, NEW m \in Stored, NEW s \in Seq(Statuses),
           facts' = [facts EXCEPT ![m] = s], UNCHANGED <<mem, node, prop>>
    PROVE  /\ RowTypes' /\ Stored' = Stored /\ DOMAIN prop' = DOMAIN prop
           /\ mixed' \subseteq Stored /\ reviewed' \subseteq Stored => RowNames'
           /\ facts'[m] = s /\ \A k \in Ids \ {m} : facts'[k] = facts[k]
<1>1. m \in Ids /\ RowTypes /\ RowNames
  BY StoredIds DEF MemoryShape
<1>2. facts \in [Ids -> Seq(Statuses)]
  BY <1>1 DEF RowTypes
<1>3. /\ facts' \in [Ids -> Seq(Statuses)]
      /\ facts'[m] = s /\ \A k \in Ids \ {m} : facts'[k] = facts[k]
  BY <1>1, <1>2
<1>4. RowTypes' /\ Stored' = Stored /\ DOMAIN prop' = DOMAIN prop
  BY <1>1, <1>3 DEF RowTypes, Stored
<1>5. mixed' \subseteq Stored /\ reviewed' \subseteq Stored => RowNames'
  BY <1>1, <1>3, <1>4 DEF RowNames
<1> QED BY <1>3, <1>4, <1>5

LEMMA InsertShape ==
    ASSUME MemoryShape, NEW c \in Callers, InsertFact(c)
    PROVE  LET s == Current(c) IN
           /\ MemoryShape' /\ crashes' = crashes /\ UNCHANGED <<mem, node, prop>>
           /\ op[c].todo # <<>> /\ s.do = "insert" /\ s \in Todo(c) /\ s.m \in Stored
           /\ s.m \in op[c].mine
           /\ Moves(c, s, {}, Tail(op[c].todo), op[c].mine)
           /\ facts'[s.m] = Append(facts[s.m], s.status) /\ facts[s.m] \in Seq(Statuses)
           /\ \A k \in Stored \ {s.m} : facts'[k] = facts[k]
<1> DEFINE s == Current(c)
           m == s.m
<1>1. /\ op[c].todo # <<>> /\ s.do = "insert" /\ UNCHANGED <<mem, node, prop>>
      /\ facts' = [facts EXCEPT ![m] = Append(facts[m], s.status)]
      /\ Step(c)
  BY AtIs DEF InsertFact
<1>2. s \in Statement /\ StatementOK(c, op[c].mine, Stored, DOMAIN prop, s)
      /\ op[c].mine \subseteq Stored
  BY <1>1, HeadIs
<1>3. m \in Stored /\ m \in op[c].mine
  BY <1>1, <1>2 DEF StatementOK, Owned
<1>4. facts[m] \in Seq(Statuses) /\ s.status \in Statuses
  <2>1. m \in Ids
    BY <1>3, StoredIds DEF MemoryShape
  <2> QED BY <1>2, <2>1 DEF MemoryShape, RowTypes, Statement
<1>5. Append(facts[m], s.status) \in Seq(Statuses)
  BY <1>4
<1> HIDE DEF s, m
<1>6. /\ RowTypes' /\ Stored' = Stored /\ DOMAIN prop' = DOMAIN prop
      /\ mixed' \subseteq Stored /\ reviewed' \subseteq Stored => RowNames'
      /\ facts'[m] = Append(facts[m], s.status)
      /\ \A k \in Ids \ {m} : facts'[k] = facts[k]
  BY <1>1, <1>3, <1>5, FactRows
<1>7. MemoryShape' /\ crashes' = crashes
      /\ Moves(c, Current(c), {}, Tail(op[c].todo), op[c].mine)
      /\ Current(c) \in Todo(c)
  BY <1>1, <1>6, PlainStep
<1>8. Stored \subseteq Ids
  BY StoredIds DEF MemoryShape
<1> QED BY <1>1, <1>3, <1>4, <1>6, <1>7, <1>8 DEF s, m

\* Every fact row of a memory becomes deprecated.
LEMMA FactsRetired ==
    ASSUME MemoryShape, NEW m \in Stored,
           facts' = [facts EXCEPT ![m] = [i \in DOMAIN @ |-> "deprecated"]],
           UNCHANGED <<mem, node, prop>>
    PROVE  /\ RowTypes' /\ Stored' = Stored /\ DOMAIN prop' = DOMAIN prop
           /\ mixed' \subseteq Stored /\ reviewed' \subseteq Stored => RowNames'
           /\ \A k \in Ids \ {m} : facts'[k] = facts[k]
           /\ \A i \in DOMAIN facts'[m] : facts'[m][i] = "deprecated"
           /\ facts'[m] = <<>> <=> facts[m] = <<>>
<1> DEFINE s == [i \in DOMAIN facts[m] |-> "deprecated"]
<1>1. facts[m] \in Seq(Statuses) /\ facts \in [Ids -> Seq(Statuses)] /\ m \in Ids
  BY StoredIds DEF MemoryShape, RowTypes
<1>2. DOMAIN facts[m] = 1..Len(facts[m]) /\ Len(facts[m]) \in Nat
  BY <1>1
<1>3. s \in [1..Len(facts[m]) -> Statuses]
  BY <1>2 DEF Statuses
<1>4. s \in Seq(Statuses) /\ Len(s) = Len(facts[m])
  BY <1>2, <1>3
<1>5. \A i \in DOMAIN s : s[i] = "deprecated"
  OBVIOUS
<1>6. s = <<>> <=> facts[m] = <<>>
  <2>1. Len(s) = 0 <=> s = <<>>
    BY <1>4
  <2>2. Len(facts[m]) = 0 <=> facts[m] = <<>>
    BY <1>1
  <2> QED BY <1>4, <2>1, <2>2
<1>7. facts' = [facts EXCEPT ![m] = s]
  BY <1>1
<1> HIDE DEF s
<1>8. /\ RowTypes' /\ Stored' = Stored /\ DOMAIN prop' = DOMAIN prop
      /\ mixed' \subseteq Stored /\ reviewed' \subseteq Stored => RowNames'
      /\ facts'[m] = s /\ \A k \in Ids \ {m} : facts'[k] = facts[k]
  BY <1>4, <1>7, FactRows
<1> QED BY <1>5, <1>6, <1>8

LEMMA RetireShape ==
    ASSUME MemoryShape, NEW c \in Callers, RetireFacts(c)
    PROVE  LET s == Current(c) IN
           /\ MemoryShape' /\ crashes' = crashes /\ UNCHANGED <<mem, node, prop>>
           /\ op[c].todo # <<>> /\ s.do = "retire" /\ s \in Todo(c) /\ s.m \in Stored
           /\ Moves(c, s, {}, Tail(op[c].todo), op[c].mine)
           /\ \A i \in DOMAIN facts'[s.m] : facts'[s.m][i] = "deprecated"
           /\ facts'[s.m] = <<>> <=> facts[s.m] = <<>>
           /\ \A k \in Stored \ {s.m} : facts'[k] = facts[k]
<1> DEFINE s == Current(c)
           m == s.m
<1>1. /\ op[c].todo # <<>> /\ s.do = "retire" /\ UNCHANGED <<mem, node, prop>>
      /\ facts' = [facts EXCEPT ![m] = [i \in DOMAIN @ |-> "deprecated"]]
      /\ Step(c)
  BY AtIs DEF RetireFacts
<1>2. s \in Statement /\ StatementOK(c, op[c].mine, Stored, DOMAIN prop, s)
      /\ op[c].mine \subseteq Stored
  BY <1>1, HeadIs
<1>3. m \in Stored
  BY <1>1, <1>2 DEF StatementOK, Owned
<1> HIDE DEF s, m
<1>4. /\ RowTypes' /\ Stored' = Stored /\ DOMAIN prop' = DOMAIN prop
      /\ mixed' \subseteq Stored /\ reviewed' \subseteq Stored => RowNames'
      /\ \A k \in Ids \ {m} : facts'[k] = facts[k]
      /\ \A i \in DOMAIN facts'[m] : facts'[m][i] = "deprecated"
      /\ facts'[m] = <<>> <=> facts[m] = <<>>
  BY <1>1, <1>3, FactsRetired
<1>5. MemoryShape' /\ crashes' = crashes
      /\ Moves(c, Current(c), {}, Tail(op[c].todo), op[c].mine)
      /\ Current(c) \in Todo(c)
  BY <1>1, <1>4, PlainStep
<1>6. Stored \subseteq Ids
  BY StoredIds DEF MemoryShape
<1> QED BY <1>1, <1>3, <1>4, <1>5, <1>6 DEF s, m

LEMMA RestoreShape ==
    ASSUME MemoryShape, NEW c \in Callers, RestoreLifecycle(c)
    PROVE  LET s == Current(c) IN
           /\ MemoryShape' /\ crashes' = crashes /\ UNCHANGED <<mem, node, prop>>
           /\ op[c].todo # <<>> /\ s.do = "restore" /\ s \in Todo(c) /\ s.m \in Stored
           /\ Moves(c, s, {}, Tail(op[c].todo), op[c].mine)
           /\ \/ mem[s.m].by = Nobody /\ facts' = facts
              \/ /\ mem[s.m].by # Nobody
                 /\ \A i \in DOMAIN facts'[s.m] : facts'[s.m][i] = "deprecated"
                 /\ facts'[s.m] = <<>> <=> facts[s.m] = <<>>
                 /\ \A k \in Stored \ {s.m} : facts'[k] = facts[k]
<1> DEFINE s == Current(c)
           m == s.m
<1>1. /\ op[c].todo # <<>> /\ s.do = "restore" /\ UNCHANGED <<mem, node, prop>>
      /\ facts' = IF mem[m].by = Nobody THEN facts
                  ELSE [facts EXCEPT ![m] = [i \in DOMAIN @ |-> "deprecated"]]
      /\ Step(c)
  BY AtIs DEF RestoreLifecycle
<1>2. s \in Statement /\ StatementOK(c, op[c].mine, Stored, DOMAIN prop, s)
      /\ op[c].mine \subseteq Stored
  BY <1>1, HeadIs
<1>3. m \in Stored /\ Stored \subseteq Ids
  BY <1>1, <1>2, StoredIds DEF StatementOK, Owned, MemoryShape
<1> HIDE DEF s, m
<1>4. CASE mem[m].by = Nobody
  <2>1. facts' = facts
    BY <1>1, <1>4
  <2>2. /\ RowTypes' /\ Stored' = Stored /\ DOMAIN prop' = DOMAIN prop
        /\ mixed' \subseteq Stored /\ reviewed' \subseteq Stored => RowNames'
    BY <1>1, <2>1 DEF MemoryShape, RowTypes, RowNames, Stored
  <2>3. MemoryShape' /\ crashes' = crashes
        /\ Moves(c, Current(c), {}, Tail(op[c].todo), op[c].mine)
        /\ Current(c) \in Todo(c)
    BY <1>1, <2>2, PlainStep
  <2> QED BY <1>1, <1>3, <1>4, <2>1, <2>3 DEF s, m
<1>5. CASE mem[m].by # Nobody
  <2>1. facts' = [facts EXCEPT ![m] = [i \in DOMAIN @ |-> "deprecated"]]
    BY <1>1, <1>5
  <2>2. /\ RowTypes' /\ Stored' = Stored /\ DOMAIN prop' = DOMAIN prop
        /\ mixed' \subseteq Stored /\ reviewed' \subseteq Stored => RowNames'
        /\ \A k \in Ids \ {m} : facts'[k] = facts[k]
        /\ \A i \in DOMAIN facts'[m] : facts'[m][i] = "deprecated"
        /\ facts'[m] = <<>> <=> facts[m] = <<>>
    BY <1>1, <1>3, <2>1, FactsRetired
  <2>3. MemoryShape' /\ crashes' = crashes
        /\ Moves(c, Current(c), {}, Tail(op[c].todo), op[c].mine)
        /\ Current(c) \in Todo(c)
    BY <1>1, <2>2, PlainStep
  <2> QED BY <1>1, <1>3, <1>5, <2>2, <2>3 DEF s, m
<1> QED BY <1>4, <1>5

LEMMA SyncShape ==
    ASSUME MemoryShape, NEW c \in Callers, SyncMemory(c)
    PROVE  LET s == Current(c) IN
           /\ MemoryShape' /\ crashes' = crashes /\ UNCHANGED <<mem, facts, prop>>
           /\ op[c].todo # <<>> /\ s.do = "sync" /\ s \in Todo(c) /\ s.m \in Stored
           /\ Moves(c, s, {}, Tail(op[c].todo), op[c].mine)
           /\ \A k \in Stored : node'[k] = IF k \in Linked(s.m) THEN "referenced"
                                           ELSE IF k = s.m THEN mem[s.m].status ELSE node[k]
<1> DEFINE s == Current(c)
           m == s.m
<1>1. /\ op[c].todo # <<>> /\ s.do = "sync" /\ UNCHANGED <<mem, facts, prop>>
      /\ node' = Synced(m) /\ Step(c)
  BY AtIs DEF SyncMemory
<1>2. s \in Statement /\ StatementOK(c, op[c].mine, Stored, DOMAIN prop, s)
      /\ op[c].mine \subseteq Stored
  BY <1>1, HeadIs
<1>3. m \in Stored /\ Stored \subseteq Ids
  BY <1>1, <1>2, StoredIds DEF StatementOK, MemoryShape
<1> HIDE DEF s, m
<1>4. mem[m].status \in Statuses
  <2>1. mem[m] \in MemoryRow
    BY <1>3 DEF MemoryShape, RowTypes, Stored
  <2> QED BY <2>1 DEF MemoryRow
<1>5. \A k \in Ids : node'[k] = IF k \in Linked(m) THEN "referenced"
                                ELSE IF k = m THEN mem[m].status ELSE node[k]
  BY <1>1 DEF Synced
<1>6. node' \in [Ids -> Statuses \cup {"none", "referenced"}]
  BY <1>1, <1>4 DEF Synced, MemoryShape, RowTypes
<1>7. RowTypes' /\ Stored' = Stored /\ DOMAIN prop' = DOMAIN prop
  BY <1>1, <1>6 DEF MemoryShape, RowTypes, Stored
<1>8. mixed' \subseteq Stored /\ reviewed' \subseteq Stored => RowNames'
  BY <1>1, <1>7 DEF MemoryShape, RowNames
<1>9. MemoryShape' /\ crashes' = crashes
      /\ Moves(c, Current(c), {}, Tail(op[c].todo), op[c].mine)
      /\ Current(c) \in Todo(c)
  BY <1>1, <1>7, <1>8, PlainStep
<1> QED BY <1>1, <1>3, <1>5, <1>9 DEF s, m

LEMMA LinkShape ==
    ASSUME MemoryShape, NEW c \in Callers, LinkReplacement(c)
    PROVE  LET s == Current(c) IN
           /\ MemoryShape' /\ crashes' = crashes /\ UNCHANGED <<facts, node, prop>>
           /\ op[c].todo # <<>> /\ s.do \in Linking /\ s \in Todo(c)
           /\ s.m \in Stored /\ s.m \in op[c].mine /\ Stored' = Stored
           /\ Moves(c, s, {}, Tail(op[c].todo), op[c].mine)
           /\ Has(op[c].todo, {"sync"}, s.m)
           /\ \A k \in Stored \ {s.m} : mem'[k] = mem[k]
           /\ \A k \in Stored : /\ mem'[k].status = mem[k].status
                                /\ mem'[k].content = mem[k].content
                                /\ mem'[k].maker = mem[k].maker /\ mem'[k].seen = mem[k].seen
           /\ \/ /\ s.do = "link" /\ mem'[s.m].by = mem[s.m].by
                 /\ mem'[s.m].over = mem[s.m].over \cup {s.n}
              \/ /\ s.do = "relink" /\ mem'[s.m].by = s.n /\ mem'[s.m].over = s.set
                 /\ mem[s.m].over \ s.set \subseteq mixed'
<1> DEFINE s == Current(c)
           x == s.m
           others == Dropped(s)
           r == IF s.do = "link" THEN [mem[x] EXCEPT !.over = @ \cup {s.n}]
                ELSE [mem[x] EXCEPT !.over = s.set, !.by = s.n]
<1>1. /\ op[c].todo # <<>> /\ s.do \in Linking /\ UNCHANGED <<facts, node, prop>>
      /\ ContinueMixing(c, op[c].mine, Tail(op[c].todo), others)
  BY AtIs DEF LinkReplacement, Linking
<1>2. mem' = IF s.do = "link" THEN [mem EXCEPT ![x].over = @ \cup {s.n}]
             ELSE [mem EXCEPT ![x].over = s.set, ![x].by = s.n]
  BY AtIs DEF LinkReplacement, At, Current
<1>3. /\ s \in Statement /\ s \in Todo(c) /\ Has(op[c].todo, {"sync"}, x)
      /\ StatementOK(c, op[c].mine, Stored, DOMAIN prop, s) /\ op[c].mine \subseteq Stored
  BY <1>1, HeadIs
<1>4. /\ x \in op[c].mine /\ x \in Stored /\ s.n \in (Stored \cup {Nobody}) \ {x}
      /\ s.do = "link" => s.n \in Stored
      /\ s.do = "relink" => s.set \subseteq Stored \ {x}
      /\ s.do = "link" \/ s.do = "relink"
  BY <1>1, <1>3 DEF StatementOK, Owned, Linking
<1>5. RowTypes /\ RowNames /\ mem \in Seq(MemoryRow) /\ mem[x] \in MemoryRow /\ Stored \subseteq Ids
  BY <1>4, StoredIds DEF MemoryShape, RowTypes, Stored
<1>6. /\ r \in MemoryRow /\ r.status = mem[x].status /\ r.content = mem[x].content
      /\ r.maker = mem[x].maker /\ r.seen = mem[x].seen
      /\ s.do = "link" => r.by = mem[x].by /\ r.over = mem[x].over \cup {s.n}
      /\ s.do = "relink" => r.by = s.n /\ r.over = s.set
  BY <1>4, <1>5 DEF MemoryRow
<1>7. mem' = [mem EXCEPT ![x] = r]
  BY <1>2, <1>5
<1>8. others \subseteq Stored /\ (s.do = "relink" => others = mem[x].over \ s.set)
  BY <1>4, <1>5 DEF Dropped, RowNames
<1> HIDE DEF s, x, r, others
<1>9. /\ mem' \in Seq(MemoryRow) /\ Len(mem') = Len(mem) /\ Stored' = Stored
      /\ mem'[x] = r /\ \A k \in Stored \ {x} : mem'[k] = mem[k]
  BY <1>4, <1>5, <1>6, <1>7, RowChange
<1>10. RowTypes' /\ DOMAIN prop' = DOMAIN prop
  BY <1>1, <1>5, <1>9 DEF RowTypes
<1>11. mixed' \subseteq Stored /\ reviewed' \subseteq Stored => RowNames'
  <2>1. ASSUME NEW k \in Stored
        PROVE  /\ mem'[k].by \in (Stored \cup {Nobody}) \ {k}
               /\ mem'[k].over \subseteq Stored \ {k}
               /\ mem'[k].seen \subseteq Stored
               /\ mem'[k].maker \in DOMAIN prop \cup {Nobody}
    <3>1. CASE k # x
      BY <1>5, <1>9, <3>1 DEF RowNames
    <3>2. CASE k = x
      BY <1>4, <1>5, <1>6, <1>9, <3>2 DEF RowNames
    <3> QED BY <3>1, <3>2
  <2> QED BY <1>1, <1>5, <1>9, <1>10, <2>1 DEF RowNames
<1>12. MemoryShape' /\ crashes' = crashes
       /\ Moves(c, Current(c), {}, Tail(op[c].todo), op[c].mine)
  BY <1>1, <1>8, <1>9, <1>10, <1>11, StepShape
<1>13. others \subseteq mixed'
  BY <1>1 DEF ContinueMixing
<1>14. \A k \in Stored : /\ mem'[k].status = mem[k].status
                         /\ mem'[k].content = mem[k].content
                         /\ mem'[k].maker = mem[k].maker /\ mem'[k].seen = mem[k].seen
  BY <1>6, <1>9
<1>15. \/ /\ s.do = "link" /\ mem'[x].by = mem[x].by
          /\ mem'[x].over = mem[x].over \cup {s.n}
       \/ /\ s.do = "relink" /\ mem'[x].by = s.n /\ mem'[x].over = s.set
          /\ mem[x].over \ s.set \subseteq mixed'
  BY <1>4, <1>6, <1>8, <1>9, <1>13
<1> QED BY <1>1, <1>3, <1>4, <1>9, <1>12, <1>14, <1>15 DEF s, x

\* The maintenance worker
LEMMA CheckShape ==
    ASSUME MemoryShape, CheckCandidate
    PROVE  \E P \in Seq(Statement) :
           LET R == P \o Tail(op[Worker].todo) IN
           /\ MemoryShape' /\ crashes' = crashes /\ UNCHANGED store
           /\ op[Worker].todo # <<>> /\ Current(Worker).do = "check"
           /\ Current(Worker) \in Todo(Worker)
           /\ Moves(Worker, Current(Worker), ToSet(P), R, {})
           /\ \A x \in ToSet(P) : x.do \in {"sync", "propose", "invalid"}
<1> DEFINE s == Current(Worker)
           c == s.c
           S == Tail(op[Worker].todo)
           Y == Each("sync", Newest(Active))
           ok == <<Candidate("propose", c)>>
           bad == <<Candidate("invalid", c)>>
<1>1. /\ op[Worker].todo # <<>> /\ s.do = "check" /\ UNCHANGED store
      /\ Continue(Worker, {}, (Y \o ok) \o S) \/ Continue(Worker, {}, bad \o S)
  BY AtIs DEF CheckCandidate
<1>2. Worker \in Callers
  BY DEF Callers
<1>3. /\ s \in Todo(Worker) /\ StatementOK(Worker, op[Worker].mine, Stored, DOMAIN prop, s)
      /\ \A y \in ToSet(S) : MayPrecede("check", y.do)
      /\ s.do \in Candidates => op[Worker].mine = {}
  BY <1>1, <1>2, HeadIs
<1>4. c \in Contents /\ op[Worker].mine = {}
  BY <1>1, <1>3 DEF StatementOK, Candidates
<1>5. /\ "propose" \in Deeds /\ "invalid" \in Deeds /\ "sync" \in Deeds
  BY DEF Deeds
<1>6. /\ Active \in SUBSET Ids /\ Active \subseteq Stored /\ RowTypes
  BY StoredIds DEF MemoryShape, Active
<1>7. /\ Candidate("propose", c) \in Statement /\ Candidate("propose", c).do = "propose"
      /\ Candidate("propose", c).c = c
      /\ Candidate("invalid", c) \in Statement /\ Candidate("invalid", c).do = "invalid"
      /\ Candidate("invalid", c).c = c
  BY <1>4, <1>5, CandidateIs
<1>8. /\ StatementOK(Worker, {}, Stored, DOMAIN prop, Candidate("propose", c))
      /\ StatementOK(Worker, {}, Stored, DOMAIN prop, Candidate("invalid", c))
  BY <1>4, <1>7 DEF StatementOK, Owned, Linking, Candidates, Carriers
<1>9. /\ ListOK(Worker, ok, {}, Stored, DOMAIN prop) /\ ok \in Seq(Statement)
      /\ ToSet(ok) = {Candidate("propose", c)}
      /\ ListOK(Worker, bad, {}, Stored, DOMAIN prop) /\ bad \in Seq(Statement)
      /\ ToSet(bad) = {Candidate("invalid", c)}
  <2>1. /\ Candidate("propose", c).do \notin Linking \cup {"fixture"}
        /\ Candidate("invalid", c).do \notin Linking \cup {"fixture"}
    BY <1>7 DEF Linking
  <2>2. /\ ListOK(Worker, ok, {}, Stored, DOMAIN prop) /\ ok \in Seq(Statement)
        /\ ToSet(ok) = {Candidate("propose", c)}
    BY <1>7, <1>8, <2>1, SingleOK
  <2>3. /\ ListOK(Worker, bad, {}, Stored, DOMAIN prop) /\ bad \in Seq(Statement)
        /\ ToSet(bad) = {Candidate("invalid", c)}
    BY <1>7, <1>8, <2>1, SingleOK
  <2> QED BY <2>2, <2>3
<1>10. /\ Y \in Seq(Statement) /\ ListOK(Worker, Y, {}, Stored, DOMAIN prop)
       /\ \A x \in ToSet(Y) : x.do = "sync"
  <2>1. Newest(Active) \in Seq(Active)
    BY <1>6, NewestIs
  <2>2. ListOK(Worker, Y, {}, Stored, DOMAIN prop)
    BY <1>2, <1>6, <2>1, EachOK
  <2>3. Y \in Seq(Statement) /\ \A x \in ToSet(Y) : \E m \in Active : x = Do("sync", m, Nobody)
    BY <1>5, <1>6, <2>1, EachIs
  <2> QED BY <1>5, <1>6, <2>2, <2>3, DoIs
<1> HIDE DEF s, c, S, Y, ok, bad
<1>11. /\ ListOK(Worker, Y \o ok, {}, Stored, DOMAIN prop) /\ Y \o ok \in Seq(Statement)
       /\ ToSet(Y \o ok) = ToSet(Y) \cup ToSet(ok)
  <2>1. \A x \in ToSet(Y), y \in ToSet(ok) : MayPrecede(x.do, y.do)
    BY <1>7, <1>9, <1>10 DEF MayPrecede, Linking, Candidates
  <2>2. /\ ok \in Seq(Statement) /\ Y \in Seq(Statement)
        /\ ListOK(Worker, ok, {}, Stored, DOMAIN prop)
        /\ ListOK(Worker, Y, {}, Stored, DOMAIN prop)
    BY <1>9, <1>10
  <2> QED BY <2>1, <2>2, ListJoin, ZenonT(90)
<1>12. ASSUME NEW P \in Seq(Statement), Continue(Worker, {}, P \o S),
              ListOK(Worker, P, {}, Stored, DOMAIN prop),
              \A x \in ToSet(P) : x.do \in {"sync", "propose", "invalid"}
       PROVE  MemoryShape' /\ crashes' = crashes /\ Moves(Worker, s, ToSet(P), P \o S, {})
  <2>1. \A x \in ToSet(P), y \in ToSet(S) : MayPrecede(x.do, y.do)
    BY <1>3, <1>12 DEF MayPrecede, Linking, Candidates
  <2>2. Stored' = Stored /\ DOMAIN prop' = DOMAIN prop
    BY <1>1 DEF store, Stored
  <2> DEFINE M == {}
  <2>3. /\ M \in SUBSET Ids /\ op[Worker].mine \subseteq M /\ M \subseteq Stored'
        /\ Stored \subseteq Stored' /\ DOMAIN prop \subseteq DOMAIN prop'
        /\ M = op[Worker].mine /\ ListOK(Worker, P, M, Stored', DOMAIN prop')
        /\ Continue(Worker, M, P \o S)
    BY <1>4, <1>12, <2>2
  <2> HIDE DEF M
  <2>4. /\ OpTypes' /\ OpNames' /\ ListsOK' /\ Exclusive'
        /\ Moves(Worker, s, ToSet(P), P \o S, M)
        /\ mixed' \subseteq mixed \cup M /\ reviewed' = reviewed
    BY <1>1, <1>2, <2>1, <2>3, PrefixMoves DEF s, S
  <2>5. RowTypes' /\ RowNames'
    <3>1. mixed' \subseteq mixed \cup Stored /\ reviewed' \subseteq Stored
      BY <2>4 DEF M, MemoryShape, RowNames
    <3> QED BY <1>1, <3>1, RowsStay
  <2>6. crashes' = crashes
    BY <1>12 DEF Continue, ContinueMixing
  <2> QED BY <2>4, <2>5, <2>6 DEF MemoryShape, M
<1>13. CASE Continue(Worker, {}, (Y \o ok) \o S)
  <2> DEFINE P == Y \o ok
  <2>1. /\ P \in Seq(Statement) /\ Continue(Worker, {}, P \o S)
        /\ ListOK(Worker, P, {}, Stored, DOMAIN prop)
        /\ \A x \in ToSet(P) : x.do \in {"sync", "propose", "invalid"}
    BY <1>7, <1>9, <1>10, <1>11, <1>13
  <2> HIDE DEF P
  <2>2. MemoryShape' /\ crashes' = crashes /\ Moves(Worker, s, ToSet(P), P \o S, {})
    BY <1>12, <2>1
  <2> QED BY <1>1, <1>3, <2>1, <2>2 DEF s, S
<1>14. CASE Continue(Worker, {}, bad \o S)
  <2>1. \A x \in ToSet(bad) : x.do \in {"sync", "propose", "invalid"}
    BY <1>7, <1>9
  <2>2. MemoryShape' /\ crashes' = crashes /\ Moves(Worker, s, ToSet(bad), bad \o S, {})
    BY <1>9, <1>12, <1>14, <2>1
  <2> QED BY <1>1, <1>3, <1>9, <2>1, <2>2 DEF s, S
<1> QED BY <1>1, <1>13, <1>14

\* The proposals change, the memories do not.
LEMMA ProposalRows ==
    ASSUME MemoryShape, UNCHANGED <<mem, facts, node>>, prop' \in Seq(ProposalRow),
           Len(prop') <= MaxProposals, DOMAIN prop \subseteq DOMAIN prop',
           \A p \in DOMAIN prop' : prop'[p].seen \subseteq Stored
                                   /\ prop'[p].known \subseteq Stored
    PROVE  /\ RowTypes' /\ Stored' = Stored
           /\ mixed' \subseteq Stored /\ reviewed' \subseteq Stored => RowNames'
<1>1. RowTypes' /\ Stored' = Stored
  BY DEF MemoryShape, RowTypes, Stored
<1>2. ASSUME NEW k \in Stored PROVE mem[k].maker \in DOMAIN prop' \cup {Nobody}
  BY DEF MemoryShape, RowNames
<1>3. mixed' \subseteq Stored /\ reviewed' \subseteq Stored => RowNames'
  BY <1>1, <1>2 DEF MemoryShape, RowNames
<1> QED BY <1>1, <1>3

LEMMA StatusRow ==
    ASSUME MemoryShape, NEW p \in DOMAIN prop, UNCHANGED <<mem, facts, node>>,
           NEW status \in {"pending", "pending_review", "applied_create",
                           "archived_noop_duplicate", "archived_rejected"},
           prop' = [prop EXCEPT ![p].status = status]
    PROVE  /\ RowTypes' /\ Stored' = Stored /\ DOMAIN prop' = DOMAIN prop
           /\ mixed' \subseteq Stored /\ reviewed' \subseteq Stored => RowNames'
           /\ prop'[p].status = status
           /\ \A q \in DOMAIN prop \ {p} : prop'[q].status = prop[q].status
           /\ \A q \in DOMAIN prop : /\ prop'[q].content = prop[q].content
                                     /\ prop'[q].action = prop[q].action
                                     /\ prop'[q].seen = prop[q].seen
                                     /\ prop'[q].known = prop[q].known
<1> DEFINE r == [prop[p] EXCEPT !.status = status]
<1>1. prop \in Seq(ProposalRow) /\ Len(prop) <= MaxProposals
  BY DEF MemoryShape, RowTypes
<1>2. prop[p] \in ProposalRow
  BY <1>1
<1>3. /\ r \in ProposalRow /\ r.status = status /\ r.content = prop[p].content
      /\ r.action = prop[p].action /\ r.seen = prop[p].seen /\ r.known = prop[p].known
  BY <1>2 DEF ProposalRow
<1>4. prop' = [prop EXCEPT ![p] = r]
  OBVIOUS
<1> HIDE DEF r
<1>5. /\ prop' \in Seq(ProposalRow) /\ Len(prop') = Len(prop) /\ DOMAIN prop' = DOMAIN prop
      /\ prop'[p] = r /\ \A q \in DOMAIN prop \ {p} : prop'[q] = prop[q]
  BY <1>1, <1>3, <1>4
<1>6. \A q \in DOMAIN prop : /\ prop'[q].content = prop[q].content
                             /\ prop'[q].action = prop[q].action
                             /\ prop'[q].seen = prop[q].seen
                             /\ prop'[q].known = prop[q].known
  BY <1>3, <1>5
<1>7. \A q \in DOMAIN prop' : prop'[q].seen \subseteq Stored /\ prop'[q].known \subseteq Stored
  BY <1>5, <1>6 DEF MemoryShape, RowNames
<1>8. /\ RowTypes' /\ Stored' = Stored
      /\ mixed' \subseteq Stored /\ reviewed' \subseteq Stored => RowNames'
  <2>1. Len(prop') <= MaxProposals /\ DOMAIN prop \subseteq DOMAIN prop'
    BY <1>1, <1>5
  <2> QED BY <1>5, <1>7, <2>1, ProposalRows
<1> QED BY <1>3, <1>5, <1>6, <1>8

LEMMA ResolveShape ==
    ASSUME MemoryShape, ResolveApplied
    PROVE  LET s == Current(Worker) IN
           /\ MemoryShape' /\ crashes' = crashes /\ UNCHANGED <<mem, facts, node>>
           /\ op[Worker].todo # <<>> /\ s.do = "applied_create" /\ s \in Todo(Worker)
           /\ s.p \in DOMAIN prop
           /\ Moves(Worker, s, {}, Tail(op[Worker].todo), op[Worker].mine)
           /\ DOMAIN prop' = DOMAIN prop /\ prop'[s.p].status = "applied_create"
           /\ \A q \in DOMAIN prop \ {s.p} : prop'[q].status = prop[q].status
           /\ \A q \in DOMAIN prop : /\ prop'[q].content = prop[q].content
                                     /\ prop'[q].action = prop[q].action
                                     /\ prop'[q].seen = prop[q].seen
                                     /\ prop'[q].known = prop[q].known
<1> DEFINE s == Current(Worker)
           p == s.p
<1>1. /\ op[Worker].todo # <<>> /\ s.do = "applied_create" /\ UNCHANGED <<mem, facts, node>>
      /\ prop' = [prop EXCEPT ![p].status = "applied_create"] /\ Step(Worker)
  BY AtIs DEF ResolveApplied
<1>2. Worker \in Callers
  BY DEF Callers
<1>3. StatementOK(Worker, op[Worker].mine, Stored, DOMAIN prop, s)
  BY <1>1, <1>2, HeadIs
<1>4. p \in DOMAIN prop
  BY <1>1, <1>3 DEF StatementOK, Carriers
<1> HIDE DEF s, p
<1>5. /\ RowTypes' /\ Stored' = Stored /\ DOMAIN prop' = DOMAIN prop
      /\ mixed' \subseteq Stored /\ reviewed' \subseteq Stored => RowNames'
      /\ prop'[p].status = "applied_create"
      /\ \A q \in DOMAIN prop \ {p} : prop'[q].status = prop[q].status
      /\ \A q \in DOMAIN prop : /\ prop'[q].content = prop[q].content
                                /\ prop'[q].action = prop[q].action
                                /\ prop'[q].seen = prop[q].seen
                                /\ prop'[q].known = prop[q].known
  BY <1>1, <1>4, StatusRow
<1>6. MemoryShape' /\ crashes' = crashes
      /\ Moves(Worker, Current(Worker), {}, Tail(op[Worker].todo), op[Worker].mine)
      /\ Current(Worker) \in Todo(Worker)
  BY <1>1, <1>2, <1>5, PlainStep
<1> QED BY <1>1, <1>4, <1>5, <1>6 DEF s, p

\* The worker's list gets one more statement at its end.
LEMMA AppendMoves ==
    ASSUME MemoryShape, op[Worker].todo # <<>>, NEW x \in Statement,
           Continue(Worker, op[Worker].mine, Append(Tail(op[Worker].todo), x)),
           x.do \in {"settle", "decide"}, x.p \in DOMAIN prop',
           Stored' = Stored, DOMAIN prop \subseteq DOMAIN prop',
           \A y \in ToSet(Tail(op[Worker].todo)) : MayPrecede(y.do, x.do)
    PROVE  /\ OpTypes' /\ OpNames' /\ ListsOK' /\ Exclusive' /\ crashes' = crashes
           /\ Moves(Worker, Current(Worker), {x}, Append(Tail(op[Worker].todo), x),
                    op[Worker].mine)
           /\ mixed' \subseteq mixed \cup Stored /\ reviewed' = reviewed
<1> DEFINE S == Tail(op[Worker].todo)
           M == op[Worker].mine
           R == Append(S, x)
           X == <<x>>
<1>1. Worker \in Callers
  BY DEF Callers
<1>2. /\ S \in Seq(Statement) /\ ListOK(Worker, S, M, Stored, DOMAIN prop)
      /\ Todo(Worker) = ToSet(S) \cup {Current(Worker)}
      /\ M \in SUBSET Ids /\ M \subseteq Stored
  BY <1>1, HeadIs
<1>3. ContinueMixing(Worker, M, R, {}) /\ crashes' = crashes
  BY DEF Continue, ContinueMixing
<1> HIDE DEF S, M, R
<1>4. ListOK(Worker, S, M, Stored', DOMAIN prop')
  BY <1>2, ListGrow
<1>5. /\ ListOK(Worker, X, M, Stored', DOMAIN prop') /\ X \in Seq(Statement) /\ ToSet(X) = {x}
  <2>1. StatementOK(Worker, M, Stored', DOMAIN prop', x)
    BY DEF StatementOK, Owned, Linking, Candidates, Carriers
  <2>2. x.do \notin Linking \cup {"fixture"} /\ x.do \notin Candidates
    BY DEF Linking, Candidates
  <2> QED BY <2>1, <2>2, SingleOK
<1>6. R = S \o X /\ ToSet(R) = ToSet(S) \cup {x}
  BY <1>2, AppendSet DEF R
<1> HIDE DEF X
<1>7. ListOK(Worker, R, M, Stored', DOMAIN prop') /\ R \in Seq(Statement)
  <2>1. \A y \in ToSet(S), z \in ToSet(X) : MayPrecede(y.do, z.do)
    BY <1>5 DEF S
  <2>2. S \in Seq(Statement) /\ X \in Seq(Statement)
        /\ ListOK(Worker, X, M, Stored', DOMAIN prop')
    BY <1>2, <1>5
  <2>3. ListOK(Worker, S \o X, M, Stored', DOMAIN prop') /\ S \o X \in Seq(Statement)
    BY <1>4, <2>1, <2>2, ListJoin
  <2> QED BY <1>6, <2>3
<1> DEFINE N == {x}
           y == Current(Worker)
           others == {}
<1>8. /\ Todo(Worker) \subseteq ToSet(R) \cup {y} /\ ToSet(R) \subseteq Todo(Worker) \cup N
      /\ op[Worker].mine \subseteq M /\ M \subseteq Stored' /\ Stored \subseteq Stored'
      /\ ContinueMixing(Worker, M, R, others)
  BY <1>2, <1>3, <1>6 DEF M
<1> HIDE DEF N, y, others
<1>9. /\ OpTypes' /\ OpNames' /\ ListsOK' /\ Exclusive'
      /\ Moves(Worker, y, N, R, M) /\ mixed' \subseteq mixed \cup M \cup others
      /\ reviewed' = reviewed
  BY <1>1, <1>2, <1>7, <1>8, ListMoves
<1>10. mixed' \subseteq mixed \cup Stored
  BY <1>2, <1>9 DEF others
<1> QED BY <1>3, <1>9, <1>10 DEF N, y, S, M, R

LEMMA ProposeShape ==
    ASSUME MemoryShape, Propose
    PROVE  \E x \in Statement :
           LET p == Len(prop) + 1 IN
           /\ MemoryShape' /\ crashes' = crashes /\ UNCHANGED <<mem, facts, node>>
           /\ op[Worker].todo # <<>> /\ Current(Worker).do \in {"propose", "invalid"}
           /\ Current(Worker) \in Todo(Worker)
           /\ Moves(Worker, Current(Worker), {x}, Append(Tail(op[Worker].todo), x),
                    op[Worker].mine)
           /\ x.do = "settle" /\ x.p = p
           /\ DOMAIN prop' = DOMAIN prop \cup {p} /\ p \notin DOMAIN prop /\ p \in Props
           /\ \A q \in DOMAIN prop : prop'[q] = prop[q]
           /\ prop'[p].status = "pending" /\ prop'[p].seen = Stored
           /\ prop'[p].known = {m \in Active : HasActiveFact(m)}
           /\ prop'[p].action = "create_new" =>
                 SameText(prop'[p].content) = {} /\ ~ConflictingFact(prop'[p].content)
<1> DEFINE s == Current(Worker)
           c == s.c
           p == Len(prop) + 1
           x == ForProposal("settle", p)
           known == {m \in Active : HasActiveFact(m)}
<1>1. Worker \in Callers /\ "settle" \in Deeds
  BY DEF Callers, Deeds
<1>2. op[Worker].todo # <<>> /\ s.do \in {"propose", "invalid"}
  BY AtIs DEF Propose
<1>3. PICK action, evidence :
         /\ Insert(c, action, evidence) /\ evidence \in BOOLEAN
         /\ action \in {"create_new", "noop_duplicate", "needs_review", "review_similar"}
         /\ action = "create_new" => SameText(c) = {} /\ ~ConflictingFact(c)
  <2>1. CASE At(Worker, "invalid") /\ Insert(c, "needs_review", FALSE)
    <3>1. /\ FALSE \in BOOLEAN /\ "needs_review" # "create_new"
          /\ "needs_review" \in {"create_new", "noop_duplicate", "needs_review",
                                "review_similar"}
      OBVIOUS
    <3> QED BY <2>1, <3>1, Zenon
  <2>2. CASE At(Worker, "propose") /\ \E similar, evidence \in BOOLEAN :
               Insert(c, Preflight(c, similar), evidence)
    <3>1. PICK similar, evidence \in BOOLEAN : Insert(c, Preflight(c, similar), evidence)
      BY <2>2
    <3>2. /\ Preflight(c, similar) \in {"create_new", "noop_duplicate", "needs_review",
                                        "review_similar"}
          /\ Preflight(c, similar) = "create_new" => SameText(c) = {} /\ ~ConflictingFact(c)
      BY DEF Preflight
    <3> QED BY <3>1, <3>2
  <2> QED BY <2>1, <2>2 DEF Propose
<1>4. /\ StatementOK(Worker, op[Worker].mine, Stored, DOMAIN prop, s)
      /\ s \in Todo(Worker) /\ op[Worker].mine = {}
      /\ \A y \in ToSet(Tail(op[Worker].todo)) : MayPrecede(s.do, y.do)
      /\ ListOK(Worker, Tail(op[Worker].todo), op[Worker].mine, Stored, DOMAIN prop)
  <2>1. s.do \in Candidates
    BY <1>2 DEF Candidates
  <2> QED BY <1>1, <1>2, <2>1, HeadIs
<1>5. c \in Contents
  BY <1>2, <1>4 DEF StatementOK, Candidates
<1>6. /\ p \in Props /\ prop' = Append(prop, NewProposal(c, action, evidence))
      /\ Continue(Worker, {}, Append(Tail(op[Worker].todo), x)) /\ UNCHANGED <<mem, facts, node>>
  BY <1>3 DEF Insert
<1>7. x \in Statement /\ x.do = "settle" /\ x.p = p
  BY <1>1, <1>6, ForProposalIs
<1>8. /\ prop \in Seq(ProposalRow) /\ Len(prop) \in Nat /\ MaxProposals \in Nat
      /\ Stored \subseteq Ids /\ RowNames
  BY StoredIds, BoundsAssumption DEF MemoryShape, RowTypes
<1>9. Active \subseteq Stored
  BY DEF Active
<1>10. NewProposal(c, action, evidence) \in ProposalRow
  BY <1>3, <1>5, <1>8, <1>9 DEF NewProposal, ProposalRow
<1>11. /\ prop' \in Seq(ProposalRow) /\ Len(prop') = p /\ Len(prop') <= MaxProposals
       /\ DOMAIN prop' = DOMAIN prop \cup {p} /\ p \notin DOMAIN prop
       /\ \A q \in DOMAIN prop : prop'[q] = prop[q]
       /\ prop'[p] = NewProposal(c, action, evidence)
  <2> DEFINE r == NewProposal(c, action, evidence)
  <2>1. r \in ProposalRow /\ prop' = Append(prop, r)
    BY <1>6, <1>10
  <2> HIDE DEF r
  <2>2. /\ prop' \in Seq(ProposalRow) /\ Len(prop') = p /\ prop'[p] = r
        /\ \A q \in 1..Len(prop) : prop'[q] = prop[q]
    BY <1>8, <2>1
  <2>3. p <= MaxProposals
    BY <1>6, <1>8 DEF Props
  <2>4. DOMAIN prop = 1..Len(prop) /\ DOMAIN prop' = 1..p
    BY <1>8, <2>2
  <2>5. 1..p = (1..Len(prop)) \cup {p} /\ p \notin 1..Len(prop)
    BY <1>8
  <2> QED BY <2>2, <2>3, <2>4, <2>5 DEF r
<1> HIDE DEF s, c, p, x
<1>12. /\ prop'[p].status = "pending" /\ prop'[p].seen = Stored /\ prop'[p].known = known
       /\ prop'[p].content = c /\ prop'[p].action = action
  BY <1>11 DEF NewProposal
<1>13. /\ RowTypes' /\ Stored' = Stored
       /\ mixed' \subseteq Stored /\ reviewed' \subseteq Stored => RowNames'
  <2>1. \A q \in DOMAIN prop' : prop'[q].seen \subseteq Stored /\ prop'[q].known \subseteq Stored
    BY <1>8, <1>9, <1>11, <1>12 DEF RowNames
  <2>2. DOMAIN prop \subseteq DOMAIN prop'
    BY <1>11
  <2> QED BY <1>6, <1>11, <2>1, <2>2, ProposalRows
<1>14. \A y \in ToSet(Tail(op[Worker].todo)) : MayPrecede(y.do, x.do)
  <2> SUFFICES ASSUME NEW y \in ToSet(Tail(op[Worker].todo)) PROVE MayPrecede(y.do, x.do)
    OBVIOUS
  <2>1. MayPrecede(s.do, y.do) /\ StatementOK(Worker, op[Worker].mine, Stored, DOMAIN prop, y)
    BY <1>4 DEF ListOK
  <2>2. y.do # "restore" /\ y.do # "decide"
    BY <1>2, <2>1, CallersAssumption DEF StatementOK, MayPrecede, Candidates
  <2> QED BY <1>7, <2>2 DEF MayPrecede, Linking, Candidates
<1>15. /\ OpTypes' /\ OpNames' /\ ListsOK' /\ Exclusive' /\ crashes' = crashes
       /\ Moves(Worker, Current(Worker), {x}, Append(Tail(op[Worker].todo), x),
                op[Worker].mine)
       /\ mixed' \subseteq mixed \cup Stored /\ reviewed' = reviewed
  <2>1. /\ x.do \in {"settle", "decide"} /\ x.p \in DOMAIN prop'
        /\ Stored' = Stored /\ DOMAIN prop \subseteq DOMAIN prop'
        /\ Continue(Worker, op[Worker].mine, Append(Tail(op[Worker].todo), x))
    BY <1>4, <1>6, <1>7, <1>11, <1>13
  <2> QED BY <1>2, <1>7, <1>14, <2>1, AppendMoves
<1>16. RowNames'
  BY <1>8, <1>13, <1>15 DEF RowNames
<1>17. MemoryShape'
  BY <1>13, <1>15, <1>16 DEF MemoryShape
<1>18. prop'[p].action = "create_new" =>
          SameText(prop'[p].content) = {} /\ ~ConflictingFact(prop'[p].content)
  BY <1>3, <1>12
<1> QED BY <1>2, <1>4, <1>6, <1>7, <1>11, <1>12, <1>15, <1>17, <1>18 DEF s, p

\* What applies a proposal.
LEMMA ApplyIs ==
    ASSUME MemoryShape, NEW p \in DOMAIN prop, NEW M
    PROVE  LET x == StoreText(prop[p].content, p, prop[p].seen)
               y == ForProposal("applied_create", p) IN
           /\ Apply(p) = <<x, y>> /\ Apply(p) \in Seq(Statement) /\ ToSet(Apply(p)) = {x, y}
           /\ ListOK(Worker, Apply(p), M, Stored, DOMAIN prop)
           /\ x.do = "store" /\ x.c = prop[p].content /\ x.p = p /\ x.set = prop[p].seen
           /\ y.do = "applied_create" /\ y.p = p
<1> DEFINE x == StoreText(prop[p].content, p, prop[p].seen)
           y == ForProposal("applied_create", p)
           R == Apply(p)
<1>1. prop \in Seq(ProposalRow) /\ prop[p] \in ProposalRow
  BY DEF MemoryShape, RowTypes
<1>2. p \in Props /\ p \in Nat /\ p # Nobody
  <2>1. Len(prop) \in Nat /\ DOMAIN prop = 1..Len(prop) /\ Len(prop) <= MaxProposals
        /\ MaxProposals \in Nat
    BY <1>1, BoundsAssumption DEF MemoryShape, RowTypes
  <2> QED BY <2>1 DEF Props, Nobody
<1>3. /\ prop[p].content \in Contents /\ prop[p].seen \in SUBSET Ids
      /\ prop[p].seen \subseteq Stored
  BY <1>1 DEF ProposalRow, MemoryShape, RowNames
<1>4. /\ x \in Statement /\ x.do = "store" /\ x.c = prop[p].content /\ x.p = p
      /\ x.set = prop[p].seen
  BY <1>2, <1>3, StoreTextIs
<1>5. y \in Statement /\ y.do = "applied_create" /\ y.p = p
  <2>1. "applied_create" \in Deeds
    BY DEF Deeds
  <2> QED BY <1>2, <2>1, ForProposalIs
<1>6. R = <<x, y>>
  BY DEF Apply
<1> HIDE DEF x, y, R
<1>7. ToSet(R) = {x, y}
  BY <1>6 DEF ToSet
<1>8. R \in Seq(Statement) /\ Len(R) = 2 /\ R[1] = x /\ R[2] = y
  BY <1>4, <1>5, <1>6
<1>9. /\ StatementOK(Worker, M, Stored, DOMAIN prop, x)
      /\ StatementOK(Worker, M, Stored, DOMAIN prop, y)
  BY <1>3, <1>4, <1>5 DEF StatementOK, Owned, Linking, Candidates, Carriers
<1>10. Ordered(R)
  <2>1. MayPrecede("store", "applied_create")
    BY DEF MayPrecede, Linking, Candidates
  <2>2. \A i, j \in 1..Len(R) : i < j => i = 1 /\ j = 2
    BY <1>8
  <2> QED BY <1>4, <1>5, <1>8, <2>1, <2>2 DEF Ordered
<1>11. ListOK(Worker, R, M, Stored, DOMAIN prop)
  BY <1>4, <1>5, <1>7, <1>9, <1>10 DEF ListOK, Linking, Candidates
<1> QED BY <1>4, <1>5, <1>6, <1>7, <1>8, <1>11 DEF x, y, R

\* A settled proposal is archived, applied or left for the resolver.
LEMMA SettleShape ==
    ASSUME MemoryShape, Settle
    PROVE  LET s == Current(Worker)
               p == s.p
               S == Tail(op[Worker].todo)
               M == op[Worker].mine
               x == ForProposal("decide", p) IN
           /\ MemoryShape' /\ crashes' = crashes /\ UNCHANGED <<mem, facts, node>>
           /\ op[Worker].todo # <<>> /\ s.do = "settle" /\ s \in Todo(Worker)
           /\ p \in DOMAIN prop
           /\ DOMAIN prop' = DOMAIN prop
           /\ \A q \in DOMAIN prop \ {p} : prop'[q].status = prop[q].status
           /\ \A q \in DOMAIN prop : /\ prop'[q].content = prop[q].content
                                     /\ prop'[q].action = prop[q].action
                                     /\ prop'[q].seen = prop[q].seen
                                     /\ prop'[q].known = prop[q].known
           /\ \/ /\ Moves(Worker, s, {}, S, M) /\ prop'[p].status = "archived_noop_duplicate"
              \/ /\ Moves(Worker, s, ToSet(Apply(p)), Apply(p) \o S, M) /\ prop' = prop
                 /\ prop[p].action = "create_new"
              \/ /\ Moves(Worker, s, {x}, Append(S, x), M) /\ prop' = prop
                 /\ x.do = "decide" /\ x.p = p
<1> DEFINE s == Current(Worker)
           p == s.p
           S == Tail(op[Worker].todo)
           M == op[Worker].mine
           x == ForProposal("decide", p)
           Kept == \A q \in DOMAIN prop : /\ prop'[q].content = prop[q].content
                                          /\ prop'[q].action = prop[q].action
                                          /\ prop'[q].seen = prop[q].seen
                                          /\ prop'[q].known = prop[q].known
           Names == mixed' \subseteq Stored /\ reviewed' \subseteq Stored => RowNames'
<1>1. Worker \in Callers /\ "decide" \in Deeds
  BY DEF Callers, Deeds
<1>2. op[Worker].todo # <<>> /\ s.do = "settle" /\ UNCHANGED <<mem, facts, node>>
  BY AtIs DEF Settle
<1>3. /\ StatementOK(Worker, M, Stored, DOMAIN prop, s) /\ s \in Statement
      /\ s \in Todo(Worker) /\ M \subseteq Stored /\ M \in SUBSET Ids
      /\ \A y \in ToSet(S) : MayPrecede("settle", y.do)
      /\ ListOK(Worker, S, M, Stored, DOMAIN prop)
  BY <1>1, <1>2, HeadIs
<1>4. p \in DOMAIN prop
  BY <1>2, <1>3 DEF StatementOK, Carriers
<1>5. Stored' = Stored
  BY <1>2 DEF Stored
<1>6. \/ /\ prop' = [prop EXCEPT ![p].status = "archived_noop_duplicate"] /\ Step(Worker)
      \/ /\ Continue(Worker, M, Apply(p) \o S) /\ prop' = prop
         /\ prop[p].action = "create_new"
      \/ Continue(Worker, M, Append(S, x)) /\ prop' = prop
  BY DEF Settle, SafeAutoCreate
<1>7. prop' = prop => RowTypes' /\ Names /\ Kept
  <2>1. RowTypes /\ RowNames
    BY DEF MemoryShape
  <2> QED BY <1>2, <1>5, <2>1 DEF RowTypes, RowNames
<1> HIDE DEF s, p, S, M, x, Kept, Names
<1>8. CASE prop' = [prop EXCEPT ![p].status = "archived_noop_duplicate"] /\ Step(Worker)
  <2>1. /\ RowTypes' /\ Stored' = Stored /\ DOMAIN prop' = DOMAIN prop
        /\ Names /\ prop'[p].status = "archived_noop_duplicate" /\ Kept
        /\ \A q \in DOMAIN prop \ {p} : prop'[q].status = prop[q].status
    BY <1>2, <1>4, <1>8, StatusRow DEF Kept, Names
  <2>2. /\ MemoryShape' /\ crashes' = crashes
        /\ Moves(Worker, Current(Worker), {}, Tail(op[Worker].todo), op[Worker].mine)
    BY <1>1, <1>2, <1>8, <2>1, PlainStep DEF Names
  <2> QED BY <1>2, <1>3, <1>4, <2>1, <2>2 DEF s, p, S, M, Kept
<1>9. CASE /\ Continue(Worker, M, Apply(p) \o S) /\ prop' = prop
           /\ prop[p].action = "create_new"
  <2> DEFINE P == Apply(p)
  <2>1. /\ P \in Seq(Statement) /\ ListOK(Worker, P, M, Stored, DOMAIN prop)
        /\ \A y \in ToSet(P) : y.do \in {"store", "applied_create"}
    BY <1>4, ApplyIs
  <2> HIDE DEF P
  <2>2. \A y \in ToSet(P), z \in ToSet(S) : MayPrecede(y.do, z.do)
    BY <1>3, <2>1 DEF MayPrecede, Linking, Candidates
  <2>3. /\ M \subseteq Stored' /\ Stored \subseteq Stored' /\ DOMAIN prop \subseteq DOMAIN prop'
        /\ ListOK(Worker, P, M, Stored', DOMAIN prop') /\ Continue(Worker, M, P \o S)
        /\ M = op[Worker].mine /\ op[Worker].mine \subseteq M
    BY <1>3, <1>5, <1>9, <2>1 DEF M, P
  <2>4. /\ OpTypes' /\ OpNames' /\ ListsOK' /\ Exclusive'
        /\ Moves(Worker, s, ToSet(P), P \o S, M)
        /\ mixed' \subseteq mixed \cup M /\ reviewed' = reviewed
    BY <1>1, <1>2, <1>3, <2>1, <2>2, <2>3, PrefixMoves DEF s, S
  <2>5. crashes' = crashes
    BY <1>9 DEF Continue, ContinueMixing
  <2>6. RowTypes' /\ RowNames' /\ Kept
    <3>1. mixed' \subseteq Stored /\ reviewed' \subseteq Stored
      BY <1>3, <2>4 DEF MemoryShape, RowNames
    <3> QED BY <1>7, <1>9, <3>1 DEF Names
  <2>7. MemoryShape'
    BY <2>4, <2>6 DEF MemoryShape
  <2> QED BY <1>2, <1>3, <1>4, <1>9, <2>4, <2>5, <2>6, <2>7 DEF s, p, S, M, Kept, P
<1>10. CASE Continue(Worker, M, Append(S, x)) /\ prop' = prop
  <2>1. x \in Statement /\ x.do = "decide" /\ x.p = p
    <3>1. p \in Props
      <4>1. DOMAIN prop = 1..Len(prop) /\ Len(prop) <= MaxProposals /\ Len(prop) \in Nat
            /\ MaxProposals \in Nat
        BY BoundsAssumption DEF MemoryShape, RowTypes
      <4> QED BY <1>4, <4>1 DEF Props
    <3> QED BY <1>1, <3>1, ForProposalIs DEF x
  <2>2. \A y \in ToSet(S) : MayPrecede(y.do, x.do)
    <3> SUFFICES ASSUME NEW y \in ToSet(S) PROVE MayPrecede(y.do, x.do)
      OBVIOUS
    <3>1. MayPrecede("settle", y.do) /\ StatementOK(Worker, M, Stored, DOMAIN prop, y)
      BY <1>3 DEF ListOK
    <3>2. y.do # "restore" /\ y.do \notin Candidates
      BY <3>1, CallersAssumption DEF StatementOK, MayPrecede, Candidates
    <3> QED BY <2>1, <3>2 DEF MayPrecede, Linking, Candidates
  <2>3. /\ x.do \in {"settle", "decide"} /\ x.p \in DOMAIN prop'
        /\ DOMAIN prop \subseteq DOMAIN prop'
    BY <1>4, <1>10, <2>1
  <2>4. /\ OpTypes' /\ OpNames' /\ ListsOK' /\ Exclusive' /\ crashes' = crashes
        /\ Moves(Worker, Current(Worker), {x}, Append(Tail(op[Worker].todo), x),
                 op[Worker].mine)
        /\ mixed' \subseteq mixed \cup Stored /\ reviewed' = reviewed
    BY <1>2, <1>5, <1>10, <2>1, <2>2, <2>3, AppendMoves DEF S, M
  <2>5. RowTypes' /\ RowNames' /\ Kept
    <3>1. mixed' \subseteq Stored /\ reviewed' \subseteq Stored
      BY <2>4 DEF MemoryShape, RowNames
    <3> QED BY <1>7, <1>10, <3>1 DEF Names
  <2>6. MemoryShape'
    BY <2>4, <2>5 DEF MemoryShape
  <2> QED BY <1>2, <1>3, <1>4, <1>10, <2>1, <2>4, <2>5, <2>6 DEF s, p, S, M, x, Kept
<1> QED BY <1>6, <1>8, <1>9, <1>10

\* The resolver's decisions come in any order.
LEMMA DecideShape ==
    ASSUME MemoryShape, NEW i \in DOMAIN op[Worker].todo, NEW outcome \in Outcomes,
           NEW confident \in BOOLEAN, Decide(i, outcome, confident)
    PROVE  LET s == op[Worker].todo[i]
               p == s.p
               S == RemoveAt(op[Worker].todo, i)
               M == op[Worker].mine IN
           /\ MemoryShape' /\ crashes' = crashes /\ UNCHANGED <<mem, facts, node>>
           /\ op[Worker].todo # <<>> /\ \A y \in Todo(Worker) : y.do = "decide"
           /\ s \in Todo(Worker) /\ i \in 1..Len(op[Worker].todo)
           /\ p \in DOMAIN prop
           /\ DOMAIN prop' = DOMAIN prop
           /\ \A q \in DOMAIN prop \ {p} : prop'[q].status = prop[q].status
           /\ \A q \in DOMAIN prop : /\ prop'[q].content = prop[q].content
                                     /\ prop'[q].action = prop[q].action
                                     /\ prop'[q].seen = prop[q].seen
                                     /\ prop'[q].known = prop[q].known
           /\ \/ /\ Moves(Worker, s, {}, S, M)
                 /\ prop'[p].status \in {"archived_noop_duplicate", "archived_rejected",
                                         "pending_review"}
              \/ /\ Moves(Worker, s, ToSet(Apply(p)), Apply(p) \o S, M) /\ prop' = prop
                 /\ prop[p].action = "create_new"
<1> DEFINE T == op[Worker].todo
           s == T[i]
           p == s.p
           S == RemoveAt(T, i)
           M == op[Worker].mine
           Kept == \A q \in DOMAIN prop : /\ prop'[q].content = prop[q].content
                                          /\ prop'[q].action = prop[q].action
                                          /\ prop'[q].seen = prop[q].seen
                                          /\ prop'[q].known = prop[q].known
           Names == mixed' \subseteq Stored /\ reviewed' \subseteq Stored => RowNames'
<1>1. Worker \in Callers
  BY DEF Callers
<1>2. T # <<>> /\ Current(Worker).do = "decide" /\ UNCHANGED <<mem, facts, node>>
  BY AtIs DEF Decide
<1>3. /\ T \in Seq(Statement) /\ M \subseteq Stored /\ M \in SUBSET Ids
      /\ \A y \in ToSet(Tail(T)) : MayPrecede("decide", y.do)
      /\ Todo(Worker) = ToSet(Tail(T)) \cup {Current(Worker)}
  BY <1>1, <1>2, HeadIs
<1>4. ListOK(Worker, T, M, Stored, DOMAIN prop)
  BY <1>1 DEF MemoryShape, ListsOK
<1>5. \A y \in Todo(Worker) : y.do = "decide"
  BY <1>2, <1>3 DEF MayPrecede
<1>6. i \in 1..Len(T)
  BY <1>3
<1>7. \/ /\ Continue(Worker, M, Apply(p) \o S) /\ prop' = prop
         /\ prop[p].action = "create_new"
      \/ /\ Continue(Worker, M, S) /\ prop' = [prop EXCEPT ![p].status = Archived(outcome)]
  BY DEF Decide, LLMCanApplyCreate
<1>8. Archived(outcome) \in {"archived_noop_duplicate", "archived_rejected", "pending_review"}
  BY DEF Archived, Outcomes
<1> HIDE DEF T
<1>9. /\ S \in Seq(Statement) /\ ToSet(S) \subseteq ToSet(T) /\ s \in ToSet(T)
      /\ ToSet(T) = ToSet(S) \cup {s}
  BY <1>3, <1>6, RemoveAtIs, WithoutSet
<1>10. Todo(Worker) = ToSet(T)
  BY DEF Todo, T
<1>11. ListOK(Worker, S, M, Stored, DOMAIN prop)
  BY <1>3, <1>4, <1>5, <1>6, <1>10, ListWithout
<1>12. p \in DOMAIN prop /\ s \in Todo(Worker)
  BY <1>4, <1>5, <1>9, <1>10 DEF ListOK, StatementOK, Carriers
<1>13. Stored' = Stored
  BY <1>2 DEF Stored
<1>14. prop' = prop => RowTypes' /\ Names /\ Kept
  <2>1. RowTypes /\ RowNames
    BY DEF MemoryShape
  <2> QED BY <1>2, <1>13, <2>1 DEF RowTypes, RowNames
<1>15. crashes' = crashes
  BY <1>7 DEF Continue, ContinueMixing
<1> HIDE DEF s, p, S, M, Kept, Names
<1>16. ASSUME NEW R \in Seq(Statement), NEW N, Continue(Worker, M, R),
              Todo(Worker) \subseteq ToSet(R) \cup {s}, ToSet(R) \subseteq Todo(Worker) \cup N,
              DOMAIN prop' = DOMAIN prop, ListOK(Worker, R, M, Stored, DOMAIN prop)
       PROVE  /\ OpTypes' /\ OpNames' /\ ListsOK' /\ Exclusive' /\ Moves(Worker, s, N, R, M)
              /\ mixed' \subseteq Stored /\ reviewed' \subseteq Stored
  <2> DEFINE others == {}
  <2>1. /\ ContinueMixing(Worker, M, R, others) /\ op[Worker].mine \subseteq M
        /\ M \subseteq Stored' /\ Stored \subseteq Stored' /\ DOMAIN prop \subseteq DOMAIN prop'
        /\ ListOK(Worker, R, M, Stored', DOMAIN prop') /\ op[Worker].todo # <<>>
    BY <1>2, <1>3, <1>13, <1>16 DEF Continue, M, T
  <2> HIDE DEF others
  <2>2. /\ OpTypes' /\ OpNames' /\ ListsOK' /\ Exclusive' /\ Moves(Worker, s, N, R, M)
        /\ mixed' \subseteq mixed \cup M \cup others /\ reviewed' = reviewed
    BY <1>1, <1>3, <1>16, <2>1, ListMoves
  <2>3. mixed \subseteq Stored /\ reviewed \subseteq Stored
    BY DEF MemoryShape, RowNames
  <2> QED BY <1>3, <2>2, <2>3 DEF others
<1>17. CASE Continue(Worker, M, S) /\ prop' = [prop EXCEPT ![p].status = Archived(outcome)]
  <2> DEFINE status == Archived(outcome)
  <2>1. status \in {"pending", "pending_review", "applied_create",
                    "archived_noop_duplicate", "archived_rejected"}
    BY <1>8
  <2>2. prop' = [prop EXCEPT ![p].status = status]
    BY <1>17
  <2> HIDE DEF status
  <2>3. /\ RowTypes' /\ Stored' = Stored /\ DOMAIN prop' = DOMAIN prop
        /\ Names /\ prop'[p].status = status /\ Kept
        /\ \A q \in DOMAIN prop \ {p} : prop'[q].status = prop[q].status
    BY <1>2, <1>12, <2>1, <2>2, StatusRow DEF Kept, Names
  <2>4. /\ OpTypes' /\ OpNames' /\ ListsOK' /\ Exclusive' /\ Moves(Worker, s, {}, S, M)
        /\ mixed' \subseteq Stored /\ reviewed' \subseteq Stored
    BY <1>9, <1>10, <1>11, <1>16, <1>17, <2>3
  <2>5. MemoryShape'
    BY <2>3, <2>4 DEF MemoryShape, Names
  <2>6. prop'[p].status \in {"archived_noop_duplicate", "archived_rejected", "pending_review"}
    BY <1>8, <2>3 DEF status
  <2> QED BY <1>2, <1>5, <1>6, <1>12, <1>15, <2>3, <2>4, <2>5, <2>6 DEF s, p, S, M, T, Kept
<1>18. CASE /\ Continue(Worker, M, Apply(p) \o S) /\ prop' = prop
            /\ prop[p].action = "create_new"
  <2> DEFINE P == Apply(p)
             R == P \o S
             N == ToSet(P)
  <2>1. /\ P \in Seq(Statement) /\ ListOK(Worker, P, M, Stored, DOMAIN prop)
        /\ \A y \in ToSet(P) : y.do \in {"store", "applied_create"}
    BY <1>12, ApplyIs
  <2> HIDE DEF P
  <2>2. \A y \in ToSet(P), z \in ToSet(S) : MayPrecede(y.do, z.do)
    BY <1>5, <1>9, <1>10, <2>1 DEF MayPrecede, Linking, Candidates
  <2>3. /\ R \in Seq(Statement) /\ ListOK(Worker, R, M, Stored, DOMAIN prop)
        /\ ToSet(R) = ToSet(P) \cup ToSet(S)
    <3>1. P \in Seq(Statement) /\ S \in Seq(Statement)
          /\ ListOK(Worker, P, M, Stored, DOMAIN prop)
          /\ ListOK(Worker, S, M, Stored, DOMAIN prop)
      BY <1>9, <1>11, <2>1
    <3> QED BY ONLY <2>2, <3>1, ListJoin
  <2>4. Continue(Worker, M, R)
    BY <1>18 DEF P
  <2> HIDE DEF R, N
  <2>5. Todo(Worker) \subseteq ToSet(R) \cup {s} /\ ToSet(R) \subseteq Todo(Worker) \cup N
    BY <1>9, <1>10, <2>3 DEF N
  <2>6. /\ OpTypes' /\ OpNames' /\ ListsOK' /\ Exclusive' /\ Moves(Worker, s, N, R, M)
        /\ mixed' \subseteq Stored /\ reviewed' \subseteq Stored
    BY <1>16, <1>18, <2>3, <2>4, <2>5
  <2>7. MemoryShape' /\ Kept
    BY <1>14, <1>18, <2>6 DEF MemoryShape, Names
  <2> QED BY <1>2, <1>5, <1>6, <1>12, <1>15, <1>18, <2>6, <2>7 DEF s, p, S, M, T, Kept, P, R, N
<1> QED BY <1>7, <1>17, <1>18

-----------------------------------------------------------------------------
(* The operator and crashes *)

LEMMA FixtureShape ==
    ASSUME MemoryShape, DeprecateFixture
    PROVE  LET s == Current(Operator)
               m == s.m
               S == Tail(op[Operator].todo) IN
           /\ MemoryShape' /\ crashes' = crashes /\ UNCHANGED <<facts, node, prop>>
           /\ op[Operator].todo # <<>> /\ s.do = "fixture" /\ s \in Todo(Operator)
           /\ m \in Stored /\ m \in op[Operator].mine
           /\ \/ /\ mem' = Lifecycle(m, Nobody, "deprecated")
                 /\ Moves(Operator, s, {Retire(m, Nobody)}, <<Retire(m, Nobody)>> \o S,
                          op[Operator].mine)
                 /\ Has(op[Operator].todo, {"sync"}, m)
              \/ /\ mem' = mem /\ Forgets({Operator})
<1> DEFINE s == Current(Operator)
           m == s.m
           S == Tail(op[Operator].todo)
           M == op[Operator].mine
           x == Retire(m, Nobody)
           P == <<x>>
<1>1. Operator \in Callers
  BY DEF Callers
<1>2. /\ op[Operator].todo # <<>> /\ s.do = "fixture" /\ UNCHANGED <<facts, node, prop>>
  BY AtIs DEF DeprecateFixture
<1>3. /\ StatementOK(Operator, M, Stored, DOMAIN prop, s) /\ s \in Statement
      /\ s \in Todo(Operator) /\ M \subseteq Stored /\ M \in SUBSET Ids
      /\ \A y \in ToSet(S) : MayPrecede("fixture", y.do)
      /\ s.do \in Linking \cup {"fixture"} => Has(op[Operator].todo, {"sync"}, m)
  BY <1>1, <1>2, HeadIs
<1>4. m \in Stored /\ m \in M /\ m \in Ids /\ Has(op[Operator].todo, {"sync"}, m)
  BY <1>2, <1>3 DEF StatementOK, Owned
<1>5. \/ /\ mem' = Lifecycle(m, Nobody, "deprecated") /\ Continue(Operator, M, P \o S)
      \/ /\ op' = [op EXCEPT ![Operator] = Idle] /\ mixed' = mixed \cup M
         /\ UNCHANGED <<mem, reviewed, begun, crashes>>
  BY DEF DeprecateFixture
<1>6. crashes' = crashes /\ reviewed' = reviewed
  BY <1>5 DEF Continue, ContinueMixing
<1>7. RowTypes /\ RowNames /\ OpTypes /\ OpNames /\ ListsOK /\ Exclusive
  BY DEF MemoryShape
<1> HIDE DEF s, m, S, M, x, P
<1>8. CASE /\ mem' = Lifecycle(m, Nobody, "deprecated") /\ Continue(Operator, M, P \o S)
  <2>1. /\ "deprecated" \in Statuses /\ Nobody \in (Stored \cup {Nobody}) \ {m}
        /\ Nobody \in Ids \cup {Nobody}
    BY <1>4 DEF Statuses, Ids, Nobody
  <2>2. Stored' = Stored
    BY <1>4, <1>7, <1>8, <2>1, LifecycleIs
  <2>3. x \in Statement /\ x.do = "retire" /\ x.m = m
    BY <1>4, <2>1, DeedsAre DEF x
  <2>4. /\ ListOK(Operator, P, M, Stored, DOMAIN prop) /\ P \in Seq(Statement)
        /\ ToSet(P) = {x}
    <3>1. StatementOK(Operator, M, Stored, DOMAIN prop, x)
      BY <1>4, <2>3 DEF StatementOK, Owned, Linking, Candidates, Carriers
    <3>2. x.do \notin Linking \cup {"fixture"} /\ x.do \notin Candidates
      BY <2>3 DEF Linking, Candidates
    <3> QED BY <2>3, <3>1, <3>2, SingleOK DEF P
  <2>5. \A y \in ToSet(P), z \in ToSet(S) : MayPrecede(y.do, z.do)
    BY <1>3, <2>3, <2>4 DEF MayPrecede, Linking, Candidates
  <2>6. /\ M \subseteq Stored' /\ Stored \subseteq Stored' /\ DOMAIN prop \subseteq DOMAIN prop'
        /\ ListOK(Operator, P, M, Stored', DOMAIN prop')
        /\ M = op[Operator].mine /\ op[Operator].mine \subseteq M
    BY <1>2, <1>3, <2>2, <2>4 DEF M
  <2>7. /\ OpTypes' /\ OpNames' /\ ListsOK' /\ Exclusive'
        /\ Moves(Operator, s, ToSet(P), P \o S, M)
        /\ mixed' \subseteq mixed \cup M /\ reviewed' = reviewed
    BY <1>1, <1>2, <1>3, <1>8, <2>4, <2>5, <2>6, PrefixMoves DEF s, S
  <2>8. RowTypes' /\ RowNames'
    <3>1. mixed' \subseteq mixed \cup Stored
      BY <1>3, <2>7
    <3> QED BY <1>2, <1>4, <1>6, <1>8, <2>1, <3>1, LifecycleRows
  <2>9. MemoryShape' /\ Moves(Operator, s, {x}, P \o S, M)
    BY <2>4, <2>7, <2>8 DEF MemoryShape
  <2> QED BY <1>2, <1>3, <1>4, <1>6, <1>8, <2>9 DEF s, m, S, M, x, P
<1>9. CASE /\ op' = [op EXCEPT ![Operator] = Idle] /\ mixed' = mixed \cup M
           /\ UNCHANGED <<mem, reviewed, begun, crashes>>
  <2>1. /\ op'[Operator] = Idle /\ \A d \in Callers \ {Operator} : op'[d] = op[d]
        /\ Idle.todo = <<>> /\ Idle.mine = {} /\ Idle.kind = "idle"
    BY <1>1, <1>7, <1>9 DEF OpTypes, Idle
  <2>2. Forgets({Operator})
    BY <1>1, <1>9, <2>1 DEF Forgets, M
  <2>3. OpTypes'
    BY <1>1, <1>7, <1>9 DEF OpTypes, Idle, Kinds
  <2>4. Stored' = Stored /\ DOMAIN prop' = DOMAIN prop
    BY <1>2, <1>9 DEF Stored
  <2> DEFINE D == {Operator}
  <2>5. Forgets(D)
    BY <2>2
  <2> HIDE DEF D
  <2>6. OpNames' /\ ListsOK' /\ Exclusive'
    BY <1>7, <2>4, <2>5, ForgetsShape
  <2>7. RowTypes' /\ RowNames'
    <3>1. mixed' \subseteq mixed \cup Stored /\ reviewed' \subseteq Stored /\ UNCHANGED store
      BY <1>2, <1>3, <1>7, <1>9 DEF RowNames, store
    <3> QED BY <3>1, RowsStay
  <2>8. MemoryShape'
    BY <2>3, <2>6, <2>7 DEF MemoryShape
  <2> QED BY <1>2, <1>3, <1>4, <1>6, <1>9, <2>2, <2>8 DEF s, m, M
<1> QED BY <1>5, <1>8, <1>9

LEMMA CrashShape ==
    ASSUME MemoryShape, Crash
    PROVE  /\ MemoryShape' /\ Forgets(Callers) /\ UNCHANGED store
           /\ crashes' = crashes + 1 /\ crashes < MaxCrashes
<1>1. /\ op' = [c \in Callers |-> Idle] /\ mixed' = mixed \cup UNION {op[c].mine : c \in Busy}
      /\ UNCHANGED store /\ reviewed' = reviewed
      /\ crashes' = crashes + 1 /\ crashes < MaxCrashes
  BY DEF Crash
<1>2. RowTypes /\ RowNames /\ OpTypes /\ OpNames /\ ListsOK /\ Exclusive
  BY DEF MemoryShape
<1>3. Idle.todo = <<>> /\ Idle.mine = {} /\ Idle.kind = "idle"
  BY DEF Idle
<1>4. \A c \in Callers : op[c].mine \subseteq mixed'
  <2> SUFFICES ASSUME NEW c \in Callers, NEW m \in op[c].mine PROVE m \in mixed'
    OBVIOUS
  <2>1. c \in Busy
    BY <1>2 DEF OpNames, Busy
  <2> QED BY <1>1, <2>1
<1>5. Busy \subseteq Callers
  BY DEF Busy
<1>6. Forgets(Callers)
  <2>1. mixed' \subseteq mixed \cup UNION {op[c].mine : c \in Callers}
    BY <1>1, <1>5
  <2> QED BY <1>1, <1>3, <1>4, <2>1 DEF Forgets
<1>7. OpTypes'
  BY <1>1 DEF OpTypes, Idle, Kinds
<1>8. Stored' = Stored /\ DOMAIN prop' = DOMAIN prop
  BY <1>1 DEF Stored, store
<1>9. OpNames' /\ ListsOK' /\ Exclusive'
  BY <1>2, <1>6, <1>8, ForgetsShape
<1>10. RowTypes' /\ RowNames'
  <2>1. \A c \in Callers : op[c].mine \subseteq Stored
    BY <1>2 DEF OpNames
  <2>2. mixed' \subseteq mixed \cup Stored /\ reviewed' \subseteq Stored
    BY <1>1, <1>2, <1>5, <2>1 DEF RowNames
  <2> QED BY <1>1, <2>2, RowsStay
<1> QED BY <1>1, <1>6, <1>7, <1>9, <1>10 DEF MemoryShape

LEMMA DryRunShape ==
    ASSUME MemoryShape, DryRun
    PROVE  MemoryShape' /\ UNCHANGED <<store, op, crashes, mixed>>
<1>1. UNCHANGED <<store, op, crashes, mixed>> /\ reviewed' = FixtureCandidates
  BY DEF DryRun
<1>2. /\ mem' = mem /\ facts' = facts /\ node' = node /\ prop' = prop
      /\ op' = op /\ mixed' = mixed
  BY <1>1 DEF store
<1>3. reviewed' \subseteq Stored
  BY <1>1 DEF FixtureCandidates, Active
<1>4. RowTypes' /\ RowNames'
  BY <1>2, <1>3 DEF MemoryShape, RowTypes, RowNames, Stored
<1>5. OpTypes' /\ OpNames' /\ Exclusive'
  BY <1>2 DEF MemoryShape, OpTypes, OpNames, Exclusive, Stored
<1>6. ListsOK'
  BY <1>2 DEF MemoryShape, ListsOK, Stored
<1> QED BY <1>1, <1>4, <1>5, <1>6 DEF MemoryShape

-----------------------------------------------------------------------------
(* The invariant at the start *)

LEMMA InitInv == Init => MemoryInv
<1> SUFFICES ASSUME Init PROVE MemoryInv
  OBVIOUS
<1> USE DEF Init
<1>1. Len(mem) = 0 /\ Stored = {} /\ Len(prop) = 0 /\ DOMAIN prop = {}
  BY DEF Stored
<1>2. RowTypes
  <2>1. mem \in Seq(MemoryRow) /\ prop \in Seq(ProposalRow)
    OBVIOUS
  <2>2. <<>> \in Seq(Statuses)
    OBVIOUS
  <2>3. MaxMemories \in Nat /\ MaxProposals \in Nat
    BY BoundsAssumption
  <2> QED BY <1>1, <2>1, <2>2, <2>3 DEF RowTypes
<1>3. OpTypes
  <2>1. <<>> \in Seq(Statement) /\ {} \in SUBSET Ids /\ FALSE \in BOOLEAN /\ "idle" \in Kinds
    BY DEF Kinds
  <2> QED BY <2>1 DEF OpTypes, Idle
<1>4. RowNames
  BY <1>1 DEF RowNames
<1>5. ASSUME NEW c \in Callers
      PROVE  /\ op[c].todo = <<>> /\ op[c].kind = "idle" /\ op[c].mine = {} /\ op[c].calm = FALSE
             /\ Todo(c) = {}
  BY <1>5 DEF Idle, Todo, ToSet
<1>6. OpNames
  BY <1>5 DEF OpNames
<1>7. ListsOK
  <2> SUFFICES ASSUME NEW c \in Callers
               PROVE  ListOK(c, op[c].todo, op[c].mine, Stored, DOMAIN prop)
    BY DEF ListsOK
  <2> DEFINE s == op[c].todo
  <2>1. ToSet(s) = {} /\ Len(s) = 0
    BY <1>5 DEF Todo
  <2> HIDE DEF s, Init
  <2>2. Ordered(s)
    BY <2>1 DEF Ordered
  <2>3. ListOK(c, s, op[c].mine, Stored, DOMAIN prop)
    BY <2>1, <2>2 DEF ListOK
  <2> QED BY <2>3 DEF s
<1>8. Exclusive
  BY <1>5 DEF Exclusive
<1>9. StatementsFresh /\ FactsInv /\ LinksInv /\ NodesInv
  BY <1>1, <1>5 DEF StatementsFresh, FactsInv, LinksInv, NodesInv
<1>10. ChecksInv
  BY <1>1, <1>5 DEF ChecksInv, TwinsOnlyFromStaleChecks, Active
<1>11. ProposalsInv
  <2>1. Worker \in Callers
    BY DEF Callers
  <2>2. op[Worker].todo = <<>> /\ Len(op[Worker].todo) = 0
    BY <1>5, <2>1
  <2> DEFINE s == op[Worker].todo
  <2>3. Len(s) = 0 /\ Todo(Worker) = {} /\ crashes \in Nat
    BY <1>5, <2>1, <2>2
  <2> HIDE DEF s, Init
  <2>4. OneCarrier(s) /\ Follow(s)
    BY <2>3 DEF OneCarrier, Follow
  <2> QED BY <1>1, <2>3, <2>4 DEF ProposalsInv, s
<1>12. BackfillInv
  BY <1>5 DEF BackfillInv
<1> QED BY <1>2, <1>3, <1>4, <1>6, <1>7, <1>8, <1>9, <1>10, <1>11, <1>12 DEF MemoryInv, MemoryShape

-----------------------------------------------------------------------------
(* What stays pending, and what stays fresh *)

LEMMA PendsMoves ==
    ASSUME OpTypes, NEW c \in Callers, NEW x, NEW N, NEW R, NEW M, Moves(c, x, N, R, M),
           NEW deeds, NEW m, SomePends(deeds, m)
    PROVE  SomePends(deeds, m)' \/ (x.do \in deeds /\ x.m = m)
<1>1. PICK d \in Callers : m \in op[d].mine /\ Has(op[d].todo, deeds, m)
  BY DEF SomePends, Pends
<1>2. PICK y \in Todo(d) : y.do \in deeds /\ y.m = m
  BY <1>1 DEF Has, Todo
<1>3. CASE d # c
  BY <1>1, <1>3 DEF Moves, SomePends, Pends, Has
<1>4. CASE d = c /\ y \in ToSet(R)
  <2>1. R # <<>>
    BY <1>4 DEF ToSet
  <2>2. op'[c].mine = M /\ op'[c].todo = R /\ m \in M
    BY <1>1, <1>4, <2>1 DEF Moves
  <2> QED BY <1>2, <1>4, <2>2 DEF SomePends, Pends, Has
<1>5. CASE d = c /\ y \notin ToSet(R)
  BY <1>2, <1>5 DEF Moves, Todo
<1> QED BY <1>3, <1>4, <1>5

LEMMA PendsNew ==
    ASSUME NEW c \in Callers, NEW x, NEW N, NEW R, NEW M, Moves(c, x, N, R, M),
           NEW deeds, NEW m \in M, NEW y \in ToSet(R), y.do \in deeds, y.m = m
    PROVE  SomePends(deeds, m)'
<1>1. R # <<>>
  BY DEF ToSet
<1>2. op'[c].mine = M /\ op'[c].todo = R
  BY <1>1 DEF Moves
<1> QED BY <1>2 DEF SomePends, Pends, Has

LEMMA PendsForgotten ==
    ASSUME NEW D, Forgets(D), NEW deeds, NEW m, m \notin mixed', SomePends(deeds, m)
    PROVE  SomePends(deeds, m)'
<1>1. PICK d \in Callers : m \in op[d].mine /\ Has(op[d].todo, deeds, m)
  BY DEF SomePends, Pends
<1>2. d \notin D
  BY <1>1 DEF Forgets
<1>3. op'[d] = op[d]
  BY <1>2 DEF Forgets
<1> QED BY <1>1, <1>3 DEF SomePends, Pends

\* The statements that may be pending after a step.
TodoFrom(N) == \A d \in Callers : \A y \in Todo(d)' : y \in Todo(d) \/ y \in N

LEMMA TodoMoves ==
    ASSUME NEW c \in Callers, NEW x, NEW N, NEW R, NEW M, Moves(c, x, N, R, M)
    PROVE  /\ TodoFrom(N) /\ \A d \in Callers \ {c} : Todo(d)' = Todo(d)
           /\ Todo(c)' = ToSet(R) /\ mixed \subseteq mixed'
           /\ \A d \in Callers : \A y \in Todo(d) : y \in Todo(d)' \/ y = x
BY DEF Moves, Todo, TodoFrom

LEMMA TodoForgotten ==
    ASSUME NEW D, Forgets(D)
    PROVE  /\ TodoFrom({}) /\ mixed \subseteq mixed'
           /\ \A d \in Callers \ D : Todo(d)' = Todo(d)
           /\ \A d \in D : Todo(d)' = {}
<1>1. ToSet(<<>>) = {}
  BY DEF ToSet
<1>2. \A d \in Callers \ D : Todo(d)' = Todo(d)
  BY DEF Forgets, Todo
<1>3. \A d \in D : Todo(d)' = {}
  BY <1>1 DEF Forgets, Todo
<1>4. mixed \subseteq mixed'
  BY DEF Forgets
<1>5. TodoFrom({})
  BY <1>2, <1>3 DEF TodoFrom
<1> QED BY <1>2, <1>3, <1>4, <1>5

\* What a pending statement names, where its row is one its caller works on.
LEMMA OwnedIs ==
    ASSUME MemoryShape, NEW d \in Callers, NEW y \in Todo(d)
    PROVE  /\ StatementOK(d, op[d].mine, Stored, DOMAIN prop, y)
           /\ y.do \in Owned => y.m \in op[d].mine /\ y.m \in Stored
           /\ y.do \in Linking => Has(op[d].todo, {"sync"}, y.m)
<1>1. StatementOK(d, op[d].mine, Stored, DOMAIN prop, y)
      /\ (y.do \in Linking => Has(op[d].todo, {"sync"}, y.m))
  BY DEF MemoryShape, ListsOK, ListOK, Todo
<1>2. op[d].mine \subseteq Stored
  BY DEF MemoryShape, OpNames
<1> QED BY <1>1, <1>2 DEF StatementOK

LEMMA FreshMoves ==
    ASSUME MemoryShape, StatementsFresh, NEW c \in Callers, NEW x, NEW N, NEW R, NEW M,
           Moves(c, x, N, R, M),
           \A k \in Stored : mem'[k].content = mem[k].content,
           \A k \in Stored \ M : mem'[k] = mem[k],
           \A y \in ToSet(R) : Fresh(y)'
    PROVE  StatementsFresh'
<1> SUFFICES ASSUME NEW d \in Callers, NEW y \in Todo(d)' PROVE Fresh(y)'
  BY DEF StatementsFresh
<1>1. CASE d = c
  BY <1>1, TodoMoves
<1>2. CASE d # c
  <2>1. y \in Todo(d) /\ mixed \subseteq mixed'
    BY <1>2, TodoMoves
  <2>2. Fresh(y)
    BY <2>1 DEF StatementsFresh
  <2>3. SUFFICES ASSUME y.do \in {"insert", "retire", "relink"} PROVE Fresh(y)'
    BY DEF Fresh
  <2>4. y.m \in op[d].mine /\ y.m \in Stored
    BY <2>1, <2>3, OwnedIs DEF Owned
  <2>5. y.m \in M => y.m \in mixed'
    BY <1>2, <2>4 DEF Moves
  <2>6. Extracts(y.m)' <=> Extracts(y.m)
    BY <2>4 DEF Extracts
  <2>7. CASE y.m \in mixed'
    BY <2>2, <2>6, <2>7 DEF Fresh
  <2>8. CASE y.m \notin mixed'
    <3>1. mem'[y.m] = mem[y.m] /\ y.m \in Stored \ mixed
      BY <2>1, <2>4, <2>5, <2>8
    <3> QED BY <2>2, <2>6, <3>1 DEF Fresh
  <2> QED BY <2>7, <2>8
<1> QED BY <1>1, <1>2

LEMMA FreshKept ==
    ASSUME MemoryShape, StatementsFresh, NEW N, TodoFrom(N), mixed \subseteq mixed',
           \A k \in Stored : mem'[k] = mem[k],
           \A y \in N : y.do \notin {"insert", "retire", "relink"}
    PROVE  StatementsFresh'
<1> SUFFICES ASSUME NEW d \in Callers, NEW y \in Todo(d)' PROVE Fresh(y)'
  BY DEF StatementsFresh
<1> SUFFICES ASSUME y.do \in {"insert", "retire", "relink"} PROVE Fresh(y)'
  BY DEF Fresh
<1>1. y \in Todo(d)
  BY DEF TodoFrom
<1>2. y.m \in Stored /\ Fresh(y)
  BY <1>1, OwnedIs DEF Owned, StatementsFresh
<1>3. mem'[y.m] = mem[y.m]
  BY <1>2
<1> QED BY <1>2, <1>3 DEF Fresh, Extracts

LEMMA FreshRest ==
    ASSUME MemoryShape, StatementsFresh, NEW c \in Callers, op[c].todo # <<>>,
           NEW y \in ToSet(Tail(op[c].todo)), mixed \subseteq mixed',
           \A k \in Stored : mem[k].status = "deprecated" => mem'[k].status = "deprecated",
           Stored \subseteq Stored'
    PROVE  Fresh(y)'
<1>1. /\ \A z \in ToSet(Tail(op[c].todo)) : MayPrecede(Current(c).do, z.do)
      /\ Todo(c) = ToSet(Tail(op[c].todo)) \cup {Current(c)}
  BY HeadIs
<1>2. y.do \notin {"insert", "relink"} /\ y \in Todo(c)
  BY <1>1 DEF MayPrecede, Linking
<1>3. Fresh(y) /\ (y.do = "retire" => y.m \in Stored)
  BY <1>2, OwnedIs DEF StatementsFresh, Owned
<1> QED BY <1>2, <1>3 DEF Fresh

-----------------------------------------------------------------------------
(* What the facts, links and nodes rest on, and what leaves it in place *)

\* What m waits for is still pending.
StillPends(m) ==
    /\ SomePends({"retire"}, m) => SomePends({"retire"}, m)'
    /\ SomePends({"ensure", "insert"}, m) => SomePends({"ensure", "insert"}, m)'
    /\ SomePends({"sync"}, m) => SomePends({"sync"}, m)'

LEMMA PendsStep ==
    ASSUME OpTypes, NEW c \in Callers, NEW x, NEW N, NEW R, NEW M, Moves(c, x, N, R, M), NEW m,
           x.do \in {"retire", "ensure", "insert", "sync"} => x.m # m
    PROVE  StillPends(m)
<1>1. SomePends({"retire"}, m) => SomePends({"retire"}, m)'
  BY PendsMoves
<1>2. SomePends({"ensure", "insert"}, m) => SomePends({"ensure", "insert"}, m)'
  BY PendsMoves
<1>3. SomePends({"sync"}, m) => SomePends({"sync"}, m)'
  BY PendsMoves
<1> QED BY <1>1, <1>2, <1>3 DEF StillPends

LEMMA PendsStop ==
    ASSUME NEW D, Forgets(D), NEW m, m \notin mixed'
    PROVE  StillPends(m)
<1>1. SomePends({"retire"}, m) => SomePends({"retire"}, m)'
  BY PendsForgotten
<1>2. SomePends({"ensure", "insert"}, m) => SomePends({"ensure", "insert"}, m)'
  BY PendsForgotten
<1>3. SomePends({"sync"}, m) => SomePends({"sync"}, m)'
  BY PendsForgotten
<1> QED BY <1>1, <1>2, <1>3 DEF StillPends

LEMMA FactsKept ==
    ASSUME NEW m \in Stored, FactsOK(m), mixed \subseteq mixed',
           mem'[m].content = mem[m].content, facts'[m] = facts[m],
           m \notin mixed' => /\ mem'[m].status = mem[m].status /\ mem'[m].by = mem[m].by
                              /\ StillPends(m)
    PROVE  FactsOK(m)'
<1>1. /\ Extracts(m)' <=> Extracts(m)
      /\ HasActiveFact(m)' <=> HasActiveFact(m)
  BY DEF Extracts, HasActiveFact
<1>2. ~Extracts(m)' => facts'[m] = <<>>
  BY <1>1 DEF FactsOK
<1>3. ASSUME m \notin mixed'
      PROVE  /\ mem'[m].status = "deprecated" =>
                  ~HasActiveFact(m)' \/ SomePends({"retire"}, m)'
             /\ mem'[m].status = "active" /\ mem'[m].by = Nobody =>
                  \A i \in DOMAIN facts'[m] : facts'[m][i] = "active"
             /\ Extracts(m)' /\ facts'[m] = <<>> => SomePends({"ensure", "insert"}, m)'
  <2>1. m \notin mixed /\ mem'[m].status = mem[m].status /\ mem'[m].by = mem[m].by
        /\ StillPends(m)
    BY <1>3
  <2> QED BY <1>1, <2>1 DEF FactsOK, StillPends
<1> QED BY <1>2, <1>3 DEF FactsOK

LEMMA BackKept ==
    ASSUME NEW c \in Callers, NEW x, NEW N, NEW R, NEW M, Moves(c, x, N, R, M),
           NEW k, NEW m, LinksBack(k, m),
           m \in mem[k].over => m \in mem'[k].over,
           Stores(k, x, m) => m \in mem'[k].over
    PROVE  LinksBack(k, m)'
<1>1. CASE m \in mem[k].over
  BY <1>1 DEF LinksBack
<1>2. ASSUME NEW d \in Callers, NEW s \in Todo(d), Stores(k, s, m) PROVE LinksBack(k, m)'
  <2>1. s \in Todo(d)' \/ s = x
    BY TodoMoves
  <2>2. CASE s \in Todo(d)'
    BY <1>2, <2>2 DEF LinksBack, Stores
  <2>3. CASE s = x
    BY <1>2, <2>3 DEF LinksBack
  <2> QED BY <2>1, <2>2, <2>3
<1> QED BY <1>1, <1>2 DEF LinksBack

LEMMA BackStays ==
    ASSUME MemoryShape, NEW D, Forgets(D), NEW k, NEW m, k \notin mixed', LinksBack(k, m),
           m \in mem[k].over => m \in mem'[k].over
    PROVE  LinksBack(k, m)'
<1>1. CASE m \in mem[k].over
  BY <1>1 DEF LinksBack
<1>2. ASSUME NEW d \in Callers, NEW s \in Todo(d), Stores(k, s, m) PROVE LinksBack(k, m)'
  <2>1. s.m = k /\ s.do \in Linking
    BY <1>2 DEF Stores, Linking
  <2>2. k \in op[d].mine
    BY <2>1, OwnedIs DEF Owned, Linking
  <2>3. d \notin D
    BY <2>2 DEF Forgets
  <2>4. s \in Todo(d)'
    BY <2>3, TodoForgotten
  <2> QED BY <1>2, <2>4 DEF LinksBack, Stores
<1> QED BY <1>1, <1>2 DEF LinksBack

LEMMA LinksMoves ==
    ASSUME MemoryShape, LinksInv, NEW c \in Callers, NEW x, NEW N, NEW R, NEW M,
           Moves(c, x, N, R, M), x.do \notin Linking,
           \A y \in N : y.do # "relink",
           \A k \in Stored : mem'[k].over = mem[k].over,
           \A k \in Stored : mem'[k].by \in {mem[k].by, Nobody},
           \A k \in Stored' \ Stored : mem'[k].by = Nobody,
           Stored' \in SUBSET Ids
    PROVE  LinksInv'
<1>1. ASSUME NEW k \in Stored, NEW m, LinksBack(k, m) PROVE LinksBack(k, m)'
  <2>1. ~Stores(k, x, m)
    BY DEF Stores, Linking
  <2> QED BY <1>1, <2>1, BackKept
<1>2. \A m \in Stored : mem[m].by \in Stored \cup {Nobody}
  BY DEF MemoryShape, RowNames
<1>3. mixed \subseteq mixed' /\ TodoFrom(N)
  BY TodoMoves
<1>4. ASSUME NEW m \in Stored', NEW k \in Stored' \ mixed', mem'[m].by = k
      PROVE  LinksBack(k, m)'
  <2>1. k # Nobody
    BY <1>4 DEF Nobody, Ids
  <2>2. m \in Stored /\ mem[m].by = k
    BY <1>4, <2>1
  <2>3. k \in Stored \ mixed
    BY <1>2, <1>3, <2>1, <2>2
  <2>4. LinksBack(k, m)
    BY <2>2, <2>3 DEF LinksInv
  <2> QED BY <1>1, <2>3, <2>4
<1>5. ASSUME NEW d \in Callers, NEW s \in Todo(d)', s.do = "relink", s.n \in Stored' \ mixed'
      PROVE  LinksBack(s.n, s.m)'
  <2>1. s \in Todo(d)
    BY <1>3, <1>5 DEF TodoFrom
  <2>2. s.n \in Stored \cup {Nobody}
    BY <1>5, <2>1, OwnedIs DEF StatementOK, Linking
  <2>3. s.n # Nobody
    BY <1>5 DEF Nobody, Ids
  <2>4. s.n \in Stored \ mixed
    BY <1>3, <1>5, <2>2, <2>3
  <2> QED BY <1>1, <1>5, <2>1, <2>4 DEF LinksInv
<1> QED BY <1>4, <1>5 DEF LinksInv

LEMMA LinksForgotten ==
    ASSUME MemoryShape, LinksInv, NEW D, Forgets(D), mem' = mem
    PROVE  LinksInv'
<1>1. Stored' = Stored
  BY DEF Stored
<1>2. ASSUME NEW k \in Stored \ mixed', NEW m, LinksBack(k, m) PROVE LinksBack(k, m)'
  BY <1>2, BackStays
<1>3. mixed \subseteq mixed' /\ TodoFrom({})
  BY TodoForgotten
<1>4. ASSUME NEW m \in Stored', NEW k \in Stored' \ mixed', mem'[m].by = k
      PROVE  LinksBack(k, m)'
  <2>1. LinksBack(k, m)
    BY <1>1, <1>3, <1>4 DEF LinksInv
  <2> QED BY <1>1, <1>2, <2>1
<1>5. ASSUME NEW d \in Callers, NEW s \in Todo(d)', s.do = "relink", s.n \in Stored' \ mixed'
      PROVE  LinksBack(s.n, s.m)'
  <2>1. s \in Todo(d)
    BY <1>3, <1>5 DEF TodoFrom
  <2> QED BY <1>1, <1>2, <1>3, <1>5, <2>1 DEF LinksInv
<1> QED BY <1>4, <1>5 DEF LinksInv

\* A node stays right when no link to its memory or from it is lost.
LEMMA NodeKept ==
    ASSUME NEW m \in Stored, NodeOK(m), node'[m] = node[m], Stored \subseteq Stored',
           mem'[m].status = mem[m].status,
           \A k \in Stored : m \in Linked(k) => m \in Linked(k)',
           Linked(m) # {} => Linked(m)' # {}
    PROVE  NodeOK(m)'
BY DEF NodeOK

LEMMA NodesKept ==
    ASSUME NodesInv, Stored \subseteq Stored', mixed \subseteq mixed',
           \A k \in Stored : mem'[k] = mem[k],
           \A m \in Stored : node'[m] = node[m],
           \A m \in Stored \ mixed' : SomePends({"sync"}, m) => SomePends({"sync"}, m)',
           \A m \in Stored' \ Stored : SomePends({"sync"}, m)'
    PROVE  NodesInv'
<1> SUFFICES ASSUME NEW m \in Stored' \ mixed' PROVE NodeOK(m)' \/ SomePends({"sync"}, m)'
  BY DEF NodesInv
<1> SUFFICES ASSUME m \in Stored PROVE NodeOK(m)' \/ SomePends({"sync"}, m)'
  OBVIOUS
<1>1. NodeOK(m) \/ SomePends({"sync"}, m)
  BY DEF NodesInv
<1>2. \A k \in Stored : Linked(k)' = Linked(k)
  BY DEF Linked
<1>3. NodeOK(m) => NodeOK(m)'
  BY <1>2, NodeKept
<1> QED BY <1>1, <1>3

\* One row changes; its own node is synchronized later, or it was mixed.
LEMMA NodesMoves ==
    ASSUME MemoryShape, LinksInv, NodesInv, NEW c \in Callers, NEW x, NEW N, NEW R, NEW M,
           Moves(c, x, N, R, M), x.do # "sync", node' = node, Stored' = Stored,
           NEW X \in Stored, \A k \in Stored \ {X} : mem'[k] = mem[k],
           SomePends({"sync"}, X)', mem[X].over \ mem'[X].over \subseteq mixed'
    PROVE  NodesInv'
<1>1. OpTypes /\ mixed \subseteq mixed'
  BY TodoMoves DEF MemoryShape
<1> SUFFICES ASSUME NEW m \in Stored \ mixed', m # X, ~SomePends({"sync"}, m)'
             PROVE  NodeOK(m)'
  BY DEF NodesInv
<1>2. ~SomePends({"sync"}, m)
  BY <1>1, PendsMoves
<1>3. NodeOK(m) /\ mem'[m] = mem[m]
  BY <1>1, <1>2 DEF NodesInv
<1>4. Linked(m)' = Linked(m)
  BY <1>3 DEF Linked
<1>5. ASSUME NEW k \in Stored, m \in Linked(k)
      PROVE  m \in Linked(k)' \/ Linked(m) # {}
  <2>1. CASE k # X
    BY <1>5, <2>1 DEF Linked
  <2>2. CASE k = X /\ m \in mem[X].over
    BY <2>2 DEF Linked
  <2>3. CASE k = X /\ m = mem[X].by
    <3>1. LinksBack(m, X)
      BY <1>1, <2>3 DEF LinksInv
    <3>2. ASSUME NEW d \in Callers, NEW s \in Todo(d), Stores(m, s, X) PROVE FALSE
      <4>1. s.m = m /\ s.do \in Linking
        BY <3>2 DEF Stores, Linking
      <4>2. m \in op[d].mine /\ Has(op[d].todo, {"sync"}, m)
        BY <4>1, OwnedIs DEF Owned, Linking
      <4> QED BY <1>2, <4>2 DEF SomePends, Pends
    <3>3. X \in mem[m].over
      BY <3>1, <3>2 DEF LinksBack
    <3> QED BY <3>3 DEF Linked
  <2> QED BY <1>5, <2>1, <2>2, <2>3 DEF Linked
<1>6. /\ node'[m] = node[m] /\ node[m] # "none"
      /\ node[m] \in Statuses => node[m] = mem'[m].status
      /\ node[m] = "referenced" => Linked(m) # {} \/ \E k \in Stored : m \in Linked(k)
  BY <1>3 DEF NodeOK
<1>7. node[m] = "referenced" => Linked(m)' # {} \/ \E k \in Stored' : m \in Linked(k)'
  BY <1>4, <1>5, <1>6
<1> QED BY <1>6, <1>7 DEF NodeOK

-----------------------------------------------------------------------------
(* The facts, links and nodes through the steps that leave the rows alone *)

RowsInv == StatementsFresh /\ FactsInv /\ LinksInv /\ NodesInv

LEMMA QuietMoves ==
    ASSUME MemoryShape, RowsInv, NEW c \in Callers, NEW x, NEW N, NEW R, NEW M,
           Moves(c, x, N, R, M), UNCHANGED <<mem, facts, node>>,
           x.do \notin {"retire", "ensure", "insert", "sync", "link", "relink"},
           \A y \in N : y.do \notin {"insert", "retire", "relink"}
    PROVE  RowsInv'
<1>1. OpTypes /\ Stored' = Stored /\ Stored \subseteq Ids
  BY StoredIds DEF MemoryShape, Stored
<1>2. mixed \subseteq mixed' /\ TodoFrom(N)
  BY TodoMoves
<1>3. \A m \in Stored : StillPends(m)
  BY <1>1, PendsStep
<1>4. StatementsFresh'
  BY <1>2, FreshKept DEF RowsInv
<1>5. FactsInv'
  <2> SUFFICES ASSUME NEW m \in Stored PROVE FactsOK(m)'
    BY <1>1 DEF FactsInv
  <2> QED BY <1>2, <1>3, FactsKept DEF RowsInv, FactsInv
<1>6. LinksInv'
  BY <1>1, LinksMoves DEF RowsInv, Linking
<1>7. NodesInv'
  BY <1>1, <1>2, <1>3, NodesKept DEF RowsInv, StillPends
<1> QED BY <1>4, <1>5, <1>6, <1>7 DEF RowsInv

LEMMA QuietForgets ==
    ASSUME MemoryShape, RowsInv, NEW D, Forgets(D), UNCHANGED <<mem, facts, node>>
    PROVE  RowsInv'
<1>1. Stored' = Stored
  BY DEF Stored
<1>2. mixed \subseteq mixed' /\ TodoFrom({})
  BY TodoForgotten
<1>3. \A m \in Stored \ mixed' : StillPends(m)
  BY PendsStop
<1>4. StatementsFresh'
  BY <1>2, FreshKept DEF RowsInv
<1>5. FactsInv'
  <2> SUFFICES ASSUME NEW m \in Stored PROVE FactsOK(m)'
    BY <1>1 DEF FactsInv
  <2> QED BY <1>2, <1>3, FactsKept DEF RowsInv, FactsInv
<1>6. LinksInv'
  BY LinksForgotten DEF RowsInv
<1>7. NodesInv'
  BY <1>1, <1>2, <1>3, NodesKept DEF RowsInv, StillPends
<1> QED BY <1>4, <1>5, <1>6, <1>7 DEF RowsInv

-----------------------------------------------------------------------------
(* The facts, links and nodes through the other steps *)

LEMMA InsertRows ==
    ASSUME MemoryShape, RowsInv, NEW c \in Callers, InsertFact(c)
    PROVE  RowsInv'
<1> DEFINE s == Current(c)
           X == s.m
           S == Tail(op[c].todo)
           M == op[c].mine
<1>1. /\ UNCHANGED <<mem, node, prop>> /\ op[c].todo # <<>> /\ s.do = "insert"
      /\ s \in Todo(c) /\ X \in Stored /\ Moves(c, s, {}, S, M)
      /\ facts'[X] = Append(facts[X], s.status) /\ facts[X] \in Seq(Statuses)
      /\ \A k \in Stored \ {X} : facts'[k] = facts[k]
      /\ s.m \in M
  BY InsertShape
<1>2. OpTypes /\ Stored' = Stored /\ Stored \subseteq Ids
  BY <1>1, StoredIds DEF MemoryShape, Stored
<1>3. mixed \subseteq mixed' /\ TodoFrom({})
  BY <1>1, TodoMoves
<1>4. Fresh(s) /\ s \in Statement
  BY <1>1, HeadIs DEF RowsInv, StatementsFresh
<1>5. StatementsFresh'
  BY <1>1, <1>3, FreshKept DEF RowsInv
<1> HIDE DEF s, X, S, M
<1>6. FactsInv'
  <2> SUFFICES ASSUME NEW m \in Stored PROVE FactsOK(m)'
    BY <1>2 DEF FactsInv
  <2>1. FactsOK(m)
    BY DEF RowsInv, FactsInv
  <2>2. CASE m # X
    <3>1. StillPends(m)
      BY <1>1, <1>2, <2>2, PendsStep DEF X
    <3> QED BY <1>1, <1>3, <2>1, <2>2, <3>1, FactsKept
  <2>3. CASE m = X
    <3>1. Extracts(m)' /\ Extracts(m)
      BY <1>1, <1>4, <2>3 DEF Fresh, Extracts, X
    <3>2. /\ facts'[m] # <<>> /\ DOMAIN facts'[m] = 1..(Len(facts[m]) + 1)
          /\ DOMAIN facts[m] = 1..Len(facts[m]) /\ Len(facts[m]) \in Nat
          /\ \A i \in 1..Len(facts[m]) : facts'[m][i] = facts[m][i]
          /\ facts'[m][Len(facts[m]) + 1] = s.status
      <4>1. s.status \in Statuses
        BY <1>4 DEF Statement
      <4> QED BY <1>1, <2>3, <4>1
    <3>3. ASSUME m \notin mixed'
          PROVE  /\ mem'[m].status = "deprecated" =>
                      ~HasActiveFact(m)' \/ SomePends({"retire"}, m)'
                 /\ mem'[m].status = "active" /\ mem'[m].by = Nobody =>
                      \A i \in DOMAIN facts'[m] : facts'[m][i] = "active"
      <4>1. m \notin mixed /\ s.status = mem[m].status /\ mem' = mem
        BY <1>1, <1>3, <1>4, <2>3, <3>3 DEF Fresh, X
      <4>2. SomePends({"retire"}, m) => SomePends({"retire"}, m)'
        BY <1>1, <1>2, PendsMoves
      <4>3. CASE mem[m].status = "deprecated"
        <5>1. ~HasActiveFact(m) => ~HasActiveFact(m)'
          BY <3>2, <4>1, <4>3 DEF HasActiveFact
        <5> QED BY <2>1, <4>1, <4>2, <4>3, <5>1 DEF FactsOK
      <4>4. CASE mem[m].status = "active" /\ mem[m].by = Nobody
        <5>1. \A i \in DOMAIN facts[m] : facts[m][i] = "active"
          BY <2>1, <4>1, <4>4 DEF FactsOK
        <5> QED BY <3>2, <4>1, <4>4, <5>1
      <4> QED BY <4>1, <4>3, <4>4
    <3> QED BY <3>1, <3>2, <3>3 DEF FactsOK
  <2> QED BY <2>2, <2>3
<1>7. LinksInv'
  BY <1>1, <1>2, LinksMoves DEF RowsInv, Linking
<1>8. NodesInv'
  <2>1. \A m \in Stored \ mixed' : SomePends({"sync"}, m) => SomePends({"sync"}, m)'
    BY <1>1, <1>2, PendsMoves
  <2> QED BY <1>1, <1>2, <1>3, <2>1, NodesKept DEF RowsInv
<1> QED BY <1>5, <1>6, <1>7, <1>8 DEF RowsInv

\* The fact rows of X become deprecated: its memory is, or names a successor.
LEMMA RetiredRows ==
    ASSUME MemoryShape, RowsInv, NEW c \in Callers, NEW x, NEW R, NEW M, Moves(c, x, {}, R, M),
           UNCHANGED <<mem, node, prop>>, NEW X \in Stored, x.m = X,
           x.do \in {"retire", "restore"},
           X \notin mixed => mem[X].status = "deprecated" \/ mem[X].by # Nobody,
           \A i \in DOMAIN facts'[X] : facts'[X][i] = "deprecated",
           facts'[X] = <<>> <=> facts[X] = <<>>,
           \A k \in Stored \ {X} : facts'[k] = facts[k]
    PROVE  RowsInv'
<1>1. OpTypes /\ Stored' = Stored /\ Stored \subseteq Ids
  BY StoredIds DEF MemoryShape, Stored
<1>2. mixed \subseteq mixed' /\ TodoFrom({})
  BY TodoMoves
<1>3. StatementsFresh'
  BY <1>2, FreshKept DEF RowsInv
<1>4. FactsInv'
  <2> SUFFICES ASSUME NEW m \in Stored PROVE FactsOK(m)'
    BY <1>1 DEF FactsInv
  <2>1. FactsOK(m)
    BY DEF RowsInv, FactsInv
  <2>2. CASE m # X
    <3>1. StillPends(m)
      BY <1>1, <2>2, PendsStep
    <3> QED BY <1>2, <2>1, <2>2, <3>1, FactsKept
  <2>3. CASE m = X
    <3>1. ~HasActiveFact(m)'
      BY <2>3 DEF HasActiveFact
    <3>2. Extracts(m)' <=> Extracts(m)
      BY DEF Extracts
    <3>3. SomePends({"ensure", "insert"}, m) => SomePends({"ensure", "insert"}, m)'
      BY <1>1, PendsMoves
    <3>4. m \notin mixed' => m \notin mixed /\ ~(mem'[m].status = "active" /\ mem'[m].by = Nobody)
      BY <1>2, <2>3
    <3> QED BY <2>1, <2>3, <3>1, <3>2, <3>3, <3>4 DEF FactsOK
  <2> QED BY <2>2, <2>3
<1>5. LinksInv'
  BY <1>1, LinksMoves DEF RowsInv, Linking
<1>6. NodesInv'
  <2>1. \A m \in Stored \ mixed' : SomePends({"sync"}, m) => SomePends({"sync"}, m)'
    BY <1>1, PendsMoves
  <2> QED BY <1>1, <1>2, <2>1, NodesKept DEF RowsInv
<1> QED BY <1>3, <1>4, <1>5, <1>6 DEF RowsInv

LEMMA RetireRows ==
    ASSUME MemoryShape, RowsInv, NEW c \in Callers, RetireFacts(c)
    PROVE  RowsInv'
<1> DEFINE s == Current(c)
<1>1. /\ UNCHANGED <<mem, node, prop>> /\ s.do = "retire" /\ s \in Todo(c) /\ s.m \in Stored
      /\ Moves(c, s, {}, Tail(op[c].todo), op[c].mine)
      /\ \A i \in DOMAIN facts'[s.m] : facts'[s.m][i] = "deprecated"
      /\ facts'[s.m] = <<>> <=> facts[s.m] = <<>>
      /\ \A k \in Stored \ {s.m} : facts'[k] = facts[k]
  BY RetireShape
<1>2. s.m \notin mixed => mem[s.m].status = "deprecated"
  BY <1>1 DEF RowsInv, StatementsFresh, Fresh
<1> HIDE DEF s
<1> QED BY <1>1, <1>2, RetiredRows

LEMMA RestoreRows ==
    ASSUME MemoryShape, RowsInv, NEW c \in Callers, RestoreLifecycle(c)
    PROVE  RowsInv'
<1> DEFINE s == Current(c)
           S == Tail(op[c].todo)
           M == op[c].mine
<1>1. /\ UNCHANGED <<mem, node, prop>> /\ s.do = "restore" /\ s.m \in Stored
      /\ Moves(c, s, {}, S, M)
      /\ \/ mem[s.m].by = Nobody /\ facts' = facts
         \/ /\ mem[s.m].by # Nobody
            /\ \A i \in DOMAIN facts'[s.m] : facts'[s.m][i] = "deprecated"
            /\ facts'[s.m] = <<>> <=> facts[s.m] = <<>>
            /\ \A k \in Stored \ {s.m} : facts'[k] = facts[k]
  BY RestoreShape
<1> HIDE DEF s, S, M
<1>2. CASE facts' = facts
  <2> DEFINE N == {}
  <2>1. \A y \in N : y.do \notin {"insert", "retire", "relink"}
    OBVIOUS
  <2>2. Moves(c, s, N, S, M)
    BY <1>1
  <2> HIDE DEF N
  <2> QED BY <1>1, <1>2, <2>1, <2>2, QuietMoves
<1>3. CASE /\ mem[s.m].by # Nobody
           /\ \A i \in DOMAIN facts'[s.m] : facts'[s.m][i] = "deprecated"
           /\ facts'[s.m] = <<>> <=> facts[s.m] = <<>>
           /\ \A k \in Stored \ {s.m} : facts'[k] = facts[k]
  BY <1>1, <1>3, RetiredRows
<1> QED BY <1>1, <1>2, <1>3

LEMMA LookRows ==
    ASSUME MemoryShape, RowsInv, NEW c \in Callers, LookForFact(c)
    PROVE  RowsInv'
<1> DEFINE s == Current(c)
           X == s.m
           S == Tail(op[c].todo)
           M == op[c].mine
<1>1. PICK x \in Statement : \E R, N :
         /\ MemoryShape' /\ crashes' = crashes /\ UNCHANGED store
         /\ op[c].todo # <<>> /\ s.do = "ensure" /\ s \in Todo(c)
         /\ s.m \in M /\ s.m \in Stored
         /\ Moves(c, s, N, R, M)
         /\ IF Extracts(s.m) /\ facts[s.m] = <<>>
              THEN N = {x} /\ R # <<>> /\ x \in ToSet(R) /\ R = <<x>> \o S
              ELSE N = {} /\ R = S
         /\ x.do = "insert" /\ x.m = s.m /\ x.status = mem[s.m].status
  BY LookShape
<1>2. PICK R, N :
         /\ UNCHANGED store
         /\ op[c].todo # <<>> /\ s.do = "ensure" /\ s \in Todo(c)
         /\ s.m \in M /\ s.m \in Stored
         /\ Moves(c, s, N, R, M)
         /\ IF Extracts(s.m) /\ facts[s.m] = <<>>
              THEN N = {x} /\ R # <<>> /\ x \in ToSet(R) /\ R = <<x>> \o S
              ELSE N = {} /\ R = S
         /\ x.do = "insert" /\ x.m = s.m /\ x.status = mem[s.m].status
  BY <1>1
<1>3. OpTypes /\ Stored' = Stored /\ Stored \subseteq Ids /\ UNCHANGED <<mem, facts, node, prop>>
  BY <1>2, StoredIds DEF MemoryShape, Stored, store
<1>4. mixed \subseteq mixed' /\ TodoFrom(N) /\ N \subseteq {x}
      /\ (N # {} => Extracts(X))
  BY <1>2, TodoMoves
<1> HIDE DEF s, X, S, M
<1>5. StatementsFresh'
  <2> SUFFICES ASSUME NEW d \in Callers, NEW y \in Todo(d)' PROVE Fresh(y)'
    BY DEF StatementsFresh
  <2>1. Extracts(y.m)' <=> Extracts(y.m)
    BY <1>3 DEF Extracts
  <2>2. CASE y \in Todo(d)
    <3>1. Fresh(y)
      BY <2>2 DEF RowsInv, StatementsFresh
    <3> QED BY <1>3, <1>4, <2>1, <3>1 DEF Fresh
  <2>3. CASE y \notin Todo(d)
    <3>1. y = x /\ Extracts(X)
      BY <1>4, <2>3 DEF TodoFrom
    <3> QED BY <1>2, <1>3, <2>1, <3>1 DEF Fresh, X
  <2> QED BY <2>2, <2>3
<1>6. FactsInv'
  <2> SUFFICES ASSUME NEW m \in Stored PROVE FactsOK(m)'
    BY <1>3 DEF FactsInv
  <2>1. FactsOK(m)
    BY DEF RowsInv, FactsInv
  <2>2. CASE ~(m = X /\ Extracts(m) /\ facts[m] = <<>>)
    <3>1. SomePends({"retire"}, m) => SomePends({"retire"}, m)'
      BY <1>2, <1>3, PendsMoves
    <3>2. m # X /\ SomePends({"ensure", "insert"}, m) => SomePends({"ensure", "insert"}, m)'
      BY <1>2, <1>3, PendsMoves DEF X
    <3>3. Extracts(m)' <=> Extracts(m)
      BY <1>3 DEF Extracts
    <3>4. HasActiveFact(m)' <=> HasActiveFact(m)
      BY <1>3 DEF HasActiveFact
    <3> QED BY <1>3, <1>4, <2>1, <2>2, <3>1, <3>2, <3>3, <3>4 DEF FactsOK
  <2>3. CASE m = X /\ Extracts(m) /\ facts[m] = <<>>
    <3>1. x \in ToSet(R) /\ x.do \in {"ensure", "insert"} /\ x.m = m /\ m \in M
      BY <1>2, <2>3 DEF X
    <3>2. SomePends({"ensure", "insert"}, m)'
      BY <1>2, <3>1, PendsNew
    <3>3. ~HasActiveFact(m)' /\ Extracts(m)' /\ DOMAIN facts'[m] = {}
      BY <1>3, <2>3 DEF HasActiveFact, Extracts
    <3> QED BY <3>2, <3>3 DEF FactsOK
  <2> QED BY <2>2, <2>3
<1>7. LinksInv'
  <2>1. \A y \in N : y.do # "relink"
    BY <1>2, <1>4
  <2> QED BY <1>2, <1>3, <2>1, LinksMoves DEF RowsInv, Linking
<1>8. NodesInv'
  <2>1. \A m \in Stored \ mixed' : SomePends({"sync"}, m) => SomePends({"sync"}, m)'
    BY <1>2, <1>3, PendsMoves
  <2> QED BY <1>3, <1>4, <2>1, NodesKept DEF RowsInv
<1> QED BY <1>5, <1>6, <1>7, <1>8 DEF RowsInv

LEMMA SyncRows ==
    ASSUME MemoryShape, RowsInv, NEW c \in Callers, SyncMemory(c)
    PROVE  RowsInv'
<1> DEFINE s == Current(c)
           X == s.m
           S == Tail(op[c].todo)
           M == op[c].mine
<1>1. /\ UNCHANGED <<mem, facts, prop>> /\ s.do = "sync" /\ X \in Stored
      /\ Moves(c, s, {}, S, M)
      /\ \A k \in Stored : node'[k] = IF k \in Linked(X) THEN "referenced"
                                      ELSE IF k = X THEN mem[X].status ELSE node[k]
  BY SyncShape
<1>2. OpTypes /\ Stored' = Stored /\ Stored \subseteq Ids
  BY <1>1, StoredIds DEF MemoryShape, Stored
<1>3. mixed \subseteq mixed' /\ TodoFrom({})
  BY <1>1, TodoMoves
<1>4. StatementsFresh'
  BY <1>1, <1>3, FreshKept DEF RowsInv
<1> HIDE DEF S, M
<1>5. FactsInv'
  <2> SUFFICES ASSUME NEW m \in Stored PROVE FactsOK(m)'
    BY <1>2 DEF FactsInv
  <2>1. /\ SomePends({"retire"}, m) => SomePends({"retire"}, m)'
        /\ SomePends({"ensure", "insert"}, m) => SomePends({"ensure", "insert"}, m)'
    BY <1>1, <1>2, PendsMoves
  <2>2. /\ Extracts(m)' <=> Extracts(m)
        /\ HasActiveFact(m)' <=> HasActiveFact(m)
    BY <1>1 DEF Extracts, HasActiveFact
  <2>3. FactsOK(m)
    BY DEF RowsInv, FactsInv
  <2> QED BY <1>1, <1>3, <2>1, <2>2, <2>3 DEF FactsOK
<1>6. LinksInv'
  BY <1>1, <1>2, LinksMoves DEF RowsInv, Linking
<1>7. NodesInv'
  <2> SUFFICES ASSUME NEW m \in Stored \ mixed', ~SomePends({"sync"}, m)' PROVE NodeOK(m)'
    BY <1>2 DEF NodesInv
  <2>1. \A k \in Stored : Linked(k)' = Linked(k)
    BY <1>1 DEF Linked
  <2>2. mem[X] \in MemoryRow
    BY <1>1 DEF MemoryShape, RowTypes, Stored
  <2>3. mem[X].status \in Statuses
    BY <2>2 DEF MemoryRow
  <2>4. CASE m \in Linked(X)
    <3>1. node'[m] = "referenced" /\ "referenced" \notin Statuses
      BY <1>1, <2>4 DEF Statuses
    <3>2. \E k \in Stored' : m \in Linked(k)'
      BY <1>1, <1>2, <2>1, <2>4
    <3> QED BY <3>1, <3>2 DEF NodeOK
  <2>5. CASE m \notin Linked(X) /\ m = X
    <3>1. node'[m] = mem'[m].status /\ node'[m] \in Statuses
      BY <1>1, <2>3, <2>5
    <3> QED BY <3>1 DEF NodeOK, Statuses
  <2>6. CASE m \notin Linked(X) /\ m # X
    <3>1. node'[m] = node[m]
      BY <1>1, <2>6
    <3>2. SomePends({"sync"}, m) => SomePends({"sync"}, m)'
      BY <1>1, <1>2, <2>6, PendsMoves
    <3>3. NodeOK(m)
      BY <1>3, <3>2 DEF RowsInv, NodesInv
    <3> QED BY <1>1, <1>2, <2>1, <3>1, <3>3, NodeKept
  <2> QED BY <2>4, <2>5, <2>6
<1> QED BY <1>4, <1>5, <1>6, <1>7 DEF RowsInv

LEMMA StoreRows ==
    ASSUME MemoryShape, RowsInv, NEW c \in Callers, StoreMemory(c)
    PROVE  RowsInv'
<1> DEFINE s == Current(c)
           X == Len(mem) + 1
           R == <<Ensure(X), Sync(X)>> \o Tail(op[c].todo)
           N == {Ensure(X), Sync(X)}
           M == op[c].mine \cup {X}
<1>1. /\ UNCHANGED <<facts, node, prop>> /\ op[c].todo # <<>> /\ s.do = "store"
      /\ Moves(c, s, N, R, M) /\ MemoryShape'
      /\ X \in Ids /\ Stored' = Stored \cup {X} /\ X \notin Stored
      /\ \A k \in Stored : mem'[k] = mem[k]
      /\ mem'[X] = NewMemory(s.c, s.p, s.set)
  BY StoreShape
<1>2. /\ Ensure(X).do = "ensure" /\ Ensure(X).m = X /\ Sync(X).do = "sync" /\ Sync(X).m = X
      /\ \A y \in N : y.do \notin {"insert", "retire", "relink"}
  <2>1. Nobody \in Ids \cup {Nobody}
    OBVIOUS
  <2>2. /\ Ensure(X).do = "ensure" /\ Ensure(X).m = X /\ Sync(X).do = "sync" /\ Sync(X).m = X
    BY <1>1, <2>1, DeedsAre
  <2> QED BY <2>2
<1>3. {Ensure(X), Sync(X)} \subseteq ToSet(R)
  <2>1. /\ Ensure(X) \in Statement /\ Sync(X) \in Statement
    BY <1>1, DeedsAre
  <2>2. <<Ensure(X), Sync(X)>> \in Seq(Statement) /\ Tail(op[c].todo) \in Seq(Statement)
    BY <1>1, <2>1, HeadIs
  <2> DEFINE P == <<Ensure(X), Sync(X)>>
  <2>3. ToSet(P) = {Ensure(X), Sync(X)} /\ P \in Seq(Statement)
    BY <2>2 DEF ToSet
  <2> DEFINE S == Tail(op[c].todo)
  <2>4. R = P \o S /\ S \in Seq(Statement)
    BY <2>2
  <2> HIDE DEF P, R, S, N, M, X
  <2>5. ToSet(P \o S) = ToSet(P) \cup ToSet(S)
    BY <2>3, <2>4, JoinSet
  <2> QED BY <2>3, <2>4, <2>5
<1>4. /\ OpTypes /\ mixed \subseteq mixed' /\ TodoFrom(N)
      /\ facts[X] = <<>> /\ Stored' \in SUBSET Ids
  <2>1. RowTypes' /\ OpTypes
    BY <1>1 DEF MemoryShape
  <2>2. Stored' \in SUBSET Ids
    BY <1>1, StoredIds DEF MemoryShape
  <2>3. facts[X] = <<>>
    BY <1>1 DEF MemoryShape, RowNames
  <2> QED BY <1>1, <2>1, <2>2, <2>3, TodoMoves
<1>5. mem'[X].status = "active" /\ mem'[X].by = Nobody
  BY <1>1 DEF NewMemory
<1>6. X \in M
  OBVIOUS
<1> HIDE DEF s, X, R, N, M
<1>7. StatementsFresh'
  BY <1>1, <1>2, <1>4, FreshKept DEF RowsInv
<1>8. FactsInv'
  <2> SUFFICES ASSUME NEW m \in Stored' PROVE FactsOK(m)'
    BY DEF FactsInv
  <2>1. CASE m \in Stored
    <3>1. StillPends(m)
      BY <1>1, <1>4, PendsStep
    <3>2. FactsOK(m)
      BY <2>1 DEF RowsInv, FactsInv
    <3> QED BY <1>1, <1>4, <2>1, <3>1, <3>2, FactsKept
  <2>2. CASE m = X
    <3>1. SomePends({"ensure", "insert"}, m)'
      BY <1>1, <1>2, <1>3, <1>6, <2>2, PendsNew
    <3>2. facts'[m] = <<>> /\ DOMAIN facts'[m] = {} /\ ~HasActiveFact(m)'
      BY <1>1, <1>4, <2>2 DEF HasActiveFact
    <3> QED BY <3>1, <3>2 DEF FactsOK
  <2> QED BY <1>1, <2>1, <2>2
<1>9. LinksInv'
  <2>1. /\ s.do \notin Linking /\ \A y \in N : y.do # "relink"
    BY <1>1, <1>2 DEF Linking
  <2>2. \A k \in Stored' \ Stored : mem'[k].by = Nobody
    BY <1>1, <1>5
  <2> QED BY <1>1, <1>4, <2>1, <2>2, LinksMoves DEF RowsInv
<1>10. NodesInv'
  <2>1. \A m \in Stored \ mixed' : SomePends({"sync"}, m) => SomePends({"sync"}, m)'
    BY <1>1, <1>4, PendsMoves
  <2>2. \A m \in Stored' \ Stored : SomePends({"sync"}, m)'
    BY <1>1, <1>2, <1>3, <1>6, PendsNew
  <2> QED BY <1>1, <1>4, <2>1, <2>2, NodesKept DEF RowsInv
<1> QED BY <1>7, <1>8, <1>9, <1>10 DEF RowsInv

\* One row takes new lifecycle metadata: its list synchronizes it, and retires
\* its facts when it leaves the active memories.
LEMMA LifecycleChanges ==
    ASSUME MemoryShape, RowsInv, NEW c \in Callers, NEW x, NEW N, NEW R, NEW M,
           Moves(c, x, N, R, M), x.do \notin {"retire", "ensure", "insert", "sync"},
           x.do \notin Linking, UNCHANGED <<facts, node>>,
           NEW X \in M, NEW by \in Ids \cup {Nobody}, NEW status \in Statuses,
           X \in Stored, mem' = Lifecycle(X, by, status),
           SomePends({"sync"}, X)',
           status # mem[X].status => status = "deprecated" /\ SomePends({"retire"}, X)',
           status = "active" => by # Nobody,
           StatementsFresh',
           by \in Stored \ mixed' => LinksBack(by, X)',
           \A y \in N : y.do = "relink" =>
                /\ y.n = mem[y.m].by /\ y.m \in Stored \ {X}
    PROVE  RowsInv'
<1>1. OpTypes /\ RowTypes /\ Stored \subseteq Ids
  BY StoredIds DEF MemoryShape
<1>2. /\ Stored' = Stored /\ \A k \in Stored \ {X} : mem'[k] = mem[k]
      /\ mem'[X].status = status /\ mem'[X].by = by /\ mem'[X].over = mem[X].over
      /\ mem'[X].content = mem[X].content
  BY <1>1, LifecycleIs
<1>3. mixed \subseteq mixed' /\ TodoFrom(N)
  BY TodoMoves
<1>4. FactsInv'
  <2> SUFFICES ASSUME NEW m \in Stored PROVE FactsOK(m)'
    BY <1>2 DEF FactsInv
  <2>1. FactsOK(m)
    BY DEF RowsInv, FactsInv
  <2>2. StillPends(m)
    BY <1>1, PendsStep
  <2>3. CASE m # X
    BY <1>2, <1>3, <2>1, <2>2, <2>3, FactsKept
  <2>4. CASE m = X
    <3>1. /\ Extracts(m)' <=> Extracts(m)
          /\ HasActiveFact(m)' <=> HasActiveFact(m)
      BY <1>2, <2>4 DEF Extracts, HasActiveFact
    <3>2. ~(mem'[m].status = "active" /\ mem'[m].by = Nobody)
      BY <1>2, <2>4
    <3>3. mem'[m].status = "deprecated" /\ m \notin mixed' =>
             ~HasActiveFact(m)' \/ SomePends({"retire"}, m)'
      <4>1. CASE status = mem[X].status
        BY <1>2, <1>3, <2>1, <2>2, <2>4, <3>1, <4>1 DEF FactsOK, StillPends
      <4>2. CASE status # mem[X].status
        BY <2>4, <4>2
      <4> QED BY <4>1, <4>2
    <3> QED BY <1>3, <2>1, <2>2, <3>1, <3>2, <3>3 DEF FactsOK, StillPends
  <2> QED BY <2>3, <2>4
<1>5. LinksInv'
  <2>1. ASSUME NEW k \in Stored, NEW m, LinksBack(k, m) PROVE LinksBack(k, m)'
    <3>1. mem'[k].over = mem[k].over /\ ~Stores(k, x, m)
      BY <1>2 DEF Stores, Linking
    <3> QED BY <2>1, <3>1, BackKept
  <2>2. ASSUME NEW m \in Stored', NEW k \in Stored' \ mixed', mem'[m].by = k
        PROVE  LinksBack(k, m)'
    <3>1. CASE m = X
      BY <1>2, <2>2, <3>1
    <3>2. CASE m # X
      <4>1. LinksBack(k, m)
        BY <1>2, <1>3, <2>2, <3>2 DEF RowsInv, LinksInv
      <4> QED BY <1>2, <2>1, <2>2, <4>1
    <3> QED BY <3>1, <3>2
  <2>3. ASSUME NEW d \in Callers, NEW s \in Todo(d)', s.do = "relink", s.n \in Stored' \ mixed'
        PROVE  LinksBack(s.n, s.m)'
    <3>1. s.n \in Stored \ mixed
      BY <1>2, <1>3, <2>3
    <3>2. CASE s \in Todo(d)
      BY <2>1, <2>3, <3>1, <3>2 DEF RowsInv, LinksInv
    <3>3. CASE s \notin Todo(d)
      <4>1. s \in N
        BY <1>3, <3>3 DEF TodoFrom
      <4>2. s.n = mem[s.m].by /\ s.m \in Stored
        BY <2>3, <4>1
      <4>3. LinksBack(s.n, s.m)
        BY <3>1, <4>2 DEF RowsInv, LinksInv
      <4> QED BY <2>1, <3>1, <4>3
    <3> QED BY <3>2, <3>3
  <2> QED BY <2>2, <2>3 DEF LinksInv
<1>6. NodesInv'
  <2>1. mem[X].over \ mem'[X].over \subseteq mixed'
    BY <1>2
  <2> QED BY <1>2, <2>1, NodesMoves DEF RowsInv
<1> QED BY <1>4, <1>5, <1>6 DEF RowsInv

LEMMA DeprecateRows ==
    ASSUME MemoryShape, RowsInv, NEW t \in Turns, NEW m, NEW by, Deprecate(t, m, by)
    PROVE  RowsInv'
<1> DEFINE R == Deprecation(m, by)
           N == ToSet(R)
           M == {m, by} \ {Nobody}
           x == NoStatement
<1>1. /\ UNCHANGED <<facts, node, prop>>
      /\ Moves(t, x, N, R, M) /\ op[t].todo = <<>>
      /\ N = {Ensure(m), Retire(m, by), Sync(m)} \cup
               (IF by = Nobody THEN {} ELSE {Do("link", by, m), Ensure(by), Sync(by)})
      /\ m \in Stored /\ by \in (Stored \cup {Nobody}) \ {m}
      /\ mem' = Lifecycle(m, by, "deprecated")
  BY DeprecateShape
<1>2. t \in Callers /\ RowTypes /\ OpTypes /\ Stored \subseteq Ids /\ Nobody \notin Ids
  BY StoredIds DEF Callers, MemoryShape, Nobody, Ids
<1>3. m \in Ids /\ by \in Ids \cup {Nobody} /\ m \in M /\ "deprecated" \in Statuses
  BY <1>1, <1>2 DEF Statuses
<1>4. /\ Ensure(m).do = "ensure" /\ Sync(m).do = "sync" /\ Sync(m).m = m
      /\ Retire(m, by).do = "retire" /\ Retire(m, by).m = m
  BY <1>3, DeedsAre
<1>5. by # Nobody =>
         /\ Do("link", by, m).do = "link" /\ Do("link", by, m).m = by /\ Do("link", by, m).n = m
         /\ Ensure(by).do = "ensure" /\ Sync(by).do = "sync"
  <2>1. "link" \in Deeds /\ m \in Ids \cup {Nobody}
    BY <1>3 DEF Deeds
  <2>2. /\ Do("link", by, m).do = "link" /\ Do("link", by, m).m = by /\ Do("link", by, m).n = m
    BY <1>3, <2>1, DoIs
  <2>3. by # Nobody => Ensure(by).do = "ensure" /\ Sync(by).do = "sync"
    BY <1>3, DeedsAre
  <2> QED BY <2>2, <2>3
<1>6. /\ x.do = "none" /\ \A y \in N : y.do \notin {"insert", "relink"}
      /\ \A y \in N : y.do = "retire" => y.m = m
  BY <1>1, <1>4, <1>5 DEF NoStatement
<1>7. /\ Stored' = Stored /\ \A k \in Stored \ {m} : mem'[k] = mem[k]
      /\ mem'[m].status = "deprecated" /\ mem'[m].content = mem[m].content
  BY <1>1, <1>2, <1>3, LifecycleIs
<1> HIDE DEF x
<1>8. StatementsFresh'
  <2>1. \A y \in ToSet(R) : Fresh(y)'
    BY <1>6, <1>7 DEF Fresh
  <2>2. \A k \in Stored \ M : mem'[k] = mem[k]
    BY <1>3, <1>7
  <2>3. \A k \in Stored : mem'[k].content = mem[k].content
    BY <1>7
  <2> HIDE DEF N, R, M
  <2> QED BY <1>1, <1>2, <2>1, <2>2, <2>3, FreshMoves DEF RowsInv
<1>9. SomePends({"sync"}, m)' /\ SomePends({"retire"}, m)'
  <2>1. Sync(m) \in ToSet(R) /\ Retire(m, by) \in ToSet(R)
    BY <1>1
  <2>2. "sync" \in {"sync"} /\ "retire" \in {"retire"}
    OBVIOUS
  <2> HIDE DEF N, R, M
  <2>3. SomePends({"sync"}, m)'
    BY <1>1, <1>2, <1>3, <1>4, <2>1, <2>2, PendsNew
  <2>4. SomePends({"retire"}, m)'
    BY <1>1, <1>2, <1>3, <1>4, <2>1, <2>2, PendsNew
  <2> QED BY <2>3, <2>4
<1>10. by \in Stored \ mixed' => LinksBack(by, m)'
  <2> SUFFICES ASSUME by \in Stored PROVE LinksBack(by, m)'
    OBVIOUS
  <2>1. by # Nobody
    BY <1>2
  <2>2. Do("link", by, m) \in N
    BY <1>1, <2>1
  <2>3. Stores(by, Do("link", by, m), m)
    BY <1>5, <2>1 DEF Stores
  <2>4. Todo(t)' = N
    BY <1>1, <1>2, TodoMoves
  <2> QED BY <1>2, <2>2, <2>3, <2>4 DEF LinksBack, Stores
<1>11. \A y \in N : y.do = "relink" => y.n = mem[y.m].by /\ y.m \in Stored \ {m}
  BY <1>6
<1>12. x.do \notin {"retire", "ensure", "insert", "sync"} /\ x.do \notin Linking
  BY <1>6 DEF Linking
<1> HIDE DEF N, R, M
<1> QED BY <1>1, <1>2, <1>3, <1>8, <1>9, <1>10, <1>11, <1>12, LifecycleChanges

LEMMA SupersedeRows ==
    ASSUME MemoryShape, RowsInv, NEW t \in Turns, NEW old, NEW new, Supersedes(t, old, new)
    PROVE  RowsInv'
<1> DEFINE link == Relink(old, new)
           s == {link, Ensure(old), Ensure(new), Sync(old), Sync(new)}
<1>0. PICK R, status : Superseded(t, old, new, R, status)
  BY SupersedeShape
<1> DEFINE N == ToSet(R)
           M == {old, new}
           x == NoStatement
<1>1. /\ UNCHANGED <<facts, node, prop>>
      /\ Moves(t, x, N, R, M)
      /\ link.do = "relink" /\ link.m = new /\ link.n = mem[new].by
      /\ link.set = mem[new].over \cup {old}
      /\ s \subseteq N /\ N \subseteq s \cup {Retire(old, new)}
      /\ old \in Stored /\ new \in Stored \ {old}
      /\ mem' = Lifecycle(old, new, status) /\ status \in Statuses
      /\ status # mem[old].status => status = "deprecated" /\ Retire(old, new) \in N
      /\ Retire(old, new) \in N => status = "deprecated"
  BY <1>0 DEF Superseded
<1>2. t \in Callers /\ RowTypes /\ OpTypes /\ Stored \subseteq Ids /\ Nobody \notin Ids
  BY StoredIds DEF Callers, MemoryShape, Nobody, Ids
<1>3. old \in Ids /\ new \in Ids \cup {Nobody} /\ old \in M /\ status \in Statuses
      /\ new \in Ids
  BY <1>1, <1>2
<1>4. /\ Ensure(old).do = "ensure" /\ Sync(old).do = "sync" /\ Sync(old).m = old
      /\ Retire(old, new).do = "retire" /\ Retire(old, new).m = old
      /\ Ensure(new).do = "ensure" /\ Sync(new).do = "sync"
  BY <1>3, DeedsAre
<1>6. /\ x.do = "none" /\ \A y \in N : y.do # "insert"
      /\ \A y \in N : y.do = "retire" => y.m = old /\ status = "deprecated"
      /\ \A y \in N : y.do = "relink" => y = link
  BY <1>1, <1>4 DEF NoStatement
<1> HIDE DEF link, s
<1>7. /\ Stored' = Stored /\ \A k \in Stored \ {old} : mem'[k] = mem[k]
      /\ mem'[old].status = status /\ mem'[old].content = mem[old].content
      /\ mem'[new] = mem[new]
  BY <1>1, <1>2, <1>3, LifecycleIs
<1> HIDE DEF x
<1>8. StatementsFresh'
  <2>1. \A y \in ToSet(R) : Fresh(y)'
    <3> SUFFICES ASSUME NEW y \in N PROVE Fresh(y)'
      OBVIOUS
    <3>1. CASE y.do = "retire"
      BY <1>6, <1>7, <3>1 DEF Fresh
    <3>2. CASE y.do = "relink"
      BY <1>1, <1>6, <1>7, <3>2 DEF Fresh
    <3> QED BY <1>6, <3>1, <3>2 DEF Fresh
  <2>2. \A k \in Stored \ M : mem'[k] = mem[k]
    BY <1>7
  <2>3. \A k \in Stored : mem'[k].content = mem[k].content
    BY <1>7
  <2> HIDE DEF N, M
  <2> QED BY <1>1, <1>2, <2>1, <2>2, <2>3, FreshMoves DEF RowsInv
<1>9. SomePends({"sync"}, old)' /\ (Retire(old, new) \in N => SomePends({"retire"}, old)')
  <2>1. Sync(old) \in ToSet(R)
    BY <1>1 DEF s
  <2>2. "sync" \in {"sync"} /\ "retire" \in {"retire"}
    OBVIOUS
  <2>3. ASSUME Retire(old, new) \in N PROVE SomePends({"retire"}, old)'
    <3> HIDE DEF M
    <3> QED BY <1>1, <1>2, <1>3, <1>4, <2>2, <2>3, PendsNew DEF N
  <2> HIDE DEF N, M
  <2>4. SomePends({"sync"}, old)'
    BY <1>1, <1>2, <1>3, <1>4, <2>1, <2>2, PendsNew
  <2> QED BY <2>3, <2>4 DEF N
<1>10. LinksBack(new, old)'
  <2>1. link \in N
    BY <1>1 DEF s
  <2>2. Stores(new, link, old)
    BY <1>1 DEF Stores
  <2>3. Todo(t)' = N
    BY <1>1, <1>2, TodoMoves
  <2> QED BY <1>2, <2>1, <2>2, <2>3 DEF LinksBack, Stores
<1>11. \A y \in N : y.do = "relink" => y.n = mem[y.m].by /\ y.m \in Stored \ {old}
  BY <1>1, <1>6
<1>12. x.do \notin {"retire", "ensure", "insert", "sync"} /\ x.do \notin Linking
  BY <1>6 DEF Linking
<1>13. /\ status # mem[old].status => status = "deprecated" /\ SomePends({"retire"}, old)'
       /\ new # Nobody
  BY <1>1, <1>2, <1>3, <1>9
<1> HIDE DEF N, M
<1> QED BY <1>1, <1>2, <1>3, <1>8, <1>9, <1>10, <1>11, <1>12, <1>13, LifecycleChanges

LEMMA FixtureRows ==
    ASSUME MemoryShape, RowsInv, DeprecateFixture
    PROVE  RowsInv'
<1>0. PICK s, S, M : s = Current(Operator) /\ S = Tail(op[Operator].todo)
                     /\ M = op[Operator].mine
  OBVIOUS
<1> DEFINE m == s.m
           x == Retire(m, Nobody)
           R == <<x>> \o S
           N == {x}
<1>1. /\ UNCHANGED <<facts, node, prop>> /\ op[Operator].todo # <<>> /\ s.do = "fixture"
      /\ m \in Stored /\ m \in M
      /\ \/ /\ mem' = Lifecycle(m, Nobody, "deprecated")
            /\ Moves(Operator, s, N, R, M)
            /\ Has(op[Operator].todo, {"sync"}, m)
         \/ /\ mem' = mem /\ Forgets({Operator})
  BY <1>0, FixtureShape
<1>2. /\ Operator \in Callers /\ RowTypes /\ OpTypes /\ Stored \subseteq Ids /\ Nobody \notin Ids
      /\ Nobody \in Ids \cup {Nobody} /\ "deprecated" \in Statuses
  BY StoredIds DEF Callers, MemoryShape, Nobody, Ids, Statuses
<1>3. x \in Statement /\ x.do = "retire" /\ x.m = m
  BY <1>1, <1>2, DeedsAre
<1>4. S \in Seq(Statement)
  BY <1>0, <1>1, <1>2, HeadIs
<1>5. ToSet(R) = {x} \cup ToSet(S)
  <2> DEFINE P == <<x>>
  <2>1. P \in Seq(Statement) /\ ToSet(P) = {x}
    BY <1>3 DEF ToSet
  <2> HIDE DEF P, x
  <2>2. ToSet(P \o S) = ToSet(P) \cup ToSet(S)
    BY <1>4, <2>1, JoinSet
  <2> QED BY <2>1, <2>2 DEF P
<1>6. CASE mem' = mem /\ Forgets({Operator})
  BY <1>1, <1>6, QuietForgets
<1>7. CASE /\ mem' = Lifecycle(m, Nobody, "deprecated")
           /\ Moves(Operator, s, N, R, M)
           /\ Has(op[Operator].todo, {"sync"}, m)
  <2>1. /\ Stored' = Stored /\ \A k \in Stored \ {m} : mem'[k] = mem[k]
        /\ mem'[m].status = "deprecated" /\ mem'[m].content = mem[m].content
    BY <1>1, <1>2, <1>7, LifecycleIs
  <2>2. mixed \subseteq mixed'
    BY <1>2, <1>7, TodoMoves
  <2> HIDE DEF m, x
  <2>3. StatementsFresh'
    <3>1. \A y \in ToSet(S) : Fresh(y)'
      <4>1. \A k \in Stored : mem[k].status = "deprecated" => mem'[k].status = "deprecated"
        BY <2>1
      <4> QED BY <1>0, <1>1, <1>2, <2>1, <2>2, <4>1, FreshRest DEF RowsInv
    <3>2. Fresh(x)'
      BY <1>3, <2>1 DEF Fresh
    <3>3. \A y \in ToSet(R) : Fresh(y)'
      BY <1>5, <3>1, <3>2
    <3>4. \A k \in Stored \ M : mem'[k] = mem[k]
      BY <1>1, <2>1
    <3>5. \A k \in Stored : mem'[k].content = mem[k].content
      BY <2>1
    <3> HIDE DEF N, R
    <3> QED BY <1>2, <1>7, <3>3, <3>4, <3>5, FreshMoves DEF RowsInv
  <2>4. SomePends({"sync"}, m)'
    <3>1. SomePends({"sync"}, m)
      BY <1>0, <1>1, <1>2, <1>7 DEF SomePends, Pends
    <3> HIDE DEF N, R
    <3> QED BY <1>1, <1>2, <1>7, <3>1, PendsMoves
  <2>5. SomePends({"retire"}, m)'
    <3>1. x \in ToSet(R) /\ x.do \in {"retire"}
      BY <1>3, <1>5
    <3> HIDE DEF N, R
    <3> QED BY <1>1, <1>2, <1>3, <1>7, <3>1, PendsNew
  <2>6. /\ s.do \notin {"retire", "ensure", "insert", "sync"} /\ s.do \notin Linking
        /\ \A y \in N : y.do = "relink" => y.n = mem[y.m].by /\ y.m \in Stored \ {m}
    BY <1>1, <1>3 DEF Linking
  <2>7. Nobody \notin Stored
    BY <1>2
  <2> HIDE DEF N, R
  <2> QED BY <1>1, <1>2, <1>7, <2>3, <2>4, <2>5, <2>6, <2>7, LifecycleChanges
<1> QED BY <1>1, <1>6, <1>7

LEMMA LinkRows ==
    ASSUME MemoryShape, RowsInv, NEW c \in Callers, LinkReplacement(c)
    PROVE  RowsInv'
<1>0. PICK s, S, M : s = Current(c) /\ S = Tail(op[c].todo) /\ M = op[c].mine
  OBVIOUS
<1> DEFINE X == s.m
<1>1. /\ UNCHANGED <<facts, node, prop>>
      /\ op[c].todo # <<>> /\ s.do \in Linking /\ s \in Todo(c)
      /\ X \in Stored /\ X \in M /\ Stored' = Stored
      /\ Moves(c, s, {}, S, M)
      /\ Has(op[c].todo, {"sync"}, X)
      /\ \A k \in Stored \ {X} : mem'[k] = mem[k]
      /\ \A k \in Stored : mem'[k].status = mem[k].status /\ mem'[k].content = mem[k].content
      /\ \/ /\ s.do = "link" /\ mem'[X].by = mem[X].by
            /\ mem'[X].over = mem[X].over \cup {s.n}
         \/ /\ s.do = "relink" /\ mem'[X].by = s.n /\ mem'[X].over = s.set
            /\ mem[X].over \ s.set \subseteq mixed'
  BY <1>0, LinkShape
<1>2. OpTypes /\ mixed \subseteq mixed' /\ TodoFrom({}) /\ M = op[c].mine /\ S = Tail(op[c].todo)
  BY <1>0, <1>1, TodoMoves DEF MemoryShape
<1>3. Fresh(s)
  BY <1>1 DEF RowsInv, StatementsFresh
<1>4. s.do = "relink" /\ X \notin mixed' => s.n = mem[X].by /\ mem[X].over \subseteq s.set
  BY <1>1, <1>2, <1>3 DEF Fresh
<1>5. s.do = "relink" => s.n \in (Stored \cup {Nobody}) \ {X}
  BY <1>1, OwnedIs DEF StatementOK, Linking
<1>6. StatementsFresh'
  <2>1. \A k \in Stored : mem[k].status = "deprecated" => mem'[k].status = "deprecated"
    BY <1>1
  <2>2. \A y \in ToSet(S) : Fresh(y)'
    BY <1>1, <1>2, <2>1, FreshRest DEF RowsInv
  <2>3. \A k \in Stored \ M : mem'[k] = mem[k]
    BY <1>1
  <2> QED BY <1>1, <2>2, <2>3, FreshMoves DEF RowsInv
<1> HIDE DEF X
<1>7. FactsInv'
  <2> SUFFICES ASSUME NEW m \in Stored PROVE FactsOK(m)'
    BY <1>1 DEF FactsInv
  <2>1. FactsOK(m)
    BY DEF RowsInv, FactsInv
  <2>2. StillPends(m)
    BY <1>1, <1>2, PendsStep DEF Linking
  <2>3. m \notin mixed' => mem'[m].by = mem[m].by
    BY <1>1, <1>4
  <2> QED BY <1>1, <1>2, <2>1, <2>2, <2>3, FactsKept
<1>8. LinksInv'
  <2>1. ASSUME NEW k \in Stored \ mixed', NEW m, LinksBack(k, m) PROVE LinksBack(k, m)'
    <3>1. m \in mem[k].over => m \in mem'[k].over
      BY <1>1, <1>4
    <3>2. Stores(k, s, m) => m \in mem'[k].over
      BY <1>1 DEF Stores, X
    <3> QED BY <1>1, <2>1, <3>1, <3>2, BackKept
  <2>2. ASSUME NEW m \in Stored', NEW k \in Stored' \ mixed', mem'[m].by = k
        PROVE  LinksBack(k, m)'
    <3>1. CASE mem[m].by = k
      <4>1. LinksBack(k, m)
        BY <1>1, <1>2, <2>2, <3>1 DEF RowsInv, LinksInv
      <4> QED BY <1>1, <2>1, <4>1
    <3>2. CASE mem[m].by # k
      <4>1. m = X /\ s.do = "relink" /\ s.n = k
        BY <1>1, <2>2, <3>2
      <4>2. LinksBack(k, m)
        BY <1>1, <1>2, <2>2, <4>1 DEF RowsInv, LinksInv, X
      <4> QED BY <1>1, <2>1, <4>2
    <3> QED BY <3>1, <3>2
  <2>3. ASSUME NEW d \in Callers, NEW y \in Todo(d)', y.do = "relink", y.n \in Stored' \ mixed'
        PROVE  LinksBack(y.n, y.m)'
    <3>1. y \in Todo(d)
      BY <1>2, <2>3 DEF TodoFrom
    <3>2. LinksBack(y.n, y.m)
      BY <1>1, <1>2, <2>3, <3>1 DEF RowsInv, LinksInv
    <3> QED BY <1>1, <2>1, <2>3, <3>2
  <2> QED BY <2>2, <2>3 DEF LinksInv
<1>9. NodesInv'
  <2>1. SomePends({"sync"}, X)'
    <3>1. SomePends({"sync"}, X)
      BY <1>1, <1>2 DEF SomePends, Pends
    <3>2. s.do \notin {"sync"}
      BY <1>1 DEF Linking
    <3> QED BY <1>1, <1>2, <3>1, <3>2, PendsMoves
  <2>2. mem[X].over \ mem'[X].over \subseteq mixed'
    BY <1>1
  <2>3. s.do # "sync"
    BY <1>1 DEF Linking
  <2> QED BY <1>1, <2>1, <2>2, <2>3, NodesMoves DEF RowsInv
<1> QED BY <1>6, <1>7, <1>8, <1>9 DEF RowsInv

-----------------------------------------------------------------------------
(* What was checked before a memory is stored *)

\* No row becomes active, and no row or proposal changes what was compared.
SameChecks ==
    /\ \A k \in Stored : /\ mem'[k].content = mem[k].content /\ mem'[k].maker = mem[k].maker
                         /\ mem'[k].seen = mem[k].seen
                         /\ mem'[k].status = "active" => mem[k].status = "active"
    /\ \A p \in DOMAIN prop : /\ prop'[p].content = prop[p].content
                              /\ prop'[p].action = prop[p].action
                              /\ prop'[p].seen = prop[p].seen /\ prop'[p].known = prop[p].known
    /\ Stored \subseteq Stored' /\ DOMAIN prop \subseteq DOMAIN prop'

LEMMA NewStays ==
    ASSUME SameChecks, NEW c, NEW S, S \subseteq Stored
    PROVE  /\ NewAmong(c, S) => NewAmong(c, S)'
           /\ FitsAmong(c, S) => FitsAmong(c, S)'
<1>1. ASSUME NEW k \in S, k \in Active' PROVE k \in Active /\ mem'[k].content = mem[k].content
  BY <1>1 DEF SameChecks, Active
<1> QED BY <1>1 DEF NewAmong, FitsAmong

\* The proposal a pending store comes from.
LEMMA StoreFrom ==
    ASSUME MemoryShape, NEW c \in Callers, NEW y \in Todo(c), y.do = "store"
    PROVE  /\ y.p \in DOMAIN prop \cup {Nobody} /\ y.set \subseteq Stored
           /\ c # Worker => y.p = Nobody
           /\ c = Worker => y.p \in DOMAIN prop
BY OwnedIs DEF StatementOK

LEMMA StoreStays ==
    ASSUME SameChecks, NEW y, y.p \in DOMAIN prop \cup {Nobody}, y.set \subseteq Stored,
           StoreOK(y)
    PROVE  StoreOK(y)'
<1>1. NewAmong(y.c, y.set)'
  BY NewStays DEF StoreOK
<1>2. y.p # Nobody => /\ prop'[y.p].action = prop[y.p].action
                      /\ prop'[y.p].content = prop[y.p].content
                      /\ prop'[y.p].seen = prop[y.p].seen
  BY DEF SameChecks
<1> QED BY <1>1, <1>2 DEF StoreOK

LEMMA ChecksKept ==
    ASSUME MemoryShape, ChecksInv, SameChecks, NEW N, TodoFrom(N),
           \A y \in N : y.do = "store" =>
               StoreOK(y) /\ y.p \in DOMAIN prop \cup {Nobody} /\ y.set \subseteq Stored,
           Stored' = Stored,
           \A p \in DOMAIN prop' \ DOMAIN prop : prop'[p].action = "create_new" =>
               /\ NewAmong(prop[p].content, prop[p].seen \cup prop[p].known)'
               /\ FitsAmong(prop[p].content, prop[p].known)'
    PROVE  ChecksInv'
<1>1. ASSUME NEW p \in DOMAIN prop', prop'[p].action = "create_new"
      PROVE  /\ NewAmong(prop[p].content, prop[p].seen \cup prop[p].known)'
             /\ FitsAmong(prop[p].content, prop[p].known)'
  <2>1. CASE p \in DOMAIN prop
    <3>1. PICK t, S, K : t = prop[p].content /\ S = prop[p].seen /\ K = prop[p].known
      OBVIOUS
    <3>2. prop'[p].content = t /\ prop'[p].seen = S /\ prop'[p].known = K
          /\ prop[p].action = "create_new"
      BY <1>1, <2>1, <3>1 DEF SameChecks
    <3>3. S \subseteq Stored /\ K \subseteq Stored
      BY <2>1, <3>1 DEF MemoryShape, RowNames
    <3>4. NewAmong(t, S \cup K) /\ FitsAmong(t, K)
      BY <2>1, <3>1, <3>2 DEF ChecksInv
    <3>5. NewAmong(t, S \cup K)' /\ FitsAmong(t, K)'
      <4> DEFINE W == S \cup K
      <4>1. W \subseteq Stored /\ NewAmong(t, W)
        BY <3>3, <3>4
      <4> HIDE DEF W
      <4>2. NewAmong(t, W)' /\ FitsAmong(t, K)'
        BY <3>3, <3>4, <4>1, NewStays
      <4> QED BY <4>2 DEF W
    <3> QED BY <3>2, <3>5
  <2>2. CASE p \notin DOMAIN prop
    BY <1>1, <2>2
  <2> QED BY <2>1, <2>2
<1>2. ASSUME NEW d \in Callers, NEW y \in Todo(d)', y.do = "store" PROVE StoreOK(y)'
  <2>1. CASE y \in Todo(d)
    BY <1>2, <2>1, StoreFrom, StoreStays DEF ChecksInv
  <2>2. CASE y \notin Todo(d)
    <3>1. y \in N
      BY <2>2 DEF TodoFrom
    <3> QED BY <1>2, <3>1, StoreStays
  <2> QED BY <2>1, <2>2
<1>3. ASSUME NEW m \in Stored', mem'[m].maker # Nobody
      PROVE  /\ prop'[mem'[m].maker].action = "create_new"
             /\ mem'[m].content = prop'[mem'[m].maker].content
  <2>1. mem'[m].maker = mem[m].maker /\ mem'[m].content = mem[m].content
    BY DEF SameChecks
  <2>2. mem[m].maker \in DOMAIN prop
    BY <1>3, <2>1 DEF MemoryShape, RowNames
  <2> QED BY <1>3, <2>1, <2>2 DEF ChecksInv, SameChecks
<1>4. TwinsOnlyFromStaleChecks'
  <2>1. ASSUME NEW k \in Active' PROVE k \in Active /\ k \in Stored
    BY DEF Active, SameChecks
  <2>2. TwinsOnlyFromStaleChecks
    BY DEF ChecksInv
  <2>3. ASSUME NEW m \in Active', NEW n \in Active', m < n, mem'[m].content = mem'[n].content
        PROVE  m \notin mem'[n].seen
    <3>1. /\ m \in Active /\ n \in Active /\ m \in Stored /\ n \in Stored
      BY <2>1
    <3>2. /\ mem'[m].content = mem[m].content /\ mem'[n].content = mem[n].content
          /\ mem'[n].seen = mem[n].seen
      BY <3>1 DEF SameChecks
    <3> QED BY <2>2, <2>3, <3>1, <3>2 DEF TwinsOnlyFromStaleChecks
  <2> QED BY <2>3 DEF TwinsOnlyFromStaleChecks
<1> QED BY <1>1, <1>2, <1>3, <1>4 DEF ChecksInv

-----------------------------------------------------------------------------
(* ... and its preservation *)

\* A step after which the same memories and proposals are to be compared.
LEMMA ChecksMoves ==
    ASSUME MemoryShape, ChecksInv, SameChecks, NEW c \in Callers, NEW x, NEW N, NEW R, NEW M,
           Moves(c, x, N, R, M), \A y \in N : y.do # "store",
           Stored' = Stored, DOMAIN prop' = DOMAIN prop
    PROVE  ChecksInv'
<1>1. TodoFrom(N)
  BY TodoMoves
<1> QED BY <1>1, ChecksKept

LEMMA ChecksForgotten ==
    ASSUME MemoryShape, ChecksInv, NEW D, Forgets(D), UNCHANGED <<mem, prop>>
    PROVE  ChecksInv'
<1> DEFINE N == {}
<1>1. TodoFrom(N) /\ \A y \in N : FALSE
  BY TodoForgotten
<1>2. SameChecks /\ Stored' = Stored /\ DOMAIN prop' = DOMAIN prop
  BY DEF SameChecks, Stored
<1> HIDE DEF N
<1> QED BY <1>1, <1>2, ChecksKept

LEMMA SameRows ==
    ASSUME UNCHANGED <<mem, prop>>
    PROVE  SameChecks /\ Stored' = Stored /\ DOMAIN prop' = DOMAIN prop
BY DEF SameChecks, Stored

LEMMA SameLifecycle ==
    ASSUME MemoryShape, UNCHANGED prop, NEW m \in Stored, NEW by \in Ids \cup {Nobody},
           NEW status \in Statuses, mem' = Lifecycle(m, by, status),
           status = "active" => mem[m].status = "active"
    PROVE  SameChecks /\ Stored' = Stored /\ DOMAIN prop' = DOMAIN prop
<1>1. /\ Stored' = Stored /\ \A k \in Stored \ {m} : mem'[k] = mem[k]
      /\ mem'[m].status = status /\ mem'[m].content = mem[m].content
      /\ mem'[m].maker = mem[m].maker /\ mem'[m].seen = mem[m].seen
  BY LifecycleIs DEF MemoryShape
<1> QED BY <1>1 DEF SameChecks

\* A proposal's application stores what its preflight compared.
LEMMA ApplyStores ==
    ASSUME MemoryShape, ChecksInv, NEW p \in DOMAIN prop, prop[p].action = "create_new",
           NEW y \in ToSet(Apply(p)), y.do = "store"
    PROVE  /\ StoreOK(y) /\ y.p \in DOMAIN prop \cup {Nobody} /\ y.set \subseteq Stored
           /\ y.p = p
<1>1. /\ ToSet(Apply(p)) = {StoreText(prop[p].content, p, prop[p].seen),
                            ForProposal("applied_create", p)}
      /\ StoreText(prop[p].content, p, prop[p].seen).c = prop[p].content
      /\ StoreText(prop[p].content, p, prop[p].seen).p = p
      /\ StoreText(prop[p].content, p, prop[p].seen).set = prop[p].seen
      /\ ForProposal("applied_create", p).do = "applied_create"
  BY ApplyIs
<1>2. y.c = prop[p].content /\ y.p = p /\ y.set = prop[p].seen
  BY <1>1
<1>3. prop[p].seen \subseteq Stored
  BY DEF MemoryShape, RowNames
<1>4. NewAmong(prop[p].content, prop[p].seen \cup prop[p].known)
  BY DEF ChecksInv
<1>5. NewAmong(y.c, y.set)
  BY <1>2, <1>4 DEF NewAmong
<1> QED BY <1>2, <1>3, <1>5 DEF StoreOK

\* Proposals that keep what they compared.
LEMMA SameStatusRows ==
    ASSUME UNCHANGED mem, DOMAIN prop' = DOMAIN prop,
           \A q \in DOMAIN prop : /\ prop'[q].content = prop[q].content
                                  /\ prop'[q].action = prop[q].action
                                  /\ prop'[q].seen = prop[q].seen
                                  /\ prop'[q].known = prop[q].known
    PROVE  SameChecks /\ Stored' = Stored
BY DEF SameChecks, Stored

LEMMA WriteChecks ==
    ASSUME MemoryShape, ChecksInv, NEW t \in Turns, NEW c \in Contents, Write(t, c)
    PROVE  ChecksInv'
<1> DEFINE y == StoreText(c, Nobody, Stored)
           N == {y}
<1>1. Moves(t, NoStatement, N, <<y>>, {}) /\ UNCHANGED store
  BY WriteShape
<1>2. Stored \in SUBSET Ids
  BY StoredIds DEF MemoryShape
<1>3. y.c = c /\ y.p = Nobody /\ y.set = Stored
  BY <1>2, StoreTextIs
<1>4. NewAmong(c, Stored)
  BY DEF Write, SameText, NewAmong
<1>5. StoreOK(y) /\ y.p \in DOMAIN prop \cup {Nobody} /\ y.set \subseteq Stored
  BY <1>3, <1>4 DEF StoreOK
<1> HIDE DEF y
<1>6. \A z \in N : StoreOK(z) /\ z.p \in DOMAIN prop \cup {Nobody} /\ z.set \subseteq Stored
  BY <1>5
<1> HIDE DEF N
<1>7. t \in Callers
  BY DEF Callers
<1>8. TodoFrom(N)
  BY <1>1, <1>7, TodoMoves
<1>9. SameChecks /\ Stored' = Stored /\ DOMAIN prop' = DOMAIN prop
  BY <1>1, SameRows DEF store
<1> QED BY <1>6, <1>8, <1>9, ChecksKept

LEMMA SettleChecks ==
    ASSUME MemoryShape, ChecksInv, Settle
    PROVE  ChecksInv'
<1>0. PICK s, p, S, M, x : /\ s = Current(Worker) /\ p = s.p /\ S = Tail(op[Worker].todo)
                           /\ M = op[Worker].mine /\ x = ForProposal("decide", p)
  OBVIOUS
<1>1. /\ p \in DOMAIN prop /\ DOMAIN prop' = DOMAIN prop /\ UNCHANGED mem
      /\ \A q \in DOMAIN prop : /\ prop'[q].content = prop[q].content
                                /\ prop'[q].action = prop[q].action
                                /\ prop'[q].seen = prop[q].seen
                                /\ prop'[q].known = prop[q].known
      /\ \/ Moves(Worker, s, {}, S, M)
         \/ /\ Moves(Worker, s, ToSet(Apply(p)), Apply(p) \o S, M)
            /\ prop[p].action = "create_new"
         \/ Moves(Worker, s, {x}, Append(S, x), M) /\ x.do = "decide"
  BY <1>0, SettleShape
<1>2. SameChecks /\ Stored' = Stored /\ Worker \in Callers
  BY <1>1, SameStatusRows DEF Callers
<1>3. CASE Moves(Worker, s, {}, S, M)
  <2> DEFINE N == {}
  <2>1. Moves(Worker, s, N, S, M) /\ \A y \in N : y.do # "store"
    BY <1>3
  <2> HIDE DEF N
  <2> QED BY <1>1, <1>2, <2>1, ChecksMoves
<1>4. CASE /\ Moves(Worker, s, ToSet(Apply(p)), Apply(p) \o S, M)
           /\ prop[p].action = "create_new"
  <2> DEFINE N == ToSet(Apply(p))
  <2>1. TodoFrom(N)
    BY <1>2, <1>4, TodoMoves
  <2>2. \A y \in N : y.do = "store" =>
            StoreOK(y) /\ y.p \in DOMAIN prop \cup {Nobody} /\ y.set \subseteq Stored
    BY <1>1, <1>4, ApplyStores
  <2> HIDE DEF N
  <2> QED BY <1>1, <1>2, <2>1, <2>2, ChecksKept
<1>5. CASE Moves(Worker, s, {x}, Append(S, x), M) /\ x.do = "decide"
  <2> DEFINE N == {x}
  <2>1. Moves(Worker, s, N, Append(S, x), M) /\ \A y \in N : y.do # "store"
    BY <1>5
  <2> HIDE DEF N
  <2> QED BY <1>1, <1>2, <2>1, ChecksMoves
<1> QED BY <1>1, <1>3, <1>4, <1>5

LEMMA DecideChecks ==
    ASSUME MemoryShape, ChecksInv, NEW i \in DOMAIN op[Worker].todo, NEW outcome \in Outcomes,
           NEW confident \in BOOLEAN, Decide(i, outcome, confident)
    PROVE  ChecksInv'
<1>0. PICK s, p, S, M : /\ s = op[Worker].todo[i] /\ p = s.p
                        /\ S = RemoveAt(op[Worker].todo, i) /\ M = op[Worker].mine
  OBVIOUS
<1>1. /\ p \in DOMAIN prop /\ DOMAIN prop' = DOMAIN prop /\ UNCHANGED mem
      /\ \A q \in DOMAIN prop : /\ prop'[q].content = prop[q].content
                                /\ prop'[q].action = prop[q].action
                                /\ prop'[q].seen = prop[q].seen
                                /\ prop'[q].known = prop[q].known
      /\ \/ Moves(Worker, s, {}, S, M)
         \/ /\ Moves(Worker, s, ToSet(Apply(p)), Apply(p) \o S, M)
            /\ prop[p].action = "create_new"
  BY <1>0, DecideShape
<1>2. SameChecks /\ Stored' = Stored /\ Worker \in Callers
  BY <1>1, SameStatusRows DEF Callers
<1>3. CASE Moves(Worker, s, {}, S, M)
  <2> DEFINE N == {}
  <2>1. Moves(Worker, s, N, S, M) /\ \A y \in N : y.do # "store"
    BY <1>3
  <2> HIDE DEF N
  <2> QED BY <1>1, <1>2, <2>1, ChecksMoves
<1>4. CASE /\ Moves(Worker, s, ToSet(Apply(p)), Apply(p) \o S, M)
           /\ prop[p].action = "create_new"
  <2> DEFINE N == ToSet(Apply(p))
  <2>1. TodoFrom(N)
    BY <1>2, <1>4, TodoMoves
  <2>2. \A y \in N : y.do = "store" =>
            StoreOK(y) /\ y.p \in DOMAIN prop \cup {Nobody} /\ y.set \subseteq Stored
    BY <1>1, <1>4, ApplyStores
  <2> HIDE DEF N
  <2> QED BY <1>1, <1>2, <2>1, <2>2, ChecksKept
<1> QED BY <1>1, <1>3, <1>4

LEMMA ProposeChecks ==
    ASSUME MemoryShape, ChecksInv, Propose
    PROVE  ChecksInv'
<1>0. PICK s, S, M, p : /\ s = Current(Worker) /\ S = Tail(op[Worker].todo)
                        /\ M = op[Worker].mine /\ p = Len(prop) + 1
  OBVIOUS
<1>1. PICK x \in Statement :
        /\ UNCHANGED <<mem, facts, node>> /\ Moves(Worker, s, {x}, Append(S, x), M)
        /\ x.do = "settle" /\ DOMAIN prop' = DOMAIN prop \cup {p}
        /\ \A q \in DOMAIN prop : prop'[q] = prop[q]
        /\ prop'[p].seen = Stored /\ prop'[p].known = {m \in Active : HasActiveFact(m)}
        /\ prop'[p].action = "create_new" =>
              SameText(prop'[p].content) = {} /\ ~ConflictingFact(prop'[p].content)
  BY <1>0, ProposeShape
<1>2. SameChecks /\ Stored' = Stored /\ Worker \in Callers
  BY <1>1 DEF SameChecks, Stored, Callers
<1>3. ASSUME NEW q \in DOMAIN prop' \ DOMAIN prop, prop'[q].action = "create_new"
      PROVE  /\ NewAmong(prop[q].content, prop[q].seen \cup prop[q].known)'
             /\ FitsAmong(prop[q].content, prop[q].known)'
  <2>1. q = p
    BY <1>1
  <2>2. PICK t, V, K : t = prop'[q].content /\ V = prop'[q].seen /\ K = prop'[q].known
    OBVIOUS
  <2>3. SameText(t) = {} /\ ~ConflictingFact(t) /\ K = {m \in Active : HasActiveFact(m)}
    BY <1>1, <1>3, <2>1, <2>2
  <2>4. Active' = Active
    BY <1>1, <1>2 DEF Active
  <2>5. \A m \in Active : mem[m].content # t
    BY <2>3 DEF SameText
  <2>6. ASSUME NEW m \in K, KeyOf[mem[m].content] = KeyOf[t] PROVE KeyOf[t] = NoKey
    BY <2>3, <2>5, <2>6 DEF ConflictingFact
  <2>7. NewAmong(t, V \cup K)' /\ FitsAmong(t, K)'
    BY <1>1, <2>4, <2>5, <2>6 DEF NewAmong, FitsAmong
  <2> QED BY <2>2, <2>7
<1> DEFINE N == {x}
<1>4. TodoFrom(N) /\ \A y \in N : y.do # "store"
  BY <1>1, <1>2, TodoMoves
<1> HIDE DEF N
<1> QED BY <1>2, <1>3, <1>4, ChecksKept

LEMMA StoreChecks ==
    ASSUME MemoryShape, ChecksInv, NEW c \in Callers, StoreMemory(c)
    PROVE  ChecksInv'
<1>0. PICK s, n, N, M : /\ s = Current(c) /\ n = Len(mem) + 1
                        /\ N = {Ensure(n), Sync(n)} /\ M = op[c].mine \cup {n}
  OBVIOUS
<1>1. PICK R : R = <<Ensure(n), Sync(n)>> \o Tail(op[c].todo)
  OBVIOUS
<1>2. /\ UNCHANGED <<facts, node, prop>> /\ s.do = "store" /\ s \in Todo(c)
      /\ Moves(c, s, N, R, M) /\ Stored' = Stored \cup {n} /\ n \notin Stored /\ n \in Ids
      /\ \A k \in Stored : mem'[k] = mem[k] /\ k < n
      /\ mem'[n] = NewMemory(s.c, s.p, s.set)
  BY <1>0, <1>1, StoreShape
<1>3. /\ mem'[n].content = s.c /\ mem'[n].maker = s.p /\ mem'[n].seen = s.set
  BY <1>2 DEF NewMemory
<1>4. SameChecks
  BY <1>2 DEF SameChecks
<1>5. StoreOK(s) /\ s.p \in DOMAIN prop \cup {Nobody} /\ s.set \subseteq Stored
  BY <1>2, StoreFrom DEF ChecksInv
<1>6. ASSUME NEW p \in DOMAIN prop, prop[p].action = "create_new"
      PROVE  /\ NewAmong(prop[p].content, prop[p].seen \cup prop[p].known)'
             /\ FitsAmong(prop[p].content, prop[p].known)'
  <2>1. PICK t, V, K : t = prop[p].content /\ V = prop[p].seen \cup prop[p].known
                       /\ K = prop[p].known
    OBVIOUS
  <2>2. V \subseteq Stored /\ K \subseteq Stored
    BY <2>1 DEF MemoryShape, RowNames
  <2>3. NewAmong(t, V) /\ FitsAmong(t, K)
    BY <1>6, <2>1 DEF ChecksInv
  <2>4. NewAmong(t, V)' /\ FitsAmong(t, K)'
    BY <1>4, <2>2, <2>3, NewStays
  <2> QED BY <1>2, <2>1, <2>4
<1>7. ASSUME NEW d \in Callers, NEW y \in Todo(d)', y.do = "store" PROVE StoreOK(y)'
  <2>1. Ensure(n).do = "ensure" /\ Sync(n).do = "sync"
    BY <1>2, DeedsAre DEF Nobody
  <2>2. TodoFrom(N)
    BY <1>2, TodoMoves
  <2>3. y \in Todo(d)
    BY <1>0, <1>7, <2>1, <2>2 DEF TodoFrom
  <2> QED BY <1>4, <1>7, <2>3, StoreFrom, StoreStays DEF ChecksInv
<1>8. ASSUME NEW m \in Stored', mem'[m].maker # Nobody
      PROVE  /\ prop'[mem'[m].maker].action = "create_new"
             /\ mem'[m].content = prop'[mem'[m].maker].content
  <2>1. CASE m = n
    BY <1>2, <1>3, <1>5, <1>8, <2>1 DEF StoreOK
  <2>2. CASE m # n
    <3>1. m \in Stored /\ mem'[m] = mem[m]
      BY <1>2, <2>2
    <3> QED BY <1>2, <1>8, <3>1 DEF ChecksInv
  <2> QED BY <2>1, <2>2
<1>9. TwinsOnlyFromStaleChecks'
  <2>1. ASSUME NEW k \in Active', NEW m \in Active', k < m,
               mem'[k].content = mem'[m].content
        PROVE  k \notin mem'[m].seen
    <3>1. k \in Stored' /\ m \in Stored' /\ mem'[k].status = "active"
          /\ mem'[m].status = "active"
      BY DEF Active
    <3>2. CASE m = n
      <4>1. k \in Stored /\ mem'[k] = mem[k]
        BY <1>2, <2>1, <3>1, <3>2 DEF Stored, Ids
      <4>2. k \in Active /\ mem[k].content = s.c
        BY <1>3, <2>1, <3>1, <3>2, <4>1 DEF Active
      <4> QED BY <1>3, <1>5, <3>2, <4>2 DEF StoreOK, NewAmong
    <3>3. CASE m # n
      <4>1. m \in Stored /\ mem'[m] = mem[m] /\ k # n
        <5>1. m \in Stored /\ mem'[m] = mem[m] /\ m < n
          BY <1>2, <3>1, <3>3
        <5> QED BY <1>2, <2>1, <5>1 DEF Stored, Ids
      <4>2. k \in Stored /\ mem'[k] = mem[k]
        BY <1>2, <3>1, <4>1
      <4>3. k \in Active /\ m \in Active
        BY <3>1, <4>1, <4>2 DEF Active
      <4> QED BY <2>1, <4>1, <4>2, <4>3 DEF ChecksInv, TwinsOnlyFromStaleChecks
    <3> QED BY <3>2, <3>3
  <2> QED BY <2>1 DEF TwinsOnlyFromStaleChecks
<1> QED BY <1>2, <1>6, <1>7, <1>8, <1>9 DEF ChecksInv

LEMMA LinkChecks ==
    ASSUME MemoryShape, ChecksInv, NEW c \in Callers, LinkReplacement(c)
    PROVE  ChecksInv'
<1> DEFINE N == {}
<1>0. PICK s, S, M : s = Current(c) /\ S = Tail(op[c].todo) /\ M = op[c].mine
  OBVIOUS
<1>1. /\ UNCHANGED <<facts, node, prop>> /\ Moves(c, s, N, S, M) /\ Stored' = Stored
      /\ \A k \in Stored : /\ mem'[k].status = mem[k].status
                           /\ mem'[k].content = mem[k].content
                           /\ mem'[k].maker = mem[k].maker /\ mem'[k].seen = mem[k].seen
  BY <1>0, LinkShape
<1>2. SameChecks /\ \A y \in N : y.do # "store"
  BY <1>1 DEF SameChecks
<1> HIDE DEF N
<1> QED BY <1>1, <1>2, ChecksMoves

-----------------------------------------------------------------------------
(* Proposals, the statements that carry them and the memories made of them *)

LEMMA FollowTail ==
    ASSUME NEW s \in Seq(Statement), s # <<>>, Follow(s)
    PROVE  Follow(Tail(s))
<1>1. /\ Len(s) \in Nat /\ Len(s) >= 1 /\ Len(Tail(s)) = Len(s) - 1
      /\ \A i \in 1..(Len(s) - 1) : Tail(s)[i] = s[i + 1]
  BY TailIs
<1>2. ASSUME NEW i \in 1..Len(Tail(s)), Tail(s)[i].do = "store"
      PROVE  /\ i + 1 <= Len(Tail(s)) /\ Tail(s)[i + 1].do = "applied_create"
             /\ Tail(s)[i + 1].p = Tail(s)[i].p
  <2>1. i \in Nat /\ i + 1 \in 1..Len(s) /\ Tail(s)[i] = s[i + 1]
    BY <1>1
  <2>2. /\ i + 2 <= Len(s) /\ s[i + 2].do = "applied_create" /\ s[i + 2].p = s[i + 1].p
    BY <1>2, <2>1 DEF Follow
  <2>3. i + 1 \in 1..(Len(s) - 1)
    BY <1>1, <2>1, <2>2
  <2>4. Tail(s)[i + 1] = s[i + 2]
    BY <1>1, <2>3
  <2> QED BY <1>1, <2>1, <2>2, <2>3, <2>4
<1> QED BY <1>2 DEF Follow

LEMMA FollowJoin ==
    ASSUME NEW r \in Seq(Statement), NEW s \in Seq(Statement), Follow(r), Follow(s)
    PROVE  Follow(r \o s)
<1>1. /\ Len(r \o s) = Len(r) + Len(s) /\ Len(r) \in Nat /\ Len(s) \in Nat
      /\ \A i \in 1..Len(r) : (r \o s)[i] = r[i]
      /\ \A i \in 1..Len(s) : (r \o s)[Len(r) + i] = s[i]
  BY ConcatIs
<1> DEFINE T == r \o s
<1> HIDE DEF T
<1>2. ASSUME NEW i \in 1..Len(T), T[i].do = "store"
      PROVE  i + 1 <= Len(T) /\ T[i + 1].do = "applied_create" /\ T[i + 1].p = T[i].p
  <2>1. CASE i <= Len(r)
    <3>1. i \in 1..Len(r) /\ T[i] = r[i]
      BY <1>1, <2>1 DEF T
    <3>2. i + 1 <= Len(r) /\ r[i + 1].do = "applied_create" /\ r[i + 1].p = r[i].p
      BY <1>2, <3>1 DEF Follow
    <3>3. i + 1 \in 1..Len(r) /\ i + 1 <= Len(T)
      BY <1>1, <3>1, <3>2 DEF T
    <3>4. T[i + 1] = r[i + 1]
      BY <1>1, <3>3 DEF T
    <3> QED BY <3>1, <3>2, <3>3, <3>4
  <2>2. CASE i > Len(r)
    <3>1. PICK j \in 1..Len(s) : i = Len(r) + j
      <4>1. i - Len(r) \in 1..Len(s) /\ i = Len(r) + (i - Len(r))
        BY <1>1, <2>2 DEF T
      <4> QED BY <4>1
    <3>2. T[i] = s[j]
      BY <1>1, <3>1 DEF T
    <3>3. j + 1 <= Len(s) /\ s[j + 1].do = "applied_create" /\ s[j + 1].p = s[j].p
      BY <1>2, <3>2 DEF Follow
    <3>4. j + 1 \in 1..Len(s) /\ i + 1 = Len(r) + (j + 1) /\ i + 1 <= Len(T)
      BY <1>1, <3>1, <3>3 DEF T
    <3>5. T[i + 1] = s[j + 1]
      BY <1>1, <3>4 DEF T
    <3> QED BY <3>2, <3>3, <3>4, <3>5
  <2> QED BY <1>1, <2>1, <2>2 DEF T
<1>3. Follow(T)
  BY <1>2 DEF Follow
<1> QED BY <1>3 DEF T

LEMMA OneCarrierTail ==
    ASSUME NEW s \in Seq(Statement), s # <<>>, OneCarrier(s)
    PROVE  /\ OneCarrier(Tail(s))
           /\ s[1].do \in Carriers =>
                 \A x \in ToSet(Tail(s)) : x.do \in Carriers => x.p # s[1].p
<1>1. /\ Len(s) \in Nat /\ Len(s) >= 1 /\ Len(Tail(s)) = Len(s) - 1
      /\ \A i \in 1..(Len(s) - 1) : Tail(s)[i] = s[i + 1]
      /\ Tail(s) \in Seq(Statement)
  BY TailIs
<1>2. \A i \in 1..Len(Tail(s)) : i \in Int /\ i + 1 \in 2..Len(s) /\ Tail(s)[i] = s[i + 1]
  BY <1>1
<1>3. ASSUME NEW i \in 1..Len(Tail(s)), NEW j \in 1..Len(Tail(s)),
             Tail(s)[i].do \in Carriers, Tail(s)[j].do \in Carriers,
             Tail(s)[i].p = Tail(s)[j].p
      PROVE  i = j
  <2>1. i + 1 = j + 1
    BY <1>2, <1>3 DEF OneCarrier
  <2> QED BY <1>2, <2>1
<1>4. ASSUME s[1].do \in Carriers, NEW x \in ToSet(Tail(s)), x.do \in Carriers
      PROVE  x.p # s[1].p
  <2>1. PICK i \in 1..Len(Tail(s)) : x = Tail(s)[i]
    BY <1>1, InSet
  <2>2. i + 1 \in 2..Len(s) /\ x = s[i + 1] /\ 1 \in 1..Len(s)
    BY <1>1, <1>2, <2>1
  <2> QED BY <1>4, <2>2 DEF OneCarrier
<1> QED BY <1>3, <1>4 DEF OneCarrier

LEMMA OneCarrierJoin ==
    ASSUME NEW r \in Seq(Statement), NEW s \in Seq(Statement), OneCarrier(r), OneCarrier(s),
           \A x \in ToSet(r), y \in ToSet(s) :
               x.do \in Carriers /\ y.do \in Carriers => x.p # y.p
    PROVE  OneCarrier(r \o s)
<1>1. /\ Len(r \o s) = Len(r) + Len(s) /\ Len(r) \in Nat /\ Len(s) \in Nat
      /\ \A i \in 1..Len(r) : (r \o s)[i] = r[i]
      /\ \A i \in 1..Len(s) : (r \o s)[Len(r) + i] = s[i]
  BY ConcatIs
<1>2. /\ \A i \in 1..Len(r) : r[i] \in ToSet(r)
      /\ \A i \in 1..Len(s) : s[i] \in ToSet(s)
  BY InSet
<1> DEFINE T == r \o s
<1>3. \A i \in 1..Len(T) : \/ i \in 1..Len(r) /\ T[i] = r[i]
                           \/ \E j \in 1..Len(s) : i = Len(r) + j /\ T[i] = s[j]
  <2>1. ASSUME NEW i \in 1..Len(T), i \notin 1..Len(r)
        PROVE  \E j \in 1..Len(s) : i = Len(r) + j /\ T[i] = s[j]
    <3>1. i - Len(r) \in 1..Len(s) /\ i = Len(r) + (i - Len(r))
      BY <1>1, <2>1
    <3> HIDE DEF T
    <3>2. T[Len(r) + (i - Len(r))] = s[i - Len(r)]
      BY <1>1, <3>1 DEF T
    <3> QED BY <3>1, <3>2
  <2> QED BY <1>1, <2>1
<1> HIDE DEF T
<1>4. ASSUME NEW i \in 1..Len(T), NEW j \in 1..Len(T), T[i].do \in Carriers,
             T[j].do \in Carriers, T[i].p = T[j].p
      PROVE  i = j
  <2>1. CASE i \in 1..Len(r) /\ T[i] = r[i] /\ j \in 1..Len(r) /\ T[j] = r[j]
    BY <1>4, <2>1 DEF OneCarrier
  <2>2. CASE /\ \E k \in 1..Len(s) : i = Len(r) + k /\ T[i] = s[k]
             /\ \E k \in 1..Len(s) : j = Len(r) + k /\ T[j] = s[k]
    BY <1>4, <2>2 DEF OneCarrier
  <2>3. CASE \E k \in 1..Len(r), l \in 1..Len(s) :
                \/ T[i] = r[k] /\ T[j] = s[l]
                \/ T[j] = r[k] /\ T[i] = s[l]
    BY <1>2, <1>4, <2>3
  <2> QED BY <1>3, <2>1, <2>2, <2>3
<1>5. OneCarrier(T)
  BY <1>4 DEF OneCarrier
<1> QED BY <1>5 DEF T

LEMMA NoCarriers ==
    ASSUME NEW s \in Seq(Statement), \A x \in ToSet(s) : x.do \notin Carriers \cup {"store"}
    PROVE  OneCarrier(s) /\ Follow(s)
<1>1. \A i \in 1..Len(s) : s[i] \in ToSet(s)
  BY InSet
<1> QED BY <1>1 DEF OneCarrier, Follow

\* A carrier of its own after or before a list.
LEMMA OneMore ==
    ASSUME NEW s \in Seq(Statement), NEW x \in Statement, x.do # "store",
           OneCarrier(s), Follow(s),
           \A y \in ToSet(s) : y.do \in Carriers => y.p # x.p
    PROVE  OneCarrier(Append(s, x)) /\ Follow(Append(s, x))
<1>1. Append(s, x) = s \o <<x>> /\ <<x>> \in Seq(Statement) /\ ToSet(<<x>>) = {x}
  <2>1. ToSet(<<x>>) = {<<x>>[i] : i \in {1}}
    BY DEF ToSet
  <2> QED BY <2>1, AppendSet
<1>2. OneCarrier(<<x>>) /\ Follow(<<x>>)
  <2>1. Len(<<x>>) = 1 /\ <<x>>[1] = x /\ 1..1 = {1}
    OBVIOUS
  <2> QED BY <2>1 DEF OneCarrier, Follow
<1> DEFINE r == <<x>>
<1>3. r \in Seq(Statement) /\ ToSet(r) = {x} /\ OneCarrier(r) /\ Follow(r)
  BY <1>1, <1>2
<1>4. Append(s, x) = s \o r
  BY <1>1
<1> HIDE DEF r
<1>5. OneCarrier(s \o r)
  BY <1>3, OneCarrierJoin
<1> QED BY <1>3, <1>4, <1>5, FollowJoin

LEMMA OneFewer ==
    ASSUME NEW s \in Seq(Statement), NEW i \in 1..Len(s), OneCarrier(s),
           \A x \in ToSet(s) : x.do = "decide"
    PROVE  /\ OneCarrier(RemoveAt(s, i)) /\ Follow(RemoveAt(s, i))
           /\ \A y \in ToSet(RemoveAt(s, i)) : y.p # s[i].p
<1>0. PICK r : r = RemoveAt(s, i)
  OBVIOUS
<1>1. /\ Len(r) = Len(s) - 1 /\ Len(s) \in Nat /\ r \in Seq(Statement)
      /\ \A j \in 1..(Len(s) - 1) : r[j] = s[IF j < i THEN j ELSE j + 1]
  <2>1. /\ RemoveAt(s, i) \in Seq(Statement) /\ Len(RemoveAt(s, i)) = Len(s) - 1
        /\ \A j \in 1..(Len(s) - 1) : RemoveAt(s, i)[j] = s[IF j < i THEN j ELSE j + 1]
    BY RemoveAtIs
  <2> QED BY <1>0, <2>1
<1>2. \A j \in 1..Len(s) : s[j].do = "decide"
  BY InSet
<1>3. ASSUME NEW j \in 1..Len(r)
      PROVE  \E k \in 1..Len(s) : /\ r[j] = s[k] /\ k # i
                                  /\ k = IF j < i THEN j ELSE j + 1
  BY <1>1
<1>4. ASSUME NEW j \in 1..Len(r), NEW k \in 1..Len(r), r[j].p = r[k].p
      PROVE  j = k
  <2>1. PICK a, b \in 1..Len(s) : /\ r[j] = s[a] /\ a = IF j < i THEN j ELSE j + 1
                                  /\ r[k] = s[b] /\ b = IF k < i THEN k ELSE k + 1
    BY <1>3
  <2>2. a = b
    BY <1>2, <1>4, <2>1 DEF OneCarrier, Carriers
  <2> QED BY <1>1, <2>1, <2>2
<1>5. \A j \in 1..Len(r) : r[j].do = "decide" /\ r[j].p # s[i].p
  <2> SUFFICES ASSUME NEW j \in 1..Len(r)
               PROVE  r[j].do = "decide" /\ r[j].p # s[i].p
    OBVIOUS
  <2>1. PICK k \in 1..Len(s) : r[j] = s[k] /\ k # i
    BY <1>3
  <2>2. s[k].p # s[i].p
    BY <1>2, <2>1 DEF OneCarrier, Carriers
  <2> QED BY <1>2, <2>1, <2>2
<1>6. \A y \in ToSet(r) : \E j \in 1..Len(r) : y = r[j]
  BY <1>1, InSet
<1>7. OneCarrier(r) /\ Follow(r) /\ \A y \in ToSet(r) : y.p # s[i].p
  BY <1>4, <1>5, <1>6 DEF OneCarrier, Follow
<1> QED BY <1>0, <1>7

\* The statement that applies a proposal comes right after the one that stores its memory.
LEMMA StoreNext ==
    ASSUME NEW s \in Seq(Statement), s # <<>>, OneCarrier(s), Follow(s), s[1].do = "store"
    PROVE  \E y \in ToSet(Tail(s)) :
             /\ y.do = "applied_create" /\ y.p = s[1].p
             /\ \A x \in ToSet(Tail(s)) :
                   x.do \in {"settle", "decide", "store"} => x.p # s[1].p
<1>1. /\ Len(s) \in Nat /\ Len(s) >= 1 /\ Len(Tail(s)) = Len(s) - 1
      /\ \A i \in 1..(Len(s) - 1) : Tail(s)[i] = s[i + 1]
      /\ Tail(s) \in Seq(Statement)
  BY TailIs
<1>2. Len(s) >= 2 /\ s[2].do = "applied_create" /\ s[2].p = s[1].p
  BY <1>1 DEF Follow
<1>3. 1 \in 1..Len(Tail(s)) /\ Tail(s)[1] = s[2]
  BY <1>1, <1>2
<1>4. s[2] \in ToSet(Tail(s))
  BY <1>1, <1>3, InSet
<1>5. ASSUME NEW x \in ToSet(Tail(s)), x.do \in {"settle", "decide", "store"}, x.p = s[1].p
      PROVE  FALSE
  <2>1. PICK i \in 1..Len(Tail(s)) : x = Tail(s)[i]
    BY <1>1, InSet
  <2>2. i \in Nat /\ i >= 1 /\ i + 1 \in 1..Len(s) /\ x = s[i + 1]
    BY <1>1, <2>1
  <2>3. CASE x.do = "store"
    <3>1. i + 2 <= Len(s) /\ s[i + 2].do = "applied_create" /\ s[i + 2].p = s[1].p
      BY <1>5, <2>2, <2>3 DEF Follow
    <3>2. i + 2 \in 1..Len(s) /\ 2 \in 1..Len(s)
      BY <1>1, <1>2, <2>2, <3>1
    <3>3. i + 2 = 2
      BY <1>2, <3>1, <3>2 DEF OneCarrier, Carriers
    <3> QED BY <2>2, <3>3
  <2>4. CASE x.do # "store"
    <3>1. i + 1 = 2
      BY <1>1, <1>2, <1>5, <2>2, <2>4 DEF OneCarrier, Carriers
    <3> QED BY <1>2, <1>5, <2>2, <3>1
  <2> QED BY <2>3, <2>4
<1> QED BY <1>2, <1>4, <1>5

\* The first statement applies a proposal that has its memory.
LEMMA StoreBefore ==
    ASSUME NEW s \in Seq(Statement), s # <<>>, OneCarrier(s), Follow(s),
           s[1].do = "applied_create"
    PROVE  \A y \in ToSet(s) : y.do = "store" => y.p # s[1].p
<1>1. ASSUME NEW y \in ToSet(s), y.do = "store", y.p = s[1].p PROVE FALSE
  <2>1. PICK i \in 1..Len(s) : y = s[i]
    BY InSet
  <2>2. Len(s) \in Nat /\ 1 \in 1..Len(s) /\ i \in Nat
    BY InSet
  <2>3. i + 1 <= Len(s) /\ s[i + 1].do = "applied_create" /\ s[i + 1].p = s[1].p
    BY <1>1, <2>1 DEF Follow
  <2>4. i + 1 = 1
    BY <2>1, <2>2, <2>3 DEF OneCarrier, Carriers
  <2> QED BY <2>1, <2>2, <2>4
<1> QED BY <1>1

\* A step that stores no memory for a proposal.
SameMakers ==
    /\ Stored \subseteq Stored'
    /\ \A k \in Stored : mem'[k].maker = mem[k].maker
    /\ \A k \in Stored' \ Stored : mem'[k].maker = Nobody

LEMMA MadeStays ==
    ASSUME SameMakers, NEW q, q # Nobody
    PROVE  Made(q)' <=> Made(q)
BY DEF SameMakers, Made

LEMMA MakersStay ==
    ASSUME SameMakers, ProposalsInv
    PROVE  \A m, n \in Stored' : mem'[m].maker # Nobody /\ mem'[m].maker = mem'[n].maker => m = n
BY DEF SameMakers, ProposalsInv

LEMMA PropsIs ==
    ASSUME RowTypes
    PROVE  DOMAIN prop \subseteq Props /\ Nobody \notin DOMAIN prop /\ DOMAIN prop \subseteq Nat
<1>1. MaxProposals \in Nat /\ prop \in Seq(ProposalRow) /\ Len(prop) <= MaxProposals
  BY BoundsAssumption DEF RowTypes
<1>2. DOMAIN prop = 1..Len(prop) /\ Len(prop) \in Nat
  BY <1>1
<1> QED BY <1>1, <1>2 DEF Nobody, Props

LEMMA CarrierIs ==
    ASSUME MemoryShape, NEW x \in Todo(Worker), x.do \in Carriers \cup {"store"}
    PROVE  x.p \in DOMAIN prop /\ x.p # Nobody
<1>1. Worker \in Callers
  BY DEF Callers
<1>2. StatementOK(Worker, op[Worker].mine, Stored, DOMAIN prop, x)
  BY <1>1, OwnedIs
<1>3. x.p \in DOMAIN prop
  BY <1>2 DEF StatementOK
<1> QED BY <1>3, PropsIs DEF MemoryShape

\* Statements N that carry the pending proposal p in the list R.
NewCarriers(N, R, p) ==
    \A z \in N : z.do \in Carriers \cup {"store"} =>
        /\ z.p = p /\ p \in DOMAIN prop /\ prop[p].status = "pending" /\ ~Made(p)
        /\ z.do = "applied_create" => \E y \in ToSet(R) : y.do = "store" /\ y.p = p

\* The list of the worker goes on, with statements of N for the pending proposal p.
LEMMA ProposalsCarried ==
    ASSUME MemoryShape, ProposalsInv, SameMakers, crashes' = crashes,
           DOMAIN prop' = DOMAIN prop, \A q \in DOMAIN prop : prop'[q].status = prop[q].status,
           NEW R, NEW N, NEW p, op'[Worker].todo = R, OneCarrier(R), Follow(R),
           ToSet(R) \subseteq Todo(Worker) \cup N,
           \A x \in Todo(Worker) : x.do \in {"store", "applied_create"} => x \in ToSet(R),
           NewCarriers(N, R, p)
    PROVE  ProposalsInv'
<1>1. Todo(Worker)' = ToSet(R)
  BY DEF Todo
<1>2. DOMAIN prop \subseteq Nat /\ \A q \in DOMAIN prop : q # Nobody
  BY PropsIs DEF MemoryShape
<1>3. \A q \in DOMAIN prop : Made(q)' <=> Made(q)
  BY <1>2, MadeStays
<1>4. ASSUME NEW x \in ToSet(R), x.do \in Carriers \cup {"store"}
      PROVE  /\ x.p \in DOMAIN prop
             /\ x.do \in Carriers => prop[x.p].status = "pending"
             /\ x.do \in {"settle", "decide", "store"} => ~Made(x.p)
             /\ x.do = "applied_create" =>
                  Made(x.p) \/ \E y \in ToSet(R) : y.do = "store" /\ y.p = x.p
  <2>1. CASE x \in N
    BY <1>4, <2>1 DEF NewCarriers
  <2>2. CASE x \notin N
    <3>1. x \in Todo(Worker)
      BY <2>2
    <3>2. x.p \in DOMAIN prop
      BY <1>4, <3>1, CarrierIs
    <3>3. /\ x.do \in Carriers => prop[x.p].status = "pending"
          /\ x.do \in {"settle", "decide", "store"} => ~Made(x.p)
          /\ x.do = "applied_create" =>
                Made(x.p) \/ \E y \in Todo(Worker) : y.do = "store" /\ y.p = x.p
      BY <3>1 DEF ProposalsInv
    <3> QED BY <3>2, <3>3
  <2> QED BY <2>1, <2>2
<1>5. Carriers = {"settle", "decide", "applied_create"}
  BY DEF Carriers
<1>6. \A x \in ToSet(R) :
        /\ x.do \in Carriers => prop'[x.p].status = "pending"
        /\ x.do \in {"settle", "decide", "store"} => ~Made(x.p)'
        /\ x.do = "applied_create" =>
             Made(x.p)' \/ \E y \in ToSet(R) : y.do = "store" /\ y.p = x.p
  BY <1>3, <1>4, <1>5
<1>7. ASSUME NEW q \in DOMAIN prop
      PROVE  /\ prop'[q].status = "applied_create" => Made(q)'
             /\ Made(q)' => prop'[q].status \in {"pending", "applied_create"}
             /\ Made(q)' /\ prop'[q].status = "pending" /\ crashes' = 0 =>
                  \E x \in ToSet(R) : x.do = "applied_create" /\ x.p = q
  BY <1>3 DEF ProposalsInv
<1>8. crashes' \in Nat
  BY DEF ProposalsInv
<1>9. \A m, n \in Stored' : mem'[m].maker # Nobody /\ mem'[m].maker = mem'[n].maker => m = n
  BY MakersStay
<1> QED BY <1>1, <1>6, <1>7, <1>8, <1>9 DEF ProposalsInv

\* A step of another caller.
LEMMA ProposalsOthers ==
    ASSUME MemoryShape, ProposalsInv, SameMakers, crashes' = crashes,
           DOMAIN prop' = DOMAIN prop, \A q \in DOMAIN prop : prop'[q].status = prop[q].status,
           op'[Worker].todo = op[Worker].todo
    PROVE  ProposalsInv'
<1> DEFINE N == {}
<1>0. PICK R : R = op[Worker].todo
  OBVIOUS
<1>1. ToSet(R) = Todo(Worker) /\ op'[Worker].todo = R /\ OneCarrier(R) /\ Follow(R)
  BY <1>0 DEF Todo, ProposalsInv
<1>2. ToSet(R) \subseteq Todo(Worker) \cup N /\ \A z \in N : FALSE
  BY <1>1
<1> HIDE DEF N
<1>3. PICK p : p = Nobody
  OBVIOUS
<1>4. NewCarriers(N, R, p)
  BY <1>2 DEF NewCarriers
<1> QED BY <1>1, <1>2, <1>4, ProposalsCarried

\* The worker leaves a statement that carries no proposal for statements that do not.
LEMMA ProposalsGoOn ==
    ASSUME MemoryShape, ProposalsInv, SameMakers, crashes' = crashes,
           DOMAIN prop' = DOMAIN prop, \A q \in DOMAIN prop : prop'[q].status = prop[q].status,
           op[Worker].todo # <<>>, NEW P \in Seq(Statement),
           op'[Worker].todo = P \o Tail(op[Worker].todo),
           Current(Worker).do \notin {"store", "applied_create"},
           \A x \in ToSet(P) : x.do \notin Carriers \cup {"store"}
    PROVE  ProposalsInv'
<1>0. PICK T, S, R, N : /\ T = op[Worker].todo /\ S = Tail(T) /\ R = P \o S
                        /\ N = ToSet(P)
  OBVIOUS
<1>1. T \in Seq(Statement) /\ S \in Seq(Statement) /\ T # <<>> /\ Head(T) = T[1]
  <2>1. Worker \in Callers
    BY DEF Callers
  <2>2. T \in Seq(Statement) /\ T # <<>>
    BY <1>0, <2>1 DEF MemoryShape, OpTypes
  <2> QED BY <1>0, <2>2, TailIs
<1>2. OneCarrier(T) /\ Follow(T) /\ Todo(Worker) = ToSet(T)
  BY <1>0 DEF ProposalsInv, Todo
<1>3. OneCarrier(S) /\ Follow(S)
  BY <1>0, <1>1, <1>2, OneCarrierTail, FollowTail
<1>4. OneCarrier(P) /\ Follow(P)
  BY NoCarriers
<1>5. OneCarrier(R)
  BY <1>0, <1>1, <1>3, <1>4, OneCarrierJoin
<1>6. Follow(R)
  BY <1>0, <1>1, <1>3, <1>4, FollowJoin
<1>7. ToSet(R) = N \cup ToSet(S) /\ ToSet(T) = ToSet(S) \cup {Current(Worker)}
  <2>1. ToSet(P \o S) = ToSet(P) \cup ToSet(S)
    BY <1>1, JoinSet
  <2>2. ToSet(T) = ToSet(Tail(T)) \cup {Head(T)}
    BY <1>1, TailSet
  <2>3. Current(Worker) = Head(T)
    BY <1>0 DEF Current
  <2> QED BY <1>0, <2>1, <2>2, <2>3
<1>8. /\ ToSet(R) \subseteq Todo(Worker) \cup N
      /\ \A x \in Todo(Worker) : x.do \in {"store", "applied_create"} => x \in ToSet(R)
      /\ \A z \in N : z.do \notin Carriers \cup {"store"}
  BY <1>0, <1>2, <1>7
<1>9. op'[Worker].todo = R
  BY <1>0
<1>10. PICK p : p = Nobody
  OBVIOUS
<1>11. NewCarriers(N, R, p)
  BY <1>8 DEF NewCarriers
<1> QED BY <1>5, <1>6, <1>8, <1>9, <1>11, ProposalsCarried

LEMMA ProposalsTail ==
    ASSUME MemoryShape, ProposalsInv, SameMakers, crashes' = crashes,
           DOMAIN prop' = DOMAIN prop, \A q \in DOMAIN prop : prop'[q].status = prop[q].status,
           op[Worker].todo # <<>>, op'[Worker].todo = Tail(op[Worker].todo),
           Current(Worker).do \notin {"store", "applied_create"}
    PROVE  ProposalsInv'
<1>0. PICK P : P = <<>>
  OBVIOUS
<1>1. P \in Seq(Statement) /\ ToSet(P) = {}
  BY <1>0 DEF ToSet
<1>2. Tail(op[Worker].todo) \in Seq(Statement)
  <2>1. Worker \in Callers
    BY DEF Callers
  <2> QED BY <2>1, HeadIs
<1>3. op'[Worker].todo = P \o Tail(op[Worker].todo)
  BY <1>0, <1>2
<1> QED BY <1>1, <1>3, ProposalsGoOn

\* The proposal p gets its outcome and its carrier s goes.
LEMMA ProposalsResolved ==
    ASSUME MemoryShape, ProposalsInv, UNCHANGED mem, crashes' = crashes,
           DOMAIN prop' = DOMAIN prop, NEW p \in DOMAIN prop,
           \A q \in DOMAIN prop \ {p} : prop'[q].status = prop[q].status,
           NEW R, NEW s, op'[Worker].todo = R, OneCarrier(R), Follow(R),
           s.do \in Carriers, s.p = p,
           ToSet(R) \subseteq Todo(Worker), Todo(Worker) \subseteq ToSet(R) \cup {s},
           \A y \in ToSet(R) : y.do \in Carriers => y.p # p,
           IF Made(p) THEN prop'[p].status = "applied_create"
           ELSE prop'[p].status \notin {"pending", "applied_create"}
    PROVE  ProposalsInv'
<1>1. Todo(Worker)' = ToSet(R)
  BY DEF Todo
<1>2. \A q : Made(q)' <=> Made(q)
  BY DEF Made, Stored
<1>3. Carriers = {"settle", "decide", "applied_create"}
  BY DEF Carriers
<1>4. \A x \in ToSet(R) :
        /\ x.do \in Carriers => prop'[x.p].status = "pending"
        /\ x.do \in {"settle", "decide", "store"} => ~Made(x.p)'
        /\ x.do = "applied_create" =>
             Made(x.p)' \/ \E y \in ToSet(R) : y.do = "store" /\ y.p = x.p
  <2> SUFFICES ASSUME NEW x \in ToSet(R)
               PROVE  /\ x.do \in Carriers => prop'[x.p].status = "pending"
                      /\ x.do \in {"settle", "decide", "store"} => ~Made(x.p)
                      /\ x.do = "applied_create" =>
                           Made(x.p) \/ \E y \in ToSet(R) : y.do = "store" /\ y.p = x.p
    BY <1>2
  <2>1. /\ x \in Todo(Worker)
        /\ x.do \in Carriers => x.p \in DOMAIN prop \ {p}
    BY CarrierIs
  <2>2. /\ x.do \in Carriers => prop[x.p].status = "pending"
        /\ x.do \in {"settle", "decide", "store"} => ~Made(x.p)
        /\ x.do = "applied_create" =>
             Made(x.p) \/ \E y \in Todo(Worker) : y.do = "store" /\ y.p = x.p
    BY <2>1 DEF ProposalsInv
  <2>3. s.do # "store"
    BY <1>3
  <2> QED BY <2>1, <2>2, <2>3
<1>5. ASSUME NEW q \in DOMAIN prop
      PROVE  /\ prop'[q].status = "applied_create" => Made(q)
             /\ Made(q) => prop'[q].status \in {"pending", "applied_create"}
             /\ Made(q) /\ prop'[q].status = "pending" /\ crashes = 0 =>
                  \E x \in ToSet(R) : x.do = "applied_create" /\ x.p = q
  <2>1. CASE q = p
    BY <2>1
  <2>2. CASE q # p
    BY <2>2 DEF ProposalsInv
  <2> QED BY <2>1, <2>2
<1>6. crashes' \in Nat
  BY DEF ProposalsInv
<1>7. \A m, n \in Stored' : mem'[m].maker # Nobody /\ mem'[m].maker = mem'[n].maker => m = n
  BY DEF ProposalsInv, Stored
<1> QED BY <1>1, <1>2, <1>4, <1>5, <1>6, <1>7 DEF ProposalsInv

LEMMA ApplyCarries ==
    ASSUME MemoryShape, NEW p \in DOMAIN prop, NEW S \in Seq(Statement),
           OneCarrier(S), Follow(S), \A y \in ToSet(S) : y.do \in Carriers => y.p # p
    PROVE  /\ OneCarrier(Apply(p) \o S) /\ Follow(Apply(p) \o S)
           /\ ToSet(Apply(p) \o S) = ToSet(Apply(p)) \cup ToSet(S)
           /\ \A z \in ToSet(Apply(p)) :
                /\ z.p = p /\ z.do \in {"store", "applied_create"}
                /\ \E y \in ToSet(Apply(p)) : y.do = "store" /\ y.p = p
<1> DEFINE x == StoreText(prop[p].content, p, prop[p].seen)
           y == ForProposal("applied_create", p)
           A == Apply(p)
<1>1. /\ A = <<x, y>> /\ A \in Seq(Statement) /\ ToSet(A) = {x, y}
      /\ x.do = "store" /\ x.p = p /\ y.do = "applied_create" /\ y.p = p
  BY ApplyIs
<1> HIDE DEF x, y, A
<1>2. Len(A) = 2 /\ A[1] = x /\ A[2] = y
  BY <1>1
<1>3. \A i \in 1..Len(A) : i = 1 \/ i = 2
  BY <1>2
<1>4. OneCarrier(A) /\ Follow(A)
  BY <1>1, <1>2, <1>3 DEF OneCarrier, Follow, Carriers
<1>5. OneCarrier(A \o S)
  BY <1>1, <1>4, OneCarrierJoin
<1>6. Follow(A \o S)
  BY <1>1, <1>4, FollowJoin
<1>7. ToSet(A \o S) = ToSet(A) \cup ToSet(S)
  BY <1>1, JoinSet
<1>8. \A z \in ToSet(A) : /\ z.p = p /\ z.do \in {"store", "applied_create"}
                          /\ \E v \in ToSet(A) : v.do = "store" /\ v.p = p
  BY <1>1
<1> QED BY <1>5, <1>6, <1>7, <1>8 DEF A

\* The list of the worker and what is left of it.
LEMMA WorkerList ==
    ASSUME MemoryShape, ProposalsInv, op[Worker].todo # <<>>, NEW T, NEW S,
           T = op[Worker].todo, S = Tail(T)
    PROVE  /\ T \in Seq(Statement) /\ S \in Seq(Statement) /\ T # <<>> /\ T[1] = Current(Worker)
           /\ OneCarrier(T) /\ Follow(T) /\ Todo(Worker) = ToSet(T)
           /\ OneCarrier(S) /\ Follow(S) /\ ToSet(S) \subseteq Todo(Worker)
           /\ Todo(Worker) = ToSet(S) \cup {Current(Worker)}
           /\ Current(Worker).do \in Carriers =>
                 \A y \in ToSet(S) : y.do \in Carriers => y.p # Current(Worker).p
<1>1. T \in Seq(Statement) /\ S \in Seq(Statement) /\ T # <<>> /\ Head(T) = T[1]
  <2>1. Worker \in Callers
    BY DEF Callers
  <2>2. T \in Seq(Statement) /\ T # <<>>
    BY <2>1 DEF MemoryShape, OpTypes
  <2> QED BY <2>2, TailIs
<1>2. OneCarrier(T) /\ Follow(T) /\ Todo(Worker) = ToSet(T)
  BY DEF ProposalsInv, Todo
<1>3. Current(Worker) = T[1]
  BY <1>1 DEF Current
<1>4. /\ OneCarrier(S)
      /\ T[1].do \in Carriers => \A y \in ToSet(S) : y.do \in Carriers => y.p # T[1].p
  BY <1>1, <1>2, OneCarrierTail
<1>5. Follow(S)
  BY <1>1, <1>2, FollowTail
<1>6. ToSet(T) = ToSet(Tail(T)) \cup {Head(T)}
  BY <1>1, TailSet
<1> QED BY <1>1, <1>2, <1>3, <1>4, <1>5, <1>6

LEMMA ResolveProposals ==
    ASSUME MemoryShape, ProposalsInv, ResolveApplied
    PROVE  ProposalsInv'
<1>0. PICK s, p, T, S, M : /\ s = Current(Worker) /\ p = s.p /\ T = op[Worker].todo
                           /\ S = Tail(T) /\ M = op[Worker].mine
  OBVIOUS
<1>1. /\ crashes' = crashes /\ UNCHANGED mem /\ T # <<>> /\ s.do = "applied_create"
      /\ p \in DOMAIN prop /\ Moves(Worker, s, {}, S, M) /\ DOMAIN prop' = DOMAIN prop
      /\ prop'[p].status = "applied_create"
      /\ \A q \in DOMAIN prop \ {p} : prop'[q].status = prop[q].status
      /\ s \in Todo(Worker)
  BY <1>0, ResolveShape
<1>2. /\ OneCarrier(S) /\ Follow(S) /\ ToSet(S) \subseteq Todo(Worker)
      /\ Todo(Worker) = ToSet(S) \cup {s} /\ T \in Seq(Statement) /\ T[1] = s
      /\ OneCarrier(T) /\ Follow(T) /\ Todo(Worker) = ToSet(T)
      /\ s.do \in Carriers => \A y \in ToSet(S) : y.do \in Carriers => y.p # s.p
  BY <1>0, <1>1, WorkerList
<1>3. s.do \in Carriers
  BY <1>1 DEF Carriers
<1>4. \A y \in Todo(Worker) : y.do = "store" => y.p # p
  BY <1>0, <1>1, <1>2, StoreBefore
<1>5. Made(p)
  BY <1>0, <1>1, <1>4 DEF ProposalsInv
<1>6. op'[Worker].todo = S
  BY <1>1 DEF Moves
<1> QED BY <1>0, <1>1, <1>2, <1>3, <1>5, <1>6, ProposalsResolved

LEMMA SettleProposals ==
    ASSUME MemoryShape, ProposalsInv, Settle
    PROVE  ProposalsInv'
<1>0. PICK s, p, T, S, M, x :
        /\ s = Current(Worker) /\ p = s.p /\ T = op[Worker].todo
        /\ S = Tail(T) /\ M = op[Worker].mine /\ x = ForProposal("decide", p)
  OBVIOUS
<1>1. /\ crashes' = crashes /\ UNCHANGED mem /\ T # <<>> /\ s.do = "settle"
      /\ p \in DOMAIN prop /\ DOMAIN prop' = DOMAIN prop /\ s \in Todo(Worker)
      /\ \A q \in DOMAIN prop \ {p} : prop'[q].status = prop[q].status
      /\ \/ /\ Moves(Worker, s, {}, S, M) /\ prop'[p].status = "archived_noop_duplicate"
         \/ /\ Moves(Worker, s, ToSet(Apply(p)), Apply(p) \o S, M) /\ prop' = prop
         \/ /\ Moves(Worker, s, {x}, Append(S, x), M) /\ prop' = prop
            /\ x.do = "decide" /\ x.p = p
  BY <1>0, SettleShape
<1>2. /\ OneCarrier(S) /\ Follow(S) /\ ToSet(S) \subseteq Todo(Worker) /\ S \in Seq(Statement)
      /\ Todo(Worker) = ToSet(S) \cup {s}
      /\ s.do \in Carriers => \A y \in ToSet(S) : y.do \in Carriers => y.p # s.p
  BY <1>0, <1>1, WorkerList
<1>3. s.do \in Carriers /\ \A y \in ToSet(S) : y.do \in Carriers => y.p # p
  BY <1>0, <1>1, <1>2 DEF Carriers
<1>4. ~Made(p) /\ prop[p].status = "pending"
  BY <1>0, <1>1, <1>3 DEF ProposalsInv
<1>5. SameMakers
  BY <1>1 DEF SameMakers, Stored
<1>6. CASE Moves(Worker, s, {}, S, M) /\ prop'[p].status = "archived_noop_duplicate"
  <2>1. op'[Worker].todo = S
    BY <1>6 DEF Moves
  <2> QED BY <1>0, <1>1, <1>2, <1>3, <1>4, <1>6, <2>1, ProposalsResolved
<1>7. CASE Moves(Worker, s, ToSet(Apply(p)), Apply(p) \o S, M) /\ prop' = prop
  <2>0. PICK R, N : R = Apply(p) \o S /\ N = ToSet(Apply(p))
    OBVIOUS
  <2>1. op'[Worker].todo = R
    BY <1>7, <2>0 DEF Moves
  <2>2. /\ OneCarrier(R) /\ Follow(R) /\ ToSet(R) = N \cup ToSet(S)
        /\ \A z \in N : /\ z.p = p /\ z.do \in {"store", "applied_create"}
                        /\ \E y \in N : y.do = "store" /\ y.p = p
    BY <1>1, <1>2, <1>3, <2>0, ApplyCarries
  <2>3. /\ ToSet(R) \subseteq Todo(Worker) \cup N
        /\ \A z \in Todo(Worker) : z.do \in {"store", "applied_create"} => z \in ToSet(R)
        /\ NewCarriers(N, R, p)
    BY <1>1, <1>2, <1>4, <2>2 DEF NewCarriers
  <2>4. \A q \in DOMAIN prop : prop'[q].status = prop[q].status
    BY <1>7
  <2> QED BY <1>1, <1>5, <2>1, <2>2, <2>3, <2>4, ProposalsCarried
<1>8. CASE /\ Moves(Worker, s, {x}, Append(S, x), M) /\ prop' = prop
           /\ x.do = "decide" /\ x.p = p
  <2>0. PICK R, N : R = Append(S, x) /\ N = {x}
    OBVIOUS
  <2>1. op'[Worker].todo = R
    BY <1>8, <2>0 DEF Moves
  <2>2. x \in Statement
    <3>1. p \in Props
      BY <1>1, PropsIs DEF MemoryShape
    <3> QED BY <1>0, <3>1, ForProposalIs DEF Deeds
  <2>3. OneCarrier(R) /\ Follow(R)
    BY <1>2, <1>3, <1>8, <2>0, <2>2, OneMore
  <2>4. ToSet(R) = ToSet(S) \cup N
    <3>1. ToSet(Append(S, x)) = ToSet(S) \cup {x}
      BY <1>2, <2>2, AppendIn
    <3> QED BY <2>0, <3>1
  <2>5. /\ ToSet(R) \subseteq Todo(Worker) \cup N
        /\ \A z \in Todo(Worker) : z.do \in {"store", "applied_create"} => z \in ToSet(R)
        /\ NewCarriers(N, R, p)
    BY <1>1, <1>2, <1>4, <1>8, <2>0, <2>4 DEF NewCarriers
  <2>6. /\ crashes' = crashes /\ DOMAIN prop' = DOMAIN prop
        /\ \A q \in DOMAIN prop : prop'[q].status = prop[q].status
    BY <1>1, <1>8
  <2> QED BY <1>5, <2>1, <2>3, <2>4, <2>5, <2>6, ProposalsCarried
<1> QED BY <1>1, <1>6, <1>7, <1>8

LEMMA DecideProposals ==
    ASSUME MemoryShape, ProposalsInv, NEW i \in DOMAIN op[Worker].todo, NEW outcome \in Outcomes,
           NEW confident \in BOOLEAN, Decide(i, outcome, confident)
    PROVE  ProposalsInv'
<1>0. PICK s, p, T, S, M : /\ T = op[Worker].todo /\ s = T[i] /\ p = s.p
                           /\ S = RemoveAt(T, i) /\ M = op[Worker].mine
  OBVIOUS
<1>1. /\ crashes' = crashes /\ UNCHANGED mem /\ T # <<>> /\ \A y \in Todo(Worker) : y.do = "decide"
      /\ s \in Todo(Worker) /\ i \in 1..Len(T) /\ p \in DOMAIN prop /\ DOMAIN prop' = DOMAIN prop
      /\ \A q \in DOMAIN prop \ {p} : prop'[q].status = prop[q].status
      /\ \/ /\ Moves(Worker, s, {}, S, M)
            /\ prop'[p].status \in {"archived_noop_duplicate", "archived_rejected",
                                    "pending_review"}
         \/ /\ Moves(Worker, s, ToSet(Apply(p)), Apply(p) \o S, M) /\ prop' = prop
  BY <1>0, DecideShape
<1>2. T \in Seq(Statement) /\ Todo(Worker) = ToSet(T) /\ OneCarrier(T)
  BY <1>0, <1>1, WorkerList
<1>3. /\ OneCarrier(S) /\ Follow(S) /\ \A y \in ToSet(S) : y.p # p
  BY <1>0, <1>1, <1>2, OneFewer
<1>4. /\ ToSet(S) \subseteq Todo(Worker) /\ Todo(Worker) = ToSet(S) \cup {s}
  BY <1>0, <1>1, <1>2, WithoutSet
<1>5. S \in Seq(Statement)
  BY <1>0, <1>1, <1>2, RemoveAtIs
<1>6. s.do = "decide" /\ s.do \in Carriers
  BY <1>1 DEF Carriers
<1>7. ~Made(p) /\ prop[p].status = "pending"
  BY <1>0, <1>1, <1>6 DEF ProposalsInv
<1>8. SameMakers
  BY <1>1 DEF SameMakers, Stored
<1>9. CASE /\ Moves(Worker, s, {}, S, M)
           /\ prop'[p].status \in {"archived_noop_duplicate", "archived_rejected",
                                   "pending_review"}
  <2>1. op'[Worker].todo = S
    BY <1>9 DEF Moves
  <2>2. ~Made(p) /\ prop'[p].status \notin {"pending", "applied_create"}
    BY <1>7, <1>9
  <2>3. /\ UNCHANGED mem /\ crashes' = crashes /\ p \in DOMAIN prop /\ DOMAIN prop' = DOMAIN prop
        /\ \A q \in DOMAIN prop \ {p} : prop'[q].status = prop[q].status
    BY <1>1
  <2>4. s.do \in Carriers /\ s.p = p
    BY <1>0, <1>6
  <2>5. ToSet(S) \subseteq Todo(Worker) /\ Todo(Worker) \subseteq ToSet(S) \cup {s}
    BY <1>4
  <2>6. \A y \in ToSet(S) : y.do \in Carriers => y.p # p
    BY <1>3
  <2> QED BY ONLY MemoryShape, ProposalsInv, <1>3, <2>1, <2>2, <2>3, <2>4, <2>5, <2>6,
                  ProposalsResolved
<1>10. CASE Moves(Worker, s, ToSet(Apply(p)), Apply(p) \o S, M) /\ prop' = prop
  <2>0. PICK R, N : R = Apply(p) \o S /\ N = ToSet(Apply(p))
    OBVIOUS
  <2>1. op'[Worker].todo = R
    BY <1>10, <2>0 DEF Moves
  <2>2. /\ OneCarrier(R) /\ Follow(R) /\ ToSet(R) = N \cup ToSet(S)
        /\ \A z \in N : /\ z.p = p /\ z.do \in {"store", "applied_create"}
                        /\ \E y \in N : y.do = "store" /\ y.p = p
    BY <1>1, <1>3, <1>5, <2>0, ApplyCarries
  <2>3. /\ ToSet(R) \subseteq Todo(Worker) \cup N
        /\ \A z \in Todo(Worker) : z.do \in {"store", "applied_create"} => z \in ToSet(R)
        /\ NewCarriers(N, R, p)
    BY <1>1, <1>4, <1>7, <2>2 DEF NewCarriers
  <2>4. \A q \in DOMAIN prop : prop'[q].status = prop[q].status
    BY <1>10
  <2> QED BY <1>1, <1>8, <2>1, <2>2, <2>3, <2>4, ProposalsCarried
<1> QED BY <1>1, <1>9, <1>10

LEMMA ProposeProposals ==
    ASSUME MemoryShape, ProposalsInv, Propose
    PROVE  ProposalsInv'
<1>0. PICK s, T, S, M, p : /\ s = Current(Worker) /\ T = op[Worker].todo /\ S = Tail(T)
                           /\ M = op[Worker].mine /\ p = Len(prop) + 1
  OBVIOUS
<1>1. PICK x \in Statement :
        /\ crashes' = crashes /\ UNCHANGED mem /\ T # <<>> /\ s.do \in {"propose", "invalid"}
        /\ Moves(Worker, s, {x}, Append(S, x), M)
        /\ x.do = "settle" /\ x.p = p /\ DOMAIN prop' = DOMAIN prop \cup {p}
        /\ p \notin DOMAIN prop /\ p \in Props
        /\ \A q \in DOMAIN prop : prop'[q] = prop[q]
        /\ prop'[p].status = "pending"
  BY <1>0, ProposeShape
<1>2. /\ OneCarrier(S) /\ Follow(S) /\ ToSet(S) \subseteq Todo(Worker) /\ S \in Seq(Statement)
      /\ Todo(Worker) = ToSet(S) \cup {s}
  BY <1>0, <1>1, WorkerList
<1>3. \A y \in Todo(Worker) : y.do \in Carriers \cup {"store"} => y.p \in DOMAIN prop
  BY CarrierIs
<1>4. PICK R : R = Append(S, x)
  OBVIOUS
<1>5. OneCarrier(R) /\ Follow(R)
  BY <1>1, <1>2, <1>3, <1>4, OneMore
<1>6. ToSet(R) = ToSet(S) \cup {x} /\ Todo(Worker)' = ToSet(R) /\ op'[Worker].todo = R
  <2>1. ToSet(Append(S, x)) = ToSet(S) \cup {x}
    BY <1>2, AppendIn
  <2>2. op'[Worker].todo = Append(S, x)
    BY <1>1 DEF Moves
  <2> QED BY <1>4, <2>1, <2>2 DEF Todo
<1>7. \A q : Made(q)' <=> Made(q)
  BY <1>1 DEF Made, Stored
<1>8. p # Nobody
  BY <1>1 DEF Props, Nobody
<1>9. ~Made(p)
  BY <1>1, <1>8 DEF Made, MemoryShape, RowNames
<1>10. Carriers = {"settle", "decide", "applied_create"}
  BY DEF Carriers
<1>11. ASSUME NEW y \in ToSet(R)
       PROVE  /\ y.do \in Carriers => prop'[y.p].status = "pending"
              /\ y.do \in {"settle", "decide", "store"} => ~Made(y.p)
              /\ y.do = "applied_create" =>
                   Made(y.p) \/ \E z \in ToSet(R) : z.do = "store" /\ z.p = y.p
  <2>1. CASE y = x
    BY <1>1, <1>9, <2>1
  <2>2. CASE y # x
    <3>1. y \in Todo(Worker)
      BY <1>2, <1>6, <2>2
    <3>2. /\ y.do \in Carriers => prop[y.p].status = "pending"
          /\ y.do \in {"settle", "decide", "store"} => ~Made(y.p)
          /\ y.do = "applied_create" =>
               Made(y.p) \/ \E z \in Todo(Worker) : z.do = "store" /\ z.p = y.p
      BY <3>1 DEF ProposalsInv
    <3>3. y.do \in Carriers => prop'[y.p].status = prop[y.p].status
      BY <1>1, <1>3, <3>1
    <3> QED BY <1>1, <1>2, <1>6, <3>2, <3>3
  <2> QED BY <2>1, <2>2
<1>12. ASSUME NEW q \in DOMAIN prop'
       PROVE  /\ prop'[q].status = "applied_create" => Made(q)
              /\ Made(q) => prop'[q].status \in {"pending", "applied_create"}
              /\ Made(q) /\ prop'[q].status = "pending" /\ crashes' = 0 =>
                   \E y \in ToSet(R) : y.do = "applied_create" /\ y.p = q
  <2>1. CASE q = p
    BY <1>1, <1>9, <2>1
  <2>2. CASE q # p
    <3>1. q \in DOMAIN prop /\ prop'[q] = prop[q]
      BY <1>1, <2>2
    <3>2. /\ prop[q].status = "applied_create" => Made(q)
          /\ Made(q) => prop[q].status \in {"pending", "applied_create"}
          /\ Made(q) /\ prop[q].status = "pending" /\ crashes = 0 =>
               \E y \in Todo(Worker) : y.do = "applied_create" /\ y.p = q
      BY <3>1 DEF ProposalsInv
    <3> QED BY <1>1, <1>2, <1>6, <3>1, <3>2
  <2> QED BY <2>1, <2>2
<1>13. \A m, n \in Stored' : mem'[m].maker # Nobody /\ mem'[m].maker = mem'[n].maker => m = n
  BY <1>1 DEF ProposalsInv, Stored
<1>14. crashes' \in Nat
  BY <1>1 DEF ProposalsInv
<1> QED BY <1>5, <1>6, <1>7, <1>11, <1>12, <1>13, <1>14 DEF ProposalsInv

LEMMA StoreProposals ==
    ASSUME MemoryShape, ProposalsInv, NEW c \in Callers, StoreMemory(c)
    PROVE  ProposalsInv'
<1>0. PICK s, n, S, P, R, M :
        /\ s = Current(c) /\ n = Len(mem) + 1 /\ S = Tail(op[c].todo)
        /\ P = <<Ensure(n), Sync(n)>> /\ R = P \o S /\ M = op[c].mine \cup {n}
  OBVIOUS
<1>1. /\ UNCHANGED prop /\ crashes' = crashes /\ s.do = "store" /\ s \in Todo(c)
      /\ op[c].todo # <<>>
      /\ Moves(c, s, {Ensure(n), Sync(n)}, R, M)
      /\ Stored' = Stored \cup {n} /\ n \notin Stored /\ n \in Ids
      /\ \A k \in Stored : mem'[k] = mem[k]
      /\ mem'[n] = NewMemory(s.c, s.p, s.set)
  BY <1>0, StoreShape
<1>2. mem'[n].maker = s.p
  BY <1>1 DEF NewMemory
<1>3. /\ Stored \subseteq Stored' /\ Stored' \ Stored = {n}
      /\ \A k \in Stored : mem'[k].maker = mem[k].maker
  BY <1>1
<1>4. CASE c # Worker
  <2>1. s.p = Nobody
    BY <1>1, <1>4, StoreFrom
  <2>2. SameMakers
    BY <1>2, <1>3, <2>1 DEF SameMakers
  <2>3. op'[Worker].todo = op[Worker].todo
    BY <1>1, <1>4 DEF Moves, Callers
  <2>4. DOMAIN prop' = DOMAIN prop /\ \A q \in DOMAIN prop : prop'[q].status = prop[q].status
    BY <1>1
  <2> QED BY <1>1, <2>2, <2>3, <2>4, ProposalsOthers
<1>5. CASE c = Worker
  <2>0. PICK p, T : p = s.p /\ T = op[Worker].todo
    OBVIOUS
  <2>1. /\ OneCarrier(S) /\ Follow(S) /\ ToSet(S) \subseteq Todo(Worker) /\ S \in Seq(Statement)
        /\ Todo(Worker) = ToSet(S) \cup {s}
        /\ T \in Seq(Statement) /\ T # <<>> /\ T[1] = s /\ OneCarrier(T) /\ Follow(T)
    <3>1. /\ MemoryShape /\ ProposalsInv /\ op[Worker].todo # <<>>
          /\ T = op[Worker].todo /\ S = Tail(T) /\ s = Current(Worker)
      BY <1>0, <1>1, <1>5, <2>0
    <3>2. /\ T \in Seq(Statement) /\ S \in Seq(Statement) /\ T # <<>>
          /\ T[1] = Current(Worker) /\ OneCarrier(T) /\ Follow(T)
          /\ OneCarrier(S) /\ Follow(S) /\ ToSet(S) \subseteq Todo(Worker)
          /\ Todo(Worker) = ToSet(S) \cup {Current(Worker)}
      BY ONLY <3>1, WorkerList
    <3> QED BY <3>1, <3>2
  <2>2. PICK y \in ToSet(S) :
          /\ y.do = "applied_create" /\ y.p = p
          /\ \A x \in ToSet(S) : x.do \in {"settle", "decide", "store"} => x.p # p
    BY <1>0, <1>1, <1>5, <2>0, <2>1, StoreNext
  <2>3. p \in DOMAIN prop /\ p # Nobody
    BY <1>1, <1>5, <2>0, CarrierIs
  <2>4. ~Made(p) /\ prop[p].status = "pending"
    BY <1>1, <1>5, <2>0, <2>1, <2>2 DEF ProposalsInv, Carriers
  <2>5. Made(p)' /\ \A q : q # p => (Made(q)' <=> Made(q))
    BY <1>1, <1>2, <1>3, <2>0 DEF Made
  <2>6. /\ P \in Seq(Statement) /\ ToSet(P) = {Ensure(n), Sync(n)}
        /\ Ensure(n).do = "ensure" /\ Sync(n).do = "sync"
    <3>1. /\ Ensure(n) \in Statement /\ Sync(n) \in Statement
          /\ Ensure(n).do = "ensure" /\ Sync(n).do = "sync"
      BY <1>1, DeedsAre DEF Nobody
    <3>2. P \in Seq(Statement) /\ Len(P) = 2 /\ P[1] = Ensure(n) /\ P[2] = Sync(n)
      BY <1>0, <3>1
    <3>3. 1..2 = {1, 2}
      OBVIOUS
    <3>4. PICK v : v = P
      OBVIOUS
    <3>5. \A x \in ToSet(v) : x = v[1] \/ x = v[2]
      BY <3>2, <3>3, <3>4, InSet
    <3>6. v[1] \in ToSet(v) /\ v[2] \in ToSet(v)
      BY <3>2, <3>3, <3>4, InSet
    <3>7. ToSet(v) = {v[1], v[2]}
      BY <3>5, <3>6
    <3> QED BY <3>1, <3>2, <3>4, <3>7
  <2>7. OneCarrier(P) /\ Follow(P)
    BY <2>6, NoCarriers DEF Carriers
  <2>8. OneCarrier(R)
    <3>1. \A x \in ToSet(P) : x.do \notin Carriers
      BY <2>6 DEF Carriers
    <3> QED BY <1>0, <2>1, <2>6, <2>7, <3>1, OneCarrierJoin
  <2>9. Follow(R)
    BY <1>0, <2>1, <2>6, <2>7, FollowJoin
  <2>10. ToSet(R) = ToSet(P) \cup ToSet(S)
    <3>1. ToSet(P \o S) = ToSet(P) \cup ToSet(S)
      BY <2>1, <2>6, JoinSet
    <3>2. R = P \o S
      BY <1>0
    <3> QED BY <3>1, <3>2
  <2>11. op'[Worker].todo = R /\ Todo(Worker)' = ToSet(R)
    BY <1>1, <1>5 DEF Moves, Todo
  <2>12. Carriers = {"settle", "decide", "applied_create"}
    BY DEF Carriers
  <2>13. ASSUME NEW x \in ToSet(R)
         PROVE  /\ x.do \in Carriers => prop'[x.p].status = "pending"
                /\ x.do \in {"settle", "decide", "store"} => ~Made(x.p)'
                /\ x.do = "applied_create" =>
                     Made(x.p)' \/ \E z \in ToSet(R) : z.do = "store" /\ z.p = x.p
    <3>1. CASE x \in ToSet(P)
      BY <2>6, <2>12, <3>1
    <3>2. CASE x \in ToSet(S)
      <4>1. x \in Todo(Worker)
        BY <2>1, <3>2
      <4>2. /\ x.do \in Carriers => prop[x.p].status = "pending"
            /\ x.do \in {"settle", "decide", "store"} => ~Made(x.p) /\ x.p # p
            /\ x.do = "applied_create" =>
                 Made(x.p) \/ \E z \in Todo(Worker) : z.do = "store" /\ z.p = x.p
        BY <2>2, <3>2, <4>1 DEF ProposalsInv
      <4> QED BY <1>1, <2>0, <2>1, <2>5, <2>10, <4>2
    <3> QED BY <2>10, <3>1, <3>2
  <2>14. ASSUME NEW q \in DOMAIN prop
         PROVE  /\ prop'[q].status = "applied_create" => Made(q)'
                /\ Made(q)' => prop'[q].status \in {"pending", "applied_create"}
                /\ Made(q)' /\ prop'[q].status = "pending" /\ crashes' = 0 =>
                     \E x \in ToSet(R) : x.do = "applied_create" /\ x.p = q
    <3>1. CASE q = p
      BY <1>1, <2>2, <2>4, <2>5, <2>10, <3>1
    <3>2. CASE q # p
      <4>1. /\ prop[q].status = "applied_create" => Made(q)
            /\ Made(q) => prop[q].status \in {"pending", "applied_create"}
            /\ Made(q) /\ prop[q].status = "pending" /\ crashes = 0 =>
                 \E x \in Todo(Worker) : x.do = "applied_create" /\ x.p = q
        BY DEF ProposalsInv
      <4> QED BY <1>1, <2>1, <2>5, <2>10, <3>2, <4>1
    <3> QED BY <3>1, <3>2
  <2>15. \A k, m \in Stored' : mem'[k].maker # Nobody /\ mem'[k].maker = mem'[m].maker => k = m
    <3>1. \A k \in Stored : mem'[k].maker # p
      BY <1>3, <2>4 DEF Made
    <3>2. \A k, m \in Stored : mem'[k].maker # Nobody /\ mem'[k].maker = mem'[m].maker => k = m
      BY <1>3 DEF ProposalsInv
    <3>3. \A k \in Stored' : k \in Stored \/ k = n
      BY <1>3
    <3> QED BY <1>2, <2>0, <3>1, <3>2, <3>3
  <2>16. crashes' \in Nat /\ DOMAIN prop' = DOMAIN prop
    BY <1>1 DEF ProposalsInv
  <2> QED BY <2>8, <2>9, <2>11, <2>13, <2>14, <2>15, <2>16 DEF ProposalsInv
<1> QED BY <1>4, <1>5

LEMMA ReviewProposals ==
    ASSUME MemoryShape, ProposalsInv, NEW cs \in Seq(Contents), Review(cs)
    PROVE  ProposalsInv'
<1>0. PICK R : R = [i \in DOMAIN cs |-> Candidate("check", cs[i])]
  OBVIOUS
<1>1. /\ crashes' = crashes /\ UNCHANGED store /\ op[Worker].todo = <<>>
      /\ Moves(Worker, NoStatement, ToSet(R), R, {}) /\ \A x \in ToSet(R) : x.do = "check"
      /\ R \in Seq(Statement)
  BY <1>0, ReviewShape
<1>2. OneCarrier(R) /\ Follow(R)
  BY <1>1, NoCarriers DEF Carriers
<1>3. op'[Worker].todo = R /\ Todo(Worker) = {}
  BY <1>1 DEF Moves, Todo, ToSet
<1>4. PICK N, p : N = ToSet(R) /\ p = Nobody
  OBVIOUS
<1>5. NewCarriers(N, R, p)
  BY <1>1, <1>4 DEF NewCarriers, Carriers
<1>6. SameMakers /\ DOMAIN prop' = DOMAIN prop
      /\ \A q \in DOMAIN prop : prop'[q].status = prop[q].status
  BY <1>1 DEF SameMakers, store, Stored
<1>7. /\ ToSet(R) \subseteq Todo(Worker) \cup N
      /\ \A x \in Todo(Worker) : x.do \in {"store", "applied_create"} => x \in ToSet(R)
  BY <1>3, <1>4
<1> QED BY <1>1, <1>2, <1>3, <1>5, <1>6, <1>7, ProposalsCarried

LEMMA CheckProposals ==
    ASSUME MemoryShape, ProposalsInv, CheckCandidate
    PROVE  ProposalsInv'
<1>1. PICK P \in Seq(Statement) :
        /\ crashes' = crashes /\ UNCHANGED store /\ op[Worker].todo # <<>>
        /\ Current(Worker).do = "check"
        /\ Moves(Worker, Current(Worker), ToSet(P), P \o Tail(op[Worker].todo), {})
        /\ \A x \in ToSet(P) : x.do \in {"sync", "propose", "invalid"}
  BY CheckShape
<1>2. SameMakers /\ DOMAIN prop' = DOMAIN prop
      /\ \A q \in DOMAIN prop : prop'[q].status = prop[q].status
  BY <1>1 DEF SameMakers, store, Stored
<1>3. \A x \in ToSet(P) : x.do \notin Carriers \cup {"store"}
  BY <1>1 DEF Carriers
<1>4. op'[Worker].todo = P \o Tail(op[Worker].todo)
  BY <1>1 DEF Moves
<1> QED BY <1>1, <1>2, <1>3, <1>4, ProposalsGoOn

\* The process died: no proposal is carried.
LEMMA CrashProposals ==
    ASSUME MemoryShape, ProposalsInv, Crash
    PROVE  ProposalsInv'
<1>1. Forgets(Callers) /\ UNCHANGED store /\ crashes' = crashes + 1 /\ Worker \in Callers
  BY CrashShape DEF Callers
<1>2. op'[Worker].todo = <<>> /\ Todo(Worker)' = {}
  <2>1. op'[Worker].todo = <<>>
    BY <1>1 DEF Forgets
  <2>2. ToSet(<<>>) = {}
    BY DEF ToSet
  <2> QED BY <2>1, <2>2 DEF Todo
<1>3. OneCarrier(<<>>) /\ Follow(<<>>)
  BY DEF OneCarrier, Follow
<1>4. crashes' \in Nat /\ crashes' # 0
  BY <1>1 DEF ProposalsInv
<1>5. \A q : Made(q)' <=> Made(q)
  BY <1>1 DEF Made, Stored, store
<1>6. UNCHANGED prop /\ Stored' = Stored /\ UNCHANGED mem
  BY <1>1 DEF store, Stored
<1> QED BY <1>2, <1>3, <1>4, <1>5, <1>6 DEF ProposalsInv

-----------------------------------------------------------------------------
(* What a backfill that met nobody still has to repair *)

LEMMA BeginsCalm ==
    ASSUME OpTypes, NEW c \in Callers, NEW kind, NEW M, NEW R, Begin(c, kind, M, R)
    PROVE  /\ op'[c].calm = (Busy = {}) /\ op'[c].kind = kind
           /\ \A d \in Callers \ {c} : op'[d].calm = FALSE /\ op'[d].kind = op[d].kind
<1> DEFINE new == [kind |-> kind, todo |-> R, mine |-> M, calm |-> Busy = {}]
           kept(d) == [op[d] EXCEPT !.calm = FALSE]
<1>1. op' = [d \in Callers |-> IF d = c THEN new ELSE kept(d)]
  BY DEF Begin
<1>2. new.calm = (Busy = {}) /\ new.kind = kind
  OBVIOUS
<1>3. \A d \in Callers : kept(d).calm = FALSE /\ kept(d).kind = op[d].kind
  BY DEF OpTypes
<1> HIDE DEF new, kept
<1>4. op'[c] = new /\ \A d \in Callers \ {c} : op'[d] = kept(d)
  BY <1>1
<1> QED BY <1>2, <1>3, <1>4

\* Any other operation begins.
LEMMA OthersBegin ==
    ASSUME OpTypes, NEW c \in Callers, NEW kind, NEW M, NEW R, Begin(c, kind, M, R),
           kind # "backfill"
    PROVE  BackfillInv'
<1>1. /\ op'[c].calm = (Busy = {}) /\ op'[c].kind = kind
      /\ \A d \in Callers \ {c} : op'[d].calm = FALSE /\ op'[d].kind = op[d].kind
  BY BeginsCalm
<1>2. op'[c].calm => \A d \in Callers \ {c} : op'[d].kind = "idle"
  BY <1>1 DEF Busy
<1>3. \A t \in Callers : op'[t].calm => t = c
  BY <1>1
<1> QED BY <1>1, <1>2, <1>3 DEF BackfillInv

LEMMA BackfillBegins ==
    ASSUME MemoryShape, NEW t \in Turns, NEW S, S \subseteq Stored, Backfill(t, S)
    PROVE  BackfillInv'
<1>0. PICK R : R = BackfillTodo(S)
  OBVIOUS
<1>1. /\ op'[t].calm = (Busy = {}) /\ \A d \in Callers \ {t} : op'[d].calm = FALSE
      /\ Moves(t, NoStatement, ToSet(R), R, S) /\ R # <<>>
      /\ \A x \in ToSet(R) : x.do \in {"ensure", "restore", "sync"}
      /\ \A m \in S : Has(R, {"restore"}, m)
      /\ R[Len(R)].do = "sync"
  <2> DEFINE Q == BackfillTodo(S)
  <2>1. /\ Moves(t, NoStatement, ToSet(Q), Q, S) /\ Q # <<>>
        /\ \A m \in S : Has(Q, {"restore"}, m)
    BY BackfillShape
  <2>5. \A x \in ToSet(Q) : x.do \in {"ensure", "restore", "sync"}
    BY BackfillShape
  <2>6. Q[Len(Q)].do = "sync"
    BY BackfillShape
  <2> HIDE DEF Q
  <2>2. R = Q
    BY <1>0 DEF Q
  <2>3. Begin(t, "backfill", S, BackfillTodo(S)) /\ t \in Callers /\ OpTypes
    BY DEF Backfill, BackfillTodo, Callers, MemoryShape
  <2>4. op'[t].calm = (Busy = {}) /\ \A d \in Callers \ {t} : op'[d].calm = FALSE
    BY <2>3, BeginsCalm
  <2> QED BY <2>1, <2>2, <2>4, <2>5, <2>6
<1>2. t \in Callers
  BY DEF Callers
<1>3. op'[t].todo = R /\ op'[t].mine = S /\ \A d \in Callers \ {t} : op'[d].kind = op[d].kind
  BY <1>1, <1>2 DEF Moves
<1>4. op'[t].calm => \A d \in Callers \ {t} : op'[d].kind = "idle"
  BY <1>1, <1>3 DEF Busy
<1>6. BackfillOK(R, S) /\ \A m \in S : Has(R, {"restore"}, m)
  BY <1>1 DEF BackfillOK
<1>7. \A d \in Callers : op'[d].calm => d = t
  BY <1>1
<1> QED BY <1>3, <1>4, <1>6, <1>7 DEF BackfillInv

\* A step of caller c, and what it keeps of a backfill that met nobody.
LEMMA BackfillGoesOn ==
    ASSUME OpTypes, OpNames, BackfillInv, NEW c \in Callers, op[c].todo # <<>>,
           NEW M, NEW R, NEW others, ContinueMixing(c, M, R, others),
           op[c].calm /\ op[c].kind = "backfill" /\ R # <<>> =>
               BackfillOK(R, M) /\ \A m \in M : Has(R, {"restore"}, m) \/ Healed(m)'
    PROVE  BackfillInv'
<1>1. /\ \A d \in Callers \ {c} : op'[d] = op[d]
      /\ op'[c].calm => op[c].calm
      /\ op'[c].kind \in {op[c].kind, "idle"}
  BY ContinueKinds
<1>2. op[c].kind # "idle"
  BY DEF OpNames
<1>3. op'[c].kind # "idle" => R # <<>> /\ op'[c].todo = R /\ op'[c].mine = M
  BY DEF ContinueMixing, OpTypes, Idle
<1>4. ASSUME NEW t \in Callers, op'[t].calm PROVE t = c
  <2>1. CASE t # c
    <3>1. op[t].calm /\ op[c].kind = "idle"
      BY <1>1, <1>4, <2>1 DEF BackfillInv
    <3> QED BY <1>2, <3>1
  <2> QED BY <2>1
<1>5. op'[c].calm => \A d \in Callers \ {c} : op'[d].kind = "idle"
  BY <1>1 DEF BackfillInv
<1>6. op'[c].calm /\ op'[c].kind = "backfill" =>
        /\ BackfillOK(op'[c].todo, op'[c].mine)
        /\ \A m \in op'[c].mine : Has(op'[c].todo, {"restore"}, m) \/ Healed(m)'
  BY <1>1, <1>2, <1>3
<1> QED BY <1>4, <1>5, <1>6 DEF BackfillInv

\* A backfill that met nobody executes only its own kinds of statement.
LEMMA BackfillDeeds ==
    ASSUME MemoryShape, BackfillInv, NEW c \in Callers, op[c].todo # <<>>,
           op[c].calm, op[c].kind = "backfill"
    PROVE  /\ BackfillOK(op[c].todo, op[c].mine)
           /\ \A m \in op[c].mine : Has(op[c].todo, {"restore"}, m) \/ Healed(m)
           /\ \A x \in Todo(c) : x.do \in {"ensure", "insert", "restore", "sync"}
           /\ Current(c).do \in {"ensure", "insert", "restore", "sync"}
<1>1. /\ BackfillOK(op[c].todo, op[c].mine)
      /\ \A m \in op[c].mine : Has(op[c].todo, {"restore"}, m) \/ Healed(m)
  BY DEF BackfillInv
<1>2. Current(c) \in Todo(c)
  BY HeadIs
<1> QED BY <1>1, <1>2 DEF BackfillOK, Todo

\* Steps that no backfill takes.
LEMMA BackfillElsewhere ==
    ASSUME MemoryShape, BackfillInv, NEW c \in Callers, op[c].todo # <<>>,
           NEW M, NEW R, NEW others, ContinueMixing(c, M, R, others),
           NEW x \in Todo(c), x.do \notin {"ensure", "insert", "restore", "sync"}
    PROVE  BackfillInv'
<1>1. ~(op[c].calm /\ op[c].kind = "backfill")
  BY BackfillDeeds
<1> QED BY <1>1, BackfillGoesOn DEF MemoryShape

\* The rest of the list of a backfill.
LEMMA BackfillRest ==
    ASSUME NEW T \in Seq(Statement), NEW mine, T # <<>>, BackfillOK(T, mine)
    PROVE  /\ Tail(T) # <<>> => Tail(T)[Len(Tail(T))].do = "sync"
           /\ \A y \in ToSet(Tail(T)) : y.do \in {"ensure", "insert", "restore", "sync"}
           /\ Tail(T) = <<>> => \A m : ~Has(T, {"restore"}, m)
           /\ \A m : Has(T, {"restore"}, m) => Has(Tail(T), {"restore"}, m) \/
                       (Head(T).do = "restore" /\ Head(T).m = m)
           /\ Head(T).do \notin {"restore", "sync"} =>
                 \A m \in mine : Has(Tail(T), {"restore"}, m)
<1>1. /\ Tail(T) \in Seq(Statement) /\ Len(T) \in Nat /\ Len(T) >= 1
      /\ Len(Tail(T)) = Len(T) - 1
      /\ \A i \in 1..(Len(T) - 1) : Tail(T)[i] = T[i + 1]
      /\ Head(T) = T[1]
  BY TailIs
<1>2. ToSet(T) = ToSet(Tail(T)) \cup {Head(T)}
  BY TailSet
<1>3. Tail(T) # <<>> => Tail(T)[Len(Tail(T))].do = "sync"
  <2> SUFFICES ASSUME Tail(T) # <<>> PROVE Tail(T)[Len(Tail(T))].do = "sync"
    OBVIOUS
  <2>1. Len(Tail(T)) \in 1..(Len(T) - 1)
    BY <1>1
  <2>2. Tail(T)[Len(Tail(T))] = T[Len(T)]
    BY <1>1, <2>1
  <2> QED BY <2>2 DEF BackfillOK
<1>4. Tail(T) = <<>> => Head(T).do = "sync" /\ ToSet(Tail(T)) = {}
  <2>1. PICK U : U = Tail(T)
    OBVIOUS
  <2>2. ASSUME U = <<>> PROVE Head(T).do = "sync" /\ ToSet(U) = {}
    <3>1. Len(U) = 0 /\ ToSet(U) = {}
      BY <2>2 DEF ToSet
    <3>2. Len(T) = 1
      BY <1>1, <2>1, <3>1
    <3> QED BY <1>1, <3>1, <3>2 DEF BackfillOK
  <2> QED BY <2>1, <2>2
<1>5. \A m : Has(T, {"restore"}, m) => Has(Tail(T), {"restore"}, m) \/
                (Head(T).do = "restore" /\ Head(T).m = m)
  BY <1>2 DEF Has
<1>6. Tail(T) = <<>> => \A m : ~Has(T, {"restore"}, m)
  BY <1>2, <1>4 DEF Has
<1>7. Head(T).do \notin {"restore", "sync"} => \A m \in mine : Has(Tail(T), {"restore"}, m)
  BY <1>2, <1>5 DEF BackfillOK
<1>8. \A y \in ToSet(Tail(T)) : y.do \in {"ensure", "insert", "restore", "sync"}
  BY <1>2 DEF BackfillOK
<1> QED BY <1>3, <1>5, <1>6, <1>7, <1>8

\* The list of a caller, and what it does next.
LEMMA CurrentIs ==
    ASSUME MemoryShape, NEW c \in Callers, op[c].todo # <<>>
    PROVE  /\ op[c].todo \in Seq(Statement) /\ Current(c) = Head(op[c].todo)
           /\ Todo(c) = ToSet(op[c].todo)
BY HeadIs DEF Current, Todo

\* A backfill executes a statement and keeps the rest of its list.
LEMMA BackfillSteps ==
    ASSUME MemoryShape, BackfillInv, NEW c \in Callers, op[c].todo # <<>>,
           NEW others, ContinueMixing(c, op[c].mine, Tail(op[c].todo), others),
           Current(c).do \in {"restore", "sync"} =>
               \A m \in op[c].mine : Healed(m) => Healed(m)',
           NEW X, X = Current(c).m, Current(c).do = "restore" => Healed(X)'
    PROVE  BackfillInv'
<1>0. PICK T, S, M : T = op[c].todo /\ S = Tail(T) /\ M = op[c].mine
  OBVIOUS
<1>1. ASSUME op[c].calm, op[c].kind = "backfill", S # <<>>
      PROVE  BackfillOK(S, M) /\ \A m \in M : Has(S, {"restore"}, m) \/ Healed(m)'
  <2>1. /\ BackfillOK(T, M) /\ \A m \in M : Has(T, {"restore"}, m) \/ Healed(m)
        /\ Current(c).do \in {"ensure", "insert", "restore", "sync"}
    BY <1>0, <1>1, BackfillDeeds
  <2>2. T \in Seq(Statement) /\ T # <<>> /\ Current(c) = Head(T) /\ Todo(c) = ToSet(T)
    BY <1>0, CurrentIs
  <2>3. /\ S[Len(S)].do = "sync"
        /\ \A y \in ToSet(S) : y.do \in {"ensure", "insert", "restore", "sync"}
        /\ \A m : Has(T, {"restore"}, m) => Has(S, {"restore"}, m) \/
                    (Head(T).do = "restore" /\ Head(T).m = m)
        /\ Head(T).do \notin {"restore", "sync"} => \A m \in M : Has(S, {"restore"}, m)
    BY <1>0, <1>1, <2>1, <2>2, BackfillRest
  <2>4. \A m \in M : Has(S, {"restore"}, m) \/ Healed(m)'
    <3> SUFFICES ASSUME NEW m \in M, ~Has(S, {"restore"}, m) PROVE Healed(m)'
      OBVIOUS
    <3>0. Current(c).do \in {"restore", "sync"}
      BY <2>1, <2>2, <2>3
    <3>1. CASE Has(T, {"restore"}, m)
      <4>1. Current(c).do = "restore" /\ m = X
        BY <2>2, <2>3, <3>1
      <4> QED BY <4>1
    <3>2. CASE ~Has(T, {"restore"}, m)
      BY <1>0, <2>1, <3>0, <3>2
    <3> QED BY <3>1, <3>2
  <2>5. ASSUME NEW y \in ToSet(S), y.do \notin {"restore", "sync"}
        PROVE  \A m \in M : Has(S, {"restore"}, m)
    <3>1. CASE Current(c).do = "restore"
      <4>1. MayPrecede(Current(c).do, y.do)
        BY <1>0, <2>5, HeadIs
      <4> QED BY <2>5, <3>1, <4>1 DEF MayPrecede
    <3>2. CASE Current(c).do # "restore"
      <4>1. y \in ToSet(T)
        BY <1>0, <2>2, TailSet
      <4>2. \A m \in M : Has(T, {"restore"}, m)
        BY <2>1, <2>5, <4>1 DEF BackfillOK
      <4> QED BY <2>2, <2>3, <3>2, <4>2
    <3> QED BY <3>1, <3>2
  <2> QED BY <2>3, <2>4, <2>5 DEF BackfillOK
<1> QED BY <1>0, <1>1, BackfillGoesOn DEF MemoryShape

LEMMA HealedStays ==
    ASSUME NEW m, mem'[m] = mem[m], facts'[m] = facts[m]
    PROVE  Healed(m) => Healed(m)'
BY DEF Healed, HasActiveFact

LEMMA LookBackfill ==
    ASSUME MemoryShape, BackfillInv, NEW c \in Callers, LookForFact(c)
    PROVE  BackfillInv'
<1>0. PICK T, S, M, s, x :
        /\ T = op[c].todo /\ S = Tail(T) /\ M = op[c].mine /\ s = Current(c)
        /\ x = [Do("insert", s.m, Nobody) EXCEPT !.status = mem[s.m].status]
  OBVIOUS
<1>1. T # <<>> /\ s.do = "ensure" /\ UNCHANGED store /\ s.m \in Stored
  BY <1>0, LookShape
<1>2. T \in Seq(Statement) /\ s = Head(T) /\ Todo(c) = ToSet(T)
  BY <1>0, <1>1, CurrentIs
<1>3. \/ Continue(c, M, <<x>> \o S)
      \/ Continue(c, M, S)
  BY <1>0 DEF LookForFact
<1>4. CASE Continue(c, M, S)
  <2>1. ContinueMixing(c, op[c].mine, Tail(op[c].todo), {})
    BY <1>0, <1>4 DEF Continue
  <2>2. PICK X : X = Current(c).m
    OBVIOUS
  <2>3. PICK others : others = {}
    OBVIOUS
  <2>4. Current(c).do \notin {"restore", "sync"} /\ op[c].todo # <<>>
    BY <1>0, <1>1
  <2> QED BY <2>1, <2>2, <2>3, <2>4, BackfillSteps
<1>5. CASE Continue(c, M, <<x>> \o S)
  <2>0. PICK X, R, others : X = <<x>> /\ R = X \o S /\ others = {}
    OBVIOUS
  <2>1. ContinueMixing(c, M, R, others)
    BY <1>5, <2>0 DEF Continue
  <2>2. ASSUME op[c].calm, op[c].kind = "backfill"
        PROVE  BackfillOK(R, M) /\ \A m \in M : Has(R, {"restore"}, m)
    <3>1. BackfillOK(T, M)
      BY <1>0, <1>1, <2>2, BackfillDeeds
    <3>2. /\ S # <<>> => S[Len(S)].do = "sync"
          /\ \A y \in ToSet(S) : y.do \in {"ensure", "insert", "restore", "sync"}
          /\ S = <<>> => \A m : ~Has(T, {"restore"}, m)
          /\ \A m : Has(T, {"restore"}, m) => Has(S, {"restore"}, m) \/
                       (Head(T).do = "restore" /\ Head(T).m = m)
          /\ Head(T).do \notin {"restore", "sync"} => \A m \in M : Has(S, {"restore"}, m)
      BY <1>0, <1>1, <1>2, <3>1, BackfillRest
    <3>3. \A m \in M : Has(S, {"restore"}, m)
      BY <1>1, <1>2, <3>2
    <3>4. S \in Seq(Statement) /\ Head(T) = T[1] /\ Len(T) \in Nat
          /\ Len(S) = Len(T) - 1 /\ T[Len(T)].do = "sync"
      BY <1>0, <1>1, <1>2, <3>1, TailIs DEF BackfillOK
    <3>5. S # <<>>
      <4>1. Len(T) # 1
        BY <1>1, <1>2, <3>4
      <4>2. Len(S) # 0
        BY <3>4, <4>1
      <4> QED BY <4>2
    <3>6. x \in Statement /\ x.do = "insert"
      <4>1. s.m \in Ids /\ mem[s.m].status \in Statuses
        <5>1. RowTypes /\ s.m \in Stored
          BY <1>1 DEF MemoryShape
        <5>2. s.m \in Ids
          BY <5>1, StoredIds
        <5>3. mem[s.m] \in MemoryRow
          BY <5>1 DEF RowTypes, Stored
        <5> QED BY <5>2, <5>3 DEF MemoryRow
      <4>2. PICK d : d = Do("insert", s.m, Nobody)
        OBVIOUS
      <4>3. d \in Statement /\ d.do = "insert"
        BY <4>1, <4>2, DoIs DEF Deeds
      <4>4. x = [d EXCEPT !.status = mem[s.m].status]
        BY <1>0, <4>2
      <4> QED BY <4>1, <4>3, <4>4 DEF Statement
    <3>7. X \in Seq(Statement) /\ Len(X) = 1 /\ ToSet(X) = {x}
      BY <2>0, <3>6 DEF ToSet
    <3>8. ToSet(X \o S) = ToSet(X) \cup ToSet(S)
      BY <3>4, <3>7, JoinSet
    <3>9. ToSet(R) = {x} \cup ToSet(S)
      BY <2>0, <3>7, <3>8
    <3>10. R[Len(R)].do = "sync"
      <4>1. /\ Len(X \o S) = Len(X) + Len(S) /\ Len(S) \in Nat
            /\ \A i \in 1..Len(S) : (X \o S)[Len(X) + i] = S[i]
        BY <3>4, <3>7, ConcatIs
      <4>2. Len(S) \in 1..Len(S)
        BY <3>4, <3>5, InSet
      <4>3. R[Len(R)] = S[Len(S)]
        BY <2>0, <4>1, <4>2
      <4> QED BY <3>2, <3>5, <4>3
    <3> QED BY <3>2, <3>3, <3>6, <3>9, <3>10 DEF BackfillOK, Has
  <2> QED BY <1>0, <1>1, <2>1, <2>2, BackfillGoesOn DEF MemoryShape
<1> QED BY <1>3, <1>4, <1>5

LEMMA InsertBackfill ==
    ASSUME MemoryShape, BackfillInv, NEW c \in Callers, InsertFact(c)
    PROVE  BackfillInv'
<1>0. PICK X, others : X = Current(c).m /\ others = {}
  OBVIOUS
<1>1. op[c].todo # <<>> /\ Current(c).do = "insert"
  BY InsertShape
<1>2. ContinueMixing(c, op[c].mine, Tail(op[c].todo), others)
  BY <1>0 DEF InsertFact, Step, Continue
<1>3. Current(c).do \notin {"restore", "sync"}
  BY <1>1
<1> QED BY <1>0, <1>1, <1>2, <1>3, BackfillSteps

LEMMA SyncBackfill ==
    ASSUME MemoryShape, BackfillInv, NEW c \in Callers, SyncMemory(c)
    PROVE  BackfillInv'
<1>0. PICK X, others : X = Current(c).m /\ others = {}
  OBVIOUS
<1>1. op[c].todo # <<>> /\ Current(c).do = "sync" /\ UNCHANGED <<mem, facts>>
  BY SyncShape
<1>2. ContinueMixing(c, op[c].mine, Tail(op[c].todo), others)
  BY <1>0 DEF SyncMemory, Step, Continue
<1>3. \A m \in op[c].mine : Healed(m) => Healed(m)'
  BY <1>1, HealedStays
<1>4. Current(c).do # "restore"
  BY <1>1
<1> QED BY <1>0, <1>1, <1>2, <1>3, <1>4, BackfillSteps

LEMMA RestoreBackfill ==
    ASSUME MemoryShape, BackfillInv, NEW c \in Callers, RestoreLifecycle(c)
    PROVE  BackfillInv'
<1>0. PICK X, others : X = Current(c).m /\ others = {}
  OBVIOUS
<1>1. /\ op[c].todo # <<>> /\ UNCHANGED mem /\ X \in Stored
      /\ \/ mem[X].by = Nobody /\ facts' = facts
         \/ /\ mem[X].by # Nobody
            /\ \A i \in DOMAIN facts'[X] : facts'[X][i] = "deprecated"
            /\ \A k \in Stored \ {X} : facts'[k] = facts[k]
  BY <1>0, RestoreShape
<1>2. ContinueMixing(c, op[c].mine, Tail(op[c].todo), others)
  BY <1>0 DEF RestoreLifecycle, Step, Continue
<1>3. Healed(X)'
  BY <1>1 DEF Healed, HasActiveFact
<1>4. op[c].mine \subseteq Stored
  BY DEF MemoryShape, OpNames
<1>5. \A m \in op[c].mine : Healed(m) => Healed(m)'
  <2> SUFFICES ASSUME NEW m \in op[c].mine PROVE Healed(m) => Healed(m)'
    OBVIOUS
  <2>1. CASE m = X
    BY <1>3, <2>1
  <2>2. CASE m # X
    <3>1. facts'[m] = facts[m] /\ mem'[m] = mem[m]
      BY <1>1, <1>4, <2>2
    <3> QED BY <3>1, HealedStays
  <2> QED BY <2>1, <2>2
<1> QED BY <1>0, <1>1, <1>2, <1>3, <1>5, BackfillSteps

\* The statements of other operations.
LEMMA OtherBackfill ==
    ASSUME MemoryShape, BackfillInv, NEW c \in Callers,
           StoreMemory(c) \/ LinkReplacement(c) \/ RetireFacts(c)
    PROVE  BackfillInv'
<1>0. PICK s : s = Current(c)
  OBVIOUS
<1>1. op[c].todo # <<>> /\ s.do \in {"store", "link", "relink", "retire"}
  BY <1>0, AtIs DEF StoreMemory, LinkReplacement, RetireFacts
<1>2. s \in Todo(c) /\ s.do \notin {"ensure", "insert", "restore", "sync"}
  BY <1>0, <1>1, HeadIs
<1>3. \E M, R, others : ContinueMixing(c, M, R, others)
  BY DEF StoreMemory, LinkReplacement, RetireFacts, Step, Continue
<1> QED BY <1>1, <1>2, <1>3, BackfillElsewhere

LEMMA WorkerBackfill ==
    ASSUME MemoryShape, BackfillInv, CheckCandidate \/ Propose \/ Settle \/ ResolveApplied
    PROVE  BackfillInv'
<1>0. PICK s : s = Current(Worker)
  OBVIOUS
<1>1. /\ op[Worker].todo # <<>> /\ Worker \in Callers
      /\ s.do \in {"check", "propose", "invalid", "settle", "applied_create"}
  <2>1. \E what \in {"check", "propose", "invalid", "settle", "applied_create"} : At(Worker, what)
    BY DEF CheckCandidate, Propose, Settle, ResolveApplied
  <2> QED BY <1>0, <2>1, AtIs DEF Callers
<1>2. s \in Todo(Worker) /\ s.do \notin {"ensure", "insert", "restore", "sync"}
  BY <1>0, <1>1, HeadIs
<1>3. \E M, R, others : ContinueMixing(Worker, M, R, others)
  BY DEF CheckCandidate, Propose, Insert, Settle, ResolveApplied, Step, Continue
<1> QED BY <1>1, <1>2, <1>3, BackfillElsewhere

LEMMA DecideBackfill ==
    ASSUME MemoryShape, BackfillInv, NEW i \in DOMAIN op[Worker].todo, NEW outcome \in Outcomes,
           NEW confident \in BOOLEAN, Decide(i, outcome, confident)
    PROVE  BackfillInv'
<1>0. PICK s : s = Current(Worker)
  OBVIOUS
<1>1. op[Worker].todo # <<>> /\ s.do = "decide" /\ Worker \in Callers
  BY <1>0, AtIs DEF Decide, Callers
<1>2. s \in Todo(Worker) /\ s.do \notin {"ensure", "insert", "restore", "sync"}
  BY <1>0, <1>1, HeadIs
<1>3. \E M, R, others : ContinueMixing(Worker, M, R, others)
  BY DEF Decide, Continue
<1> QED BY <1>1, <1>2, <1>3, BackfillElsewhere

\* Callers that forget what they did have no backfill to finish.
LEMMA BackfillForgotten ==
    ASSUME BackfillInv, UNCHANGED <<mem, facts>>, NEW D, D \subseteq Callers,
           \A d \in D : op'[d] = Idle, \A d \in Callers \ D : op'[d] = op[d]
    PROVE  BackfillInv'
<1>1. Idle.calm = FALSE /\ Idle.kind = "idle"
  BY DEF Idle
<1>2. ASSUME NEW t \in Callers, op'[t].calm
      PROVE  /\ \A d \in Callers \ {t} : op'[d].kind = "idle"
             /\ op'[t].kind = "backfill" =>
                  /\ BackfillOK(op'[t].todo, op'[t].mine)
                  /\ \A m \in op'[t].mine : Has(op'[t].todo, {"restore"}, m) \/ Healed(m)'
  <2>1. t \notin D /\ op'[t] = op[t]
    BY <1>1, <1>2
  <2>2. \A d \in Callers \ {t} : op'[d].kind = "idle"
    BY <1>1, <1>2, <2>1 DEF BackfillInv
  <2>3. \A m : Healed(m) => Healed(m)'
    BY HealedStays
  <2> QED BY <1>2, <2>1, <2>2, <2>3 DEF BackfillInv
<1> QED BY <1>2 DEF BackfillInv

LEMMA FixtureBackfill ==
    ASSUME MemoryShape, BackfillInv, DeprecateFixture
    PROVE  BackfillInv'
<1>0. PICK s : s = Current(Operator)
  OBVIOUS
<1>1. op[Operator].todo # <<>> /\ s.do = "fixture" /\ Operator \in Callers
  BY <1>0, AtIs DEF DeprecateFixture, Callers
<1>2. s \in Todo(Operator) /\ s.do \notin {"ensure", "insert", "restore", "sync"}
  BY <1>0, <1>1, HeadIs
<1>3. \/ \E M, R, others : ContinueMixing(Operator, M, R, others)
      \/ op' = [op EXCEPT ![Operator] = Idle] /\ UNCHANGED mem
  BY DEF DeprecateFixture, Continue
<1>4. CASE \E M, R, others : ContinueMixing(Operator, M, R, others)
  BY <1>1, <1>2, <1>4, BackfillElsewhere
<1>5. CASE op' = [op EXCEPT ![Operator] = Idle] /\ UNCHANGED mem
  <2> DEFINE D == {Operator}
  <2>1. D \subseteq Callers /\ \A d \in D : op'[d] = Idle
    BY <1>1, <1>5 DEF MemoryShape, OpTypes
  <2>2. \A d \in Callers \ D : op'[d] = op[d]
    BY <1>5 DEF MemoryShape, OpTypes
  <2>3. UNCHANGED <<mem, facts>>
    BY <1>5 DEF DeprecateFixture
  <2> HIDE DEF D
  <2> QED BY <2>1, <2>2, <2>3, BackfillForgotten
<1> QED BY <1>3, <1>4, <1>5

LEMMA CrashBackfill ==
    ASSUME MemoryShape, BackfillInv, Crash
    PROVE  BackfillInv'
<1> DEFINE D == Callers
<1>1. \A d \in D : op'[d] = Idle
  BY DEF Crash
<1>2. D \subseteq Callers /\ \A d \in Callers \ D : op'[d] = op[d]
  OBVIOUS
<1>3. UNCHANGED <<mem, facts>>
  BY DEF Crash, store
<1> HIDE DEF D
<1> QED BY <1>1, <1>2, <1>3, BackfillForgotten

-----------------------------------------------------------------------------
(* Steps that change no row the memories are compared with *)

LEMMA WriteRows ==
    ASSUME MemoryShape, RowsInv, NEW t \in Turns, NEW c \in Contents, Write(t, c)
    PROVE  RowsInv'
<1> DEFINE y == StoreText(c, Nobody, Stored)
           N == {y}
<1>1. Moves(t, NoStatement, N, <<y>>, {}) /\ UNCHANGED store
  BY WriteShape
<1>2. y.do = "store"
  BY StoredIds, StoreTextIs DEF MemoryShape
<1>3. NoStatement.do = "none" /\ t \in Callers
  BY DEF NoStatement, Callers
<1> HIDE DEF y
<1>4. \A z \in N : z.do \notin {"insert", "retire", "relink"}
  BY <1>2
<1> HIDE DEF N
<1>5. NoStatement.do \notin {"retire", "ensure", "insert", "sync", "link", "relink"}
  BY <1>3
<1>6. UNCHANGED <<mem, facts, node>>
  BY <1>1 DEF store
<1> QED BY <1>1, <1>3, <1>4, <1>5, <1>6, QuietMoves

\* An operation begins that changes no row and has nothing stale in its list.
LEMMA QuietBegins ==
    ASSUME MemoryShape, RowsInv, NEW c \in Callers, NEW R, NEW M,
           Moves(c, NoStatement, ToSet(R), R, M), UNCHANGED store,
           \A x \in ToSet(R) : x.do \notin {"insert", "retire", "relink"}
    PROVE  RowsInv'
<1> DEFINE N == ToSet(R)
<1>1. NoStatement.do \notin {"retire", "ensure", "insert", "sync", "link", "relink"}
  BY DEF NoStatement
<1>2. UNCHANGED <<mem, facts, node>>
  BY DEF store
<1>3. Moves(c, NoStatement, N, R, M) /\ \A x \in N : x.do \notin {"insert", "retire", "relink"}
  OBVIOUS
<1> HIDE DEF N
<1> QED BY <1>1, <1>2, <1>3, QuietMoves

LEMMA BackfillRows ==
    ASSUME MemoryShape, RowsInv, NEW t \in Turns, NEW S, S \subseteq Stored, Backfill(t, S)
    PROVE  RowsInv'
<1> DEFINE R == BackfillTodo(S)
<1>1. /\ UNCHANGED store /\ Moves(t, NoStatement, ToSet(R), R, S)
      /\ \A x \in ToSet(R) : x.do \in {"ensure", "restore", "sync"}
  BY BackfillShape
<1> HIDE DEF R
<1>2. t \in Callers /\ \A x \in ToSet(R) : x.do \notin {"insert", "retire", "relink"}
  BY <1>1 DEF Callers
<1> QED BY <1>1, <1>2, QuietBegins

LEMMA ExploreRows ==
    ASSUME MemoryShape, RowsInv, NEW t \in Turns, NEW m, Explore(t, m)
    PROVE  RowsInv'
<1>0. PICK x, R, N, M : x = Sync(m) /\ R = <<x>> /\ N = {x} /\ M = {m}
  OBVIOUS
<1>1. UNCHANGED store /\ Moves(t, NoStatement, N, R, M) /\ x.do = "sync"
  BY <1>0, ExploreShape
<1>2. t \in Callers /\ \A y \in N : y.do \notin {"insert", "retire", "relink"}
  BY <1>0, <1>1 DEF Callers
<1>3. NoStatement.do \notin {"retire", "ensure", "insert", "sync", "link", "relink"}
  BY DEF NoStatement
<1>4. UNCHANGED <<mem, facts, node>>
  BY <1>1 DEF store
<1> QED BY <1>1, <1>2, <1>3, <1>4, QuietMoves

LEMMA SearchRows ==
    ASSUME MemoryShape, RowsInv, NEW t \in Turns, Search(t)
    PROVE  RowsInv'
<1> DEFINE R == Each("sync", Newest(Active))
<1>1. /\ UNCHANGED store /\ Moves(t, NoStatement, ToSet(R), R, Active)
      /\ \A x \in ToSet(R) : x.do = "sync"
  BY SearchShape
<1> HIDE DEF R
<1>2. t \in Callers /\ \A x \in ToSet(R) : x.do \notin {"insert", "retire", "relink"}
  BY <1>1 DEF Callers
<1>3. PICK M : M = Active
  OBVIOUS
<1>4. Moves(t, NoStatement, ToSet(R), R, M)
  BY <1>1, <1>3
<1> QED BY <1>1, <1>2, <1>4, QuietBegins

LEMMA ReviewRows ==
    ASSUME MemoryShape, RowsInv, NEW cs \in Seq(Contents), Review(cs)
    PROVE  RowsInv'
<1> DEFINE R == [i \in DOMAIN cs |-> Candidate("check", cs[i])]
           M == {}
<1>1. /\ UNCHANGED store /\ Moves(Worker, NoStatement, ToSet(R), R, M)
      /\ \A x \in ToSet(R) : x.do = "check"
  BY ReviewShape
<1> HIDE DEF R, M
<1>2. Worker \in Callers /\ \A x \in ToSet(R) : x.do \notin {"insert", "retire", "relink"}
  BY <1>1 DEF Callers
<1> QED BY <1>1, <1>2, QuietBegins

LEMMA FixturesRows ==
    ASSUME MemoryShape, RowsInv, DeprecateFixtures
    PROVE  RowsInv'
<1>0. PICK ms, R : ms = Oldest(reviewed) /\ R = Each("fixture", ms) \o Each("sync", ms)
  OBVIOUS
<1>1. /\ UNCHANGED store /\ Moves(Operator, NoStatement, ToSet(R), R, reviewed)
      /\ \A x \in ToSet(R) : x.do \in {"fixture", "sync"}
  BY <1>0, FixturesShape
<1>2. Operator \in Callers /\ \A x \in ToSet(R) : x.do \notin {"insert", "retire", "relink"}
  BY <1>1 DEF Callers
<1>3. PICK M : M = reviewed
  OBVIOUS
<1>4. Moves(Operator, NoStatement, ToSet(R), R, M)
  BY <1>1, <1>3
<1> QED BY <1>1, <1>2, <1>4, QuietBegins

LEMMA CheckRows ==
    ASSUME MemoryShape, RowsInv, CheckCandidate
    PROVE  RowsInv'
<1>0. PICK s, M : s = Current(Worker) /\ M = {}
  OBVIOUS
<1>1. PICK P \in Seq(Statement) :
        /\ UNCHANGED store /\ s.do = "check"
        /\ Moves(Worker, s, ToSet(P), P \o Tail(op[Worker].todo), M)
        /\ \A x \in ToSet(P) : x.do \in {"sync", "propose", "invalid"}
  BY <1>0, CheckShape
<1>2. /\ Worker \in Callers /\ \A x \in ToSet(P) : x.do \notin {"insert", "retire", "relink"}
      /\ s.do \notin {"retire", "ensure", "insert", "sync", "link", "relink"}
      /\ UNCHANGED <<mem, facts, node>>
  BY <1>1 DEF Callers, store
<1>3. PICK N, R : N = ToSet(P) /\ R = P \o Tail(op[Worker].todo)
  OBVIOUS
<1>4. Moves(Worker, s, N, R, M) /\ \A x \in N : x.do \notin {"insert", "retire", "relink"}
  BY <1>1, <1>2, <1>3
<1> QED BY <1>2, <1>4, QuietMoves

LEMMA ProposeRows ==
    ASSUME MemoryShape, RowsInv, Propose
    PROVE  RowsInv'
<1>0. PICK s, S, M : s = Current(Worker) /\ S = Tail(op[Worker].todo) /\ M = op[Worker].mine
  OBVIOUS
<1>1. PICK x \in Statement :
        /\ UNCHANGED <<mem, facts, node>> /\ s.do \in {"propose", "invalid"}
        /\ Moves(Worker, s, {x}, Append(S, x), M) /\ x.do = "settle"
  BY <1>0, ProposeShape
<1>2. PICK N : N = {x}
  OBVIOUS
<1>3. /\ Moves(Worker, s, N, Append(S, x), M) /\ Worker \in Callers
      /\ \A y \in N : y.do \notin {"insert", "retire", "relink"}
      /\ s.do \notin {"retire", "ensure", "insert", "sync", "link", "relink"}
  BY <1>1, <1>2 DEF Callers
<1> QED BY <1>1, <1>3, QuietMoves

\* What a proposal's application has in its list.
LEMMA ApplyDeeds ==
    ASSUME MemoryShape, NEW p \in DOMAIN prop
    PROVE  \A y \in ToSet(Apply(p)) : y.do \notin {"insert", "retire", "relink"}
<1> DEFINE x == StoreText(prop[p].content, p, prop[p].seen)
           z == ForProposal("applied_create", p)
<1>1. ToSet(Apply(p)) = {x, z} /\ x.do = "store" /\ z.do = "applied_create"
  BY ApplyIs
<1> HIDE DEF x, z
<1> QED BY <1>1

LEMMA SettleRows ==
    ASSUME MemoryShape, RowsInv, Settle
    PROVE  RowsInv'
<1>0. PICK s, p, S, M, x : /\ s = Current(Worker) /\ p = s.p /\ S = Tail(op[Worker].todo)
                           /\ M = op[Worker].mine /\ x = ForProposal("decide", p)
  OBVIOUS
<1>1. /\ UNCHANGED <<mem, facts, node>> /\ s.do = "settle" /\ p \in DOMAIN prop
      /\ \/ Moves(Worker, s, {}, S, M)
         \/ Moves(Worker, s, ToSet(Apply(p)), Apply(p) \o S, M)
         \/ Moves(Worker, s, {x}, Append(S, x), M) /\ x.do = "decide"
  BY <1>0, SettleShape
<1>2. PICK N, R : /\ Moves(Worker, s, N, R, M)
                  /\ \A y \in N : y.do \notin {"insert", "retire", "relink"}
  <2>1. CASE Moves(Worker, s, {}, S, M)
    BY <2>1
  <2>2. CASE Moves(Worker, s, ToSet(Apply(p)), Apply(p) \o S, M)
    BY <1>1, <2>2, ApplyDeeds
  <2>3. CASE Moves(Worker, s, {x}, Append(S, x), M) /\ x.do = "decide"
    <3>1. \A y \in {x} : y.do \notin {"insert", "retire", "relink"}
      BY <2>3
    <3> QED BY <2>3, <3>1
  <2> QED BY <1>1, <2>1, <2>2, <2>3
<1>3. /\ s.do \notin {"retire", "ensure", "insert", "sync", "link", "relink"}
      /\ Worker \in Callers
  BY <1>1 DEF Callers
<1> QED BY <1>1, <1>2, <1>3, QuietMoves

LEMMA DecideRows ==
    ASSUME MemoryShape, RowsInv, NEW i \in DOMAIN op[Worker].todo, NEW outcome \in Outcomes,
           NEW confident \in BOOLEAN, Decide(i, outcome, confident)
    PROVE  RowsInv'
<1>0. PICK s, p, S, M : /\ s = op[Worker].todo[i] /\ p = s.p
                        /\ S = RemoveAt(op[Worker].todo, i) /\ M = op[Worker].mine
  OBVIOUS
<1>1. /\ UNCHANGED <<mem, facts, node>> /\ s \in Todo(Worker) /\ p \in DOMAIN prop
      /\ \A y \in Todo(Worker) : y.do = "decide"
      /\ \/ Moves(Worker, s, {}, S, M)
         \/ Moves(Worker, s, ToSet(Apply(p)), Apply(p) \o S, M)
  BY <1>0, DecideShape
<1>2. PICK N, R : /\ Moves(Worker, s, N, R, M)
                  /\ \A y \in N : y.do \notin {"insert", "retire", "relink"}
  <2>1. CASE Moves(Worker, s, {}, S, M)
    BY <2>1
  <2>2. CASE Moves(Worker, s, ToSet(Apply(p)), Apply(p) \o S, M)
    BY <1>1, <2>2, ApplyDeeds
  <2> QED BY <1>1, <2>1, <2>2
<1>3. s.do = "decide"
  BY <1>1
<1>4. /\ s.do \notin {"retire", "ensure", "insert", "sync", "link", "relink"}
      /\ Worker \in Callers
  BY <1>3 DEF Callers
<1> QED BY <1>1, <1>2, <1>4, QuietMoves

LEMMA ResolveRows ==
    ASSUME MemoryShape, RowsInv, ResolveApplied
    PROVE  RowsInv'
<1>0. PICK s, S, M, N : /\ s = Current(Worker) /\ S = Tail(op[Worker].todo)
                        /\ M = op[Worker].mine /\ N = {}
  OBVIOUS
<1>1. UNCHANGED <<mem, facts, node>> /\ s.do = "applied_create" /\ Moves(Worker, s, N, S, M)
  BY <1>0, ResolveShape
<1>2. /\ s.do \notin {"retire", "ensure", "insert", "sync", "link", "relink"}
      /\ Worker \in Callers /\ \A y \in N : y.do \notin {"insert", "retire", "relink"}
  BY <1>0, <1>1 DEF Callers
<1> QED BY <1>1, <1>2, QuietMoves

LEMMA CrashRows ==
    ASSUME MemoryShape, RowsInv, Crash
    PROVE  RowsInv'
<1>1. PICK D : D = Callers
  OBVIOUS
<1>2. Forgets(D) /\ UNCHANGED <<mem, facts, node>>
  BY <1>1, CrashShape DEF store
<1> QED BY <1>2, QuietForgets

\* A step that changes neither rows nor operations.
LEMMA DryRunRows ==
    ASSUME MemoryShape, RowsInv, DryRun
    PROVE  RowsInv'
<1>1. UNCHANGED <<mem, facts, node, op, mixed>>
  BY DryRunShape DEF store
<1>2. PICK D : D = {}
  OBVIOUS
<1>3. Forgets(D)
  BY <1>1, <1>2 DEF Forgets
<1>4. UNCHANGED <<mem, facts, node>>
  BY <1>1
<1> QED BY <1>3, <1>4, QuietForgets

-----------------------------------------------------------------------------
(* The invariant holds *)

TurnStep ==
    \E t \in Turns :
        \/ \E c \in Contents : Write(t, c)
        \/ \E m, by : Deprecate(t, m, by)
        \/ \E old, new : Supersedes(t, old, new)
        \/ \E S : S \subseteq Stored /\ Backfill(t, S)
        \/ \E m : Explore(t, m)
        \/ Search(t)
CallerStep == \E c \in Callers : Proceed(c)
WorkerStep ==
    \/ \E cs \in Seq(Contents) : Review(cs)
    \/ CheckCandidate \/ Propose \/ Settle \/ ResolveApplied
    \/ \E i \in DOMAIN op[Worker].todo, outcome \in Outcomes, confident \in BOOLEAN :
           Decide(i, outcome, confident)
OtherStep == DryRun \/ DeprecateFixtures \/ DeprecateFixture \/ Crash

\* The cases of a step.
LEMMA StepIs ==
    ASSUME MemoryShape, Next
    PROVE  TurnStep \/ CallerStep \/ WorkerStep \/ OtherStep
<1>1. ASSUME NEW t \in Turns, TurnBegins(t) PROVE TurnStep
  <2>1. CASE \E old, new \in Ids, deprecateOld \in BOOLEAN : Supersede(t, old, new, deprecateOld)
    <3>1. PICK old \in Ids, new \in Ids, deprecateOld \in BOOLEAN :
                 Supersede(t, old, new, deprecateOld)
      BY <2>1, Zenon
    <3>2. Supersedes(t, old, new)
      BY <3>1, Zenon DEF Supersedes
    <3> QED BY <3>2 DEF TurnStep
  <2>2. CASE \E c \in Contents : Write(t, c)
    BY <2>2 DEF TurnStep
  <2>3. CASE \E m \in Ids : \E by \in Ids \cup {Nobody} : Deprecate(t, m, by)
    BY <2>3 DEF TurnStep
  <2>4. CASE \E m \in Stored : Backfill(t, {m})
    <3>1. PICK m \in Stored : Backfill(t, {m})
      BY <2>4
    <3>2. PICK S : S = {m}
      OBVIOUS
    <3>3. S \subseteq Stored /\ Backfill(t, S)
      BY <3>1, <3>2
    <3> QED BY <3>3 DEF TurnStep
  <2>5. CASE Backfill(t, Stored)
    <3>1. PICK S : S = Stored
      OBVIOUS
    <3>2. S \subseteq Stored /\ Backfill(t, S)
      BY <2>5, <3>1
    <3> QED BY <3>2 DEF TurnStep
  <2>6. CASE \E m \in Ids : Explore(t, m)
    BY <2>6 DEF TurnStep
  <2>7. CASE Search(t)
    BY <2>7 DEF TurnStep
  <2> QED BY <1>1, <2>1, <2>2, <2>3, <2>4, <2>5, <2>6, <2>7, Zenon DEF TurnBegins
<1>2. \A c \in Callers : Proceed(c) => CallerStep
  BY DEF CallerStep
<1>3. SeqOf(Contents, 2) \subseteq Seq(Contents)
  <2>1. SUFFICES ASSUME NEW cs \in SeqOf(Contents, 2)
                 PROVE  cs \in Seq(Contents)
    OBVIOUS
  <2>2. PICK n \in 0 .. 2 : cs \in [1 .. n -> Contents]
    BY <2>1, Zenon DEF SeqOf
  <2>3. n \in Nat
    OBVIOUS
  <2> QED BY <2>2, <2>3
<1>4. Worker \in Callers /\ Operator \in Callers /\ Turns \subseteq Callers
  BY DEF Callers
<1>5. WorkerProceeds => CallerStep \/ WorkerStep
  BY <1>2, <1>4, Zenon DEF WorkerProceeds, Resolver, WorkerStep
<1>6. \A cs \in SeqOf(Contents, 2) : Review(cs) => WorkerStep
  BY <1>3 DEF WorkerStep
<1>7. DryRun \/ DeprecateFixtures \/ DeprecateFixture \/ Crash => OtherStep
  BY DEF OtherStep
<1> QED BY <1>1, <1>2, <1>4, <1>5, <1>6, <1>7, Zenon DEF Next

LEMMA NextShape ==
    ASSUME MemoryShape, Next
    PROVE  MemoryShape'
<1>1. CASE TurnStep
  <2>1. PICK t \in Turns :
          \/ \E c \in Contents : Write(t, c)
          \/ \E m, by : Deprecate(t, m, by)
          \/ \E old, new : Supersedes(t, old, new)
          \/ \E S : S \subseteq Stored /\ Backfill(t, S)
          \/ \E m : Explore(t, m)
          \/ Search(t)
    BY <1>1 DEF TurnStep
  <2>2. CASE \E c \in Contents : Write(t, c)
    BY <2>2, WriteShape
  <2>3. CASE \E m, by : Deprecate(t, m, by)
    BY <2>3, DeprecateShape
  <2>4. CASE \E old, new : Supersedes(t, old, new)
    BY <2>4, SupersedeShape DEF Superseded
  <2>5. CASE \E S : S \subseteq Stored /\ Backfill(t, S)
    BY <2>5, BackfillShape
  <2>6. CASE \E m : Explore(t, m)
    BY <2>6, ExploreShape
  <2>7. CASE Search(t)
    BY <2>7, SearchShape
  <2> QED BY <2>1, <2>2, <2>3, <2>4, <2>5, <2>6, <2>7
<1>2. CASE CallerStep
  <2>1. PICK c \in Callers : Proceed(c)
    BY <1>2 DEF CallerStep
  <2>2. CASE StoreMemory(c)
    BY <2>2, StoreShape
  <2>3. CASE LookForFact(c)
    BY <2>3, LookShape
  <2>4. CASE InsertFact(c)
    BY <2>4, InsertShape
  <2>5. CASE SyncMemory(c)
    BY <2>5, SyncShape
  <2>6. CASE LinkReplacement(c)
    BY <2>6, LinkShape
  <2>7. CASE RetireFacts(c)
    BY <2>7, RetireShape
  <2>8. CASE RestoreLifecycle(c)
    BY <2>8, RestoreShape
  <2> QED BY <2>1, <2>2, <2>3, <2>4, <2>5, <2>6, <2>7, <2>8 DEF Proceed
<1>3. CASE WorkerStep
  <2>1. CASE \E cs \in Seq(Contents) : Review(cs)
    BY <2>1, ReviewShape
  <2>2. CASE CheckCandidate
    BY <2>2, CheckShape
  <2>3. CASE Propose
    BY <2>3, ProposeShape
  <2>4. CASE Settle
    BY <2>4, SettleShape
  <2>5. CASE ResolveApplied
    BY <2>5, ResolveShape
  <2>6. CASE \E i \in DOMAIN op[Worker].todo, outcome \in Outcomes, confident \in BOOLEAN :
               Decide(i, outcome, confident)
    BY <2>6, DecideShape
  <2> QED BY <1>3, <2>1, <2>2, <2>3, <2>4, <2>5, <2>6, Zenon DEF WorkerStep
<1>4. CASE OtherStep
  BY <1>4, DryRunShape, FixturesShape, FixtureShape, CrashShape DEF OtherStep
<1> QED BY <1>1, <1>2, <1>3, <1>4, StepIs

LEMMA NextRows ==
    ASSUME MemoryShape, RowsInv, Next
    PROVE  RowsInv'
<1>0. Worker \in Callers /\ Operator \in Callers /\ Turns \subseteq Callers
  BY DEF Callers
<1>1. CASE TurnStep
  <2>1. PICK t \in Turns :
          \/ \E c \in Contents : Write(t, c)
          \/ \E m, by : Deprecate(t, m, by)
          \/ \E old, new : Supersedes(t, old, new)
          \/ \E S : S \subseteq Stored /\ Backfill(t, S)
          \/ \E m : Explore(t, m)
          \/ Search(t)
    BY <1>1 DEF TurnStep
  <2>2. CASE \E c \in Contents : Write(t, c)
    BY <2>2, WriteRows
  <2>3. CASE \E m, by : Deprecate(t, m, by)
    BY <2>3, DeprecateRows
  <2>4. CASE \E old, new : Supersedes(t, old, new)
    BY <2>4, SupersedeRows
  <2>5. CASE \E S : S \subseteq Stored /\ Backfill(t, S)
    BY <2>5, BackfillRows
  <2>6. CASE \E m : Explore(t, m)
    BY <2>6, ExploreRows
  <2>7. CASE Search(t)
    BY <2>7, SearchRows
  <2> QED BY <2>1, <2>2, <2>3, <2>4, <2>5, <2>6, <2>7
<1>2. CASE CallerStep
  <2>1. PICK c \in Callers : Proceed(c)
    BY <1>2 DEF CallerStep
  <2> QED BY <2>1, StoreRows, LookRows, InsertRows, SyncRows, LinkRows, RetireRows, RestoreRows
          DEF Proceed
<1>3. CASE WorkerStep
  <2>1. CASE \E i \in DOMAIN op[Worker].todo, outcome \in Outcomes, confident \in BOOLEAN :
               Decide(i, outcome, confident)
    BY <2>1, DecideRows
  <2> QED BY <1>3, <2>1, ReviewRows, CheckRows, ProposeRows, SettleRows, ResolveRows DEF WorkerStep
<1>4. CASE OtherStep
  BY <1>4, DryRunRows, FixturesRows, FixtureRows, CrashRows DEF OtherStep
<1> QED BY <1>1, <1>2, <1>3, <1>4, StepIs

LEMMA TurnChecks ==
    ASSUME MemoryShape, ChecksInv, NEW t \in Turns, TurnStep,
           \/ \E m, by : Deprecate(t, m, by)
           \/ \E old, new : Supersedes(t, old, new)
           \/ \E S : S \subseteq Stored /\ Backfill(t, S)
           \/ \E m : Explore(t, m)
           \/ Search(t)
    PROVE  ChecksInv'
<1>0. t \in Callers
  BY DEF Callers
<1>1. ASSUME NEW m, NEW by, Deprecate(t, m, by) PROVE ChecksInv'
  <2> PICK R : R = Deprecation(m, by)
    OBVIOUS
  <2> PICK M : M = {m, by} \ {Nobody}
    OBVIOUS
  <2>1. /\ UNCHANGED prop /\ mem' = Lifecycle(m, by, "deprecated")
        /\ Moves(t, NoStatement, ToSet(R), R, M)
        /\ ToSet(R) = {Ensure(m), Retire(m, by), Sync(m)} \cup
               (IF by = Nobody THEN {} ELSE {Do("link", by, m), Ensure(by), Sync(by)})
        /\ m \in Stored /\ by \in (Stored \cup {Nobody}) \ {m}
    BY <1>1, DeprecateShape
  <2>2. by \in Ids \cup {Nobody} /\ "deprecated" \in Statuses
    BY <2>1, StoredIds DEF MemoryShape, Statuses
  <2>3. SameChecks /\ Stored' = Stored /\ DOMAIN prop' = DOMAIN prop
    BY <2>1, <2>2, SameLifecycle
  <2>4. \A y \in ToSet(R) : y.do # "store"
    BY <2>1 DEF Ensure, Retire, Sync, Do
  <2> QED BY <1>0, <2>1, <2>3, <2>4, ChecksMoves
<1>2. ASSUME NEW old, NEW new, Supersedes(t, old, new) PROVE ChecksInv'
  <2>1. PICK R, status : Superseded(t, old, new, R, status)
    BY <1>2, SupersedeShape
  <2>2. PICK x, s :
          /\ x = Relink(old, new) /\ s = {x, Ensure(old), Ensure(new), Sync(old), Sync(new)}
          /\ UNCHANGED prop /\ Moves(t, NoStatement, ToSet(R), R, {old, new})
          /\ x.do = "relink" /\ ToSet(R) \subseteq s \cup {Retire(old, new)}
          /\ old \in Stored /\ new \in Stored
          /\ status \in Statuses /\ mem' = Lifecycle(old, new, status)
          /\ status # mem[old].status => status = "deprecated"
    BY <2>1 DEF Superseded
  <2>3. new \in Ids \cup {Nobody} /\ (status = "active" => mem[old].status = "active")
    BY <2>2, StoredIds DEF MemoryShape
  <2>4. SameChecks /\ Stored' = Stored /\ DOMAIN prop' = DOMAIN prop
    BY <2>2, <2>3, SameLifecycle
  <2>5. \A y \in ToSet(R) : y.do # "store"
    BY <2>2 DEF Ensure, Retire, Sync, Do
  <2> QED BY <1>0, <2>2, <2>4, <2>5, ChecksMoves
<1>3. ASSUME NEW R, NEW M, Moves(t, NoStatement, ToSet(R), R, M), UNCHANGED store,
             \A y \in ToSet(R) : y.do # "store"
      PROVE  ChecksInv'
  <2>1. SameChecks /\ Stored' = Stored /\ DOMAIN prop' = DOMAIN prop
    BY <1>3, SameRows DEF store
  <2> QED BY <1>0, <1>3, <2>1, ChecksMoves
<1>4. ASSUME NEW S, S \subseteq Stored, Backfill(t, S) PROVE ChecksInv'
  <2>1. PICK R : /\ Moves(t, NoStatement, ToSet(R), R, S) /\ UNCHANGED store
                 /\ \A y \in ToSet(R) : y.do \in {"ensure", "restore", "sync"}
    BY <1>4, BackfillShape
  <2> QED BY <1>3, <2>1
<1>5. ASSUME NEW m, Explore(t, m) PROVE ChecksInv'
  <2>1. PICK R : R = <<Sync(m)>>
    OBVIOUS
  <2>2. ToSet(R) = {Sync(m)}
    BY <2>1 DEF ToSet
  <2>3. Moves(t, NoStatement, ToSet(R), R, {m}) /\ UNCHANGED store /\ Sync(m).do = "sync"
    BY <1>5, <2>1, <2>2, ExploreShape
  <2> QED BY <1>3, <2>2, <2>3
<1>6. ASSUME Search(t) PROVE ChecksInv'
  <2>1. PICK R : /\ Moves(t, NoStatement, ToSet(R), R, Active) /\ UNCHANGED store
                 /\ \A y \in ToSet(R) : y.do = "sync"
    BY <1>6, SearchShape
  <2> QED BY <1>3, <2>1
<1> QED BY <1>1, <1>2, <1>4, <1>5, <1>6

LEMMA CallerChecks ==
    ASSUME MemoryShape, ChecksInv, NEW c \in Callers, Proceed(c)
    PROVE  ChecksInv'
<1>1. ASSUME NEW x, NEW N, NEW R, Moves(c, x, N, R, op[c].mine), UNCHANGED <<mem, prop>>,
             \A y \in N : y.do # "store"
      PROVE  ChecksInv'
  <2>1. SameChecks /\ Stored' = Stored /\ DOMAIN prop' = DOMAIN prop
    BY <1>1, SameRows
  <2> QED BY <1>1, <2>1, ChecksMoves
<1>2. CASE LookForFact(c)
  <2>1. PICK x, R, N :
          /\ x \in Statement
          /\ UNCHANGED store /\ Moves(c, Current(c), N, R, op[c].mine)
          /\ N = {x} \/ N = {}
          /\ x.do = "insert"
    <3>1. \E x \in Statement : \E R, N :
            /\ UNCHANGED store /\ Moves(c, Current(c), N, R, op[c].mine)
            /\ N = {x} \/ N = {}
            /\ x.do = "insert"
      BY <1>2, LookShape
    <3> QED BY <3>1
  <2> QED BY <1>1, <2>1 DEF store
<1> PICK N : N = {}
  OBVIOUS
<1>3. CASE InsertFact(c) \/ SyncMemory(c) \/ RetireFacts(c) \/ RestoreLifecycle(c)
  <2>1. Moves(c, Current(c), N, Tail(op[c].todo), op[c].mine) /\ UNCHANGED <<mem, prop>>
    BY <1>3, InsertShape, SyncShape, RetireShape, RestoreShape
  <2> QED BY <1>1, <2>1
<1> QED BY <1>2, <1>3, StoreChecks, LinkChecks DEF Proceed

LEMMA WorkerChecks ==
    ASSUME MemoryShape, ChecksInv, WorkerStep
    PROVE  ChecksInv'
<1>0. Worker \in Callers
  BY DEF Callers
<1>1. CASE \E cs \in Seq(Contents) : Review(cs)
  <2>1. PICK R, M : /\ Moves(Worker, NoStatement, ToSet(R), R, M) /\ UNCHANGED store
                    /\ \A y \in ToSet(R) : y.do = "check"
    BY <1>1, ReviewShape
  <2>2. SameChecks /\ Stored' = Stored /\ DOMAIN prop' = DOMAIN prop
    BY <2>1, SameRows DEF store
  <2> QED BY <1>0, <2>1, <2>2, ChecksMoves
<1>2. CASE CheckCandidate
  <2>1. PICK P, R, M : /\ Moves(Worker, Current(Worker), ToSet(P), R, M) /\ UNCHANGED store
                       /\ \A y \in ToSet(P) : y.do \in {"sync", "propose", "invalid"}
    BY <1>2, CheckShape
  <2>2. SameChecks /\ Stored' = Stored /\ DOMAIN prop' = DOMAIN prop
    BY <2>1, SameRows DEF store
  <2> QED BY <1>0, <2>1, <2>2, ChecksMoves
<1>3. CASE ResolveApplied
  <2> PICK N : N = {}
    OBVIOUS
  <2>1. /\ Moves(Worker, Current(Worker), N, Tail(op[Worker].todo), op[Worker].mine)
        /\ UNCHANGED mem /\ DOMAIN prop' = DOMAIN prop
        /\ \A q \in DOMAIN prop : /\ prop'[q].content = prop[q].content
                                  /\ prop'[q].action = prop[q].action
                                  /\ prop'[q].seen = prop[q].seen
                                  /\ prop'[q].known = prop[q].known
    BY <1>3, ResolveShape
  <2>2. SameChecks /\ Stored' = Stored
    BY <2>1, SameStatusRows
  <2> QED BY <1>0, <2>1, <2>2, ChecksMoves
<1>4. CASE \E i \in DOMAIN op[Worker].todo, outcome \in Outcomes, confident \in BOOLEAN :
             Decide(i, outcome, confident)
  BY <1>4, DecideChecks
<1> QED BY <1>1, <1>2, <1>3, <1>4, ProposeChecks, SettleChecks, Zenon DEF WorkerStep

LEMMA OtherChecks ==
    ASSUME MemoryShape, ChecksInv, OtherStep
    PROVE  ChecksInv'
<1>0. Operator \in Callers
  BY DEF Callers
<1>1. CASE DryRun
  <2>1. UNCHANGED <<store, op>>
    BY <1>1, DryRunShape
  <2>2. UNCHANGED <<mem, prop, op>>
    BY <2>1 DEF store
  <2> QED BY <2>2 DEF ChecksInv, Todo, StoreOK, NewAmong, FitsAmong, Active, Stored,
                      TwinsOnlyFromStaleChecks
<1>2. CASE DeprecateFixtures
  <2>1. PICK R, M : /\ Moves(Operator, NoStatement, ToSet(R), R, M) /\ UNCHANGED store
                    /\ \A y \in ToSet(R) : y.do \in {"fixture", "sync"}
    BY <1>2, FixturesShape
  <2>2. SameChecks /\ Stored' = Stored /\ DOMAIN prop' = DOMAIN prop
    BY <2>1, SameRows DEF store
  <2> QED BY <1>0, <2>1, <2>2, ChecksMoves
<1>3. CASE DeprecateFixture
  <2>1. PICK m, x, R :
          /\ UNCHANGED prop /\ m \in Stored /\ x = Retire(m, Nobody)
          /\ \/ /\ mem' = Lifecycle(m, Nobody, "deprecated")
                /\ Moves(Operator, Current(Operator), {x}, R, op[Operator].mine)
             \/ mem' = mem /\ Forgets({Operator})
    BY <1>3, FixtureShape
  <2>2. CASE mem' = mem /\ Forgets({Operator})
    <3> PICK D : D = {Operator}
      OBVIOUS
    <3>1. Forgets(D) /\ UNCHANGED <<mem, prop>>
      BY <2>1, <2>2
    <3> QED BY <3>1, ChecksForgotten
  <2>3. CASE /\ mem' = Lifecycle(m, Nobody, "deprecated")
             /\ Moves(Operator, Current(Operator), {x}, R, op[Operator].mine)
    <3> PICK N : N = {x}
      OBVIOUS
    <3>1. Nobody \in Ids \cup {Nobody} /\ "deprecated" \in Statuses
      BY DEF Statuses
    <3>2. SameChecks /\ Stored' = Stored /\ DOMAIN prop' = DOMAIN prop
      BY <2>1, <2>3, <3>1, SameLifecycle
    <3>3. \A y \in N : y.do # "store"
      BY <2>1 DEF Retire, Do
    <3> QED BY <1>0, <2>3, <3>2, <3>3, ChecksMoves
  <2> QED BY <2>1, <2>2, <2>3
<1>4. CASE Crash
  <2>1. Forgets(Callers) /\ UNCHANGED <<mem, prop>>
    BY <1>4, CrashShape DEF store
  <2> QED BY <2>1, ChecksForgotten
<1> QED BY <1>1, <1>2, <1>3, <1>4 DEF OtherStep

LEMMA NextChecks ==
    ASSUME MemoryShape, ChecksInv, Next
    PROVE  ChecksInv'
<1>1. CASE TurnStep
  <2>1. PICK t \in Turns :
          \/ \E c \in Contents : Write(t, c)
          \/ \E m, by : Deprecate(t, m, by)
          \/ \E old, new : Supersedes(t, old, new)
          \/ \E S : S \subseteq Stored /\ Backfill(t, S)
          \/ \E m : Explore(t, m)
          \/ Search(t)
    BY <1>1 DEF TurnStep
  <2>2. CASE \E c \in Contents : Write(t, c)
    BY <2>2, WriteChecks
  <2> QED BY <1>1, <2>1, <2>2, TurnChecks
<1>2. CASE CallerStep
  BY <1>2, CallerChecks DEF CallerStep
<1>3. CASE WorkerStep
  BY <1>3, WorkerChecks
<1>4. CASE OtherStep
  BY <1>4, OtherChecks
<1> QED BY <1>1, <1>2, <1>3, <1>4, StepIs

LEMMA ElsewhereProposals ==
    ASSUME MemoryShape, ProposalsInv, NEW c \in Callers, c # Worker, NEW x, NEW N, NEW R, NEW M,
           Moves(c, x, N, R, M), SameMakers, crashes' = crashes, prop' = prop
    PROVE  ProposalsInv'
<1>1. op'[Worker].todo = op[Worker].todo
  BY DEF Moves, Callers
<1> QED BY <1>1, ProposalsOthers

\* No memory is stored and none changes its maker.
LEMMA SameMakersIs ==
    ASSUME Stored' = Stored, \A k \in Stored : mem'[k].maker = mem[k].maker
    PROVE  SameMakers
BY DEF SameMakers

LEMMA TurnProposals ==
    ASSUME MemoryShape, ProposalsInv, NEW t \in Turns,
           \/ \E c \in Contents : Write(t, c)
           \/ \E m, by : Deprecate(t, m, by)
           \/ \E old, new : Supersedes(t, old, new)
           \/ \E S : S \subseteq Stored /\ Backfill(t, S)
           \/ \E m : Explore(t, m)
           \/ Search(t)
    PROVE  ProposalsInv'
<1>0. t \in Callers /\ t # Worker
  BY CallersAssumption DEF Callers
<1>1. ASSUME NEW m \in Stored, NEW by \in Stored \cup {Nobody}, NEW status \in Statuses,
             mem' = Lifecycle(m, by, status)
      PROVE  SameMakers
  <2>1. by \in Ids \cup {Nobody}
    BY <1>1, StoredIds DEF MemoryShape
  <2>2. Stored' = Stored /\ \A k \in Stored : mem'[k].maker = mem[k].maker
    BY <1>1, <2>1, LifecycleIs DEF MemoryShape
  <2> QED BY <2>2, SameMakersIs
<1>2. ASSUME NEW m, NEW by, Deprecate(t, m, by) PROVE ProposalsInv'
  <2> PICK R : R = Deprecation(m, by)
    OBVIOUS
  <2> PICK M : M = {m, by} \ {Nobody}
    OBVIOUS
  <2>1. /\ UNCHANGED prop /\ mem' = Lifecycle(m, by, "deprecated") /\ crashes' = crashes
        /\ Moves(t, NoStatement, ToSet(R), R, M)
        /\ m \in Stored /\ by \in (Stored \cup {Nobody}) \ {m}
    BY <1>2, DeprecateShape
  <2>2. "deprecated" \in Statuses
    BY DEF Statuses
  <2>3. SameMakers
    BY <1>1, <2>1, <2>2
  <2> QED BY <1>0, <2>1, <2>3, ElsewhereProposals
<1>3. ASSUME NEW old, NEW new, Supersedes(t, old, new) PROVE ProposalsInv'
  <2>1. PICK R, status : Superseded(t, old, new, R, status)
    BY <1>3, SupersedeShape
  <2>2. /\ UNCHANGED prop /\ Moves(t, NoStatement, ToSet(R), R, {old, new})
        /\ crashes' = crashes /\ old \in Stored /\ new \in Stored
        /\ status \in Statuses /\ mem' = Lifecycle(old, new, status)
    BY <2>1 DEF Superseded
  <2>3. SameMakers
    BY <1>1, <2>2
  <2> QED BY <1>0, <2>2, <2>3, ElsewhereProposals
<1>4. ASSUME NEW N, NEW R, NEW M, Moves(t, NoStatement, N, R, M), UNCHANGED store,
             crashes' = crashes
      PROVE  ProposalsInv'
  <2>1. mem' = mem /\ prop' = prop /\ Stored' = Stored
    BY <1>4 DEF store, Stored
  <2>2. SameMakers
    BY <2>1, SameMakersIs
  <2> QED BY <1>0, <1>4, <2>1, <2>2, ElsewhereProposals
<1>5. ASSUME NEW c \in Contents, Write(t, c) PROVE ProposalsInv'
  <2> PICK x : x = StoreText(c, Nobody, Stored)
    OBVIOUS
  <2> PICK N, R, M : N = {x} /\ R = <<x>> /\ M = {}
    OBVIOUS
  <2>1. Moves(t, NoStatement, N, R, M) /\ UNCHANGED store /\ crashes' = crashes
    BY <1>5, WriteShape
  <2> QED BY <1>4, <2>1
<1>6. ASSUME NEW S, S \subseteq Stored, Backfill(t, S) PROVE ProposalsInv'
  <2>1. PICK R : Moves(t, NoStatement, ToSet(R), R, S) /\ UNCHANGED store /\ crashes' = crashes
    BY <1>6, BackfillShape
  <2> QED BY <1>4, <2>1
<1>7. ASSUME NEW m, Explore(t, m) PROVE ProposalsInv'
  <2> PICK N, R, M : N = {Sync(m)} /\ R = <<Sync(m)>> /\ M = {m}
    OBVIOUS
  <2>1. Moves(t, NoStatement, N, R, M) /\ UNCHANGED store /\ crashes' = crashes
    BY <1>7, ExploreShape
  <2> QED BY <1>4, <2>1
<1>8. ASSUME Search(t) PROVE ProposalsInv'
  <2>1. PICK R : Moves(t, NoStatement, ToSet(R), R, Active) /\ UNCHANGED store /\ crashes' = crashes
    BY <1>8, SearchShape
  <2> QED BY <1>4, <2>1
<1> QED BY <1>2, <1>3, <1>5, <1>6, <1>7, <1>8

LEMMA CallerProposals ==
    ASSUME MemoryShape, ProposalsInv, NEW c \in Callers, Proceed(c)
    PROVE  ProposalsInv'
<1>1. ASSUME NEW P \in Seq(Statement), NEW N, op[c].todo # <<>>,
             Moves(c, Current(c), N, P \o Tail(op[c].todo), op[c].mine),
             Current(c).do \notin {"store", "applied_create"},
             \A x \in ToSet(P) : x.do \notin Carriers \cup {"store"},
             SameMakers, crashes' = crashes, prop' = prop
      PROVE  ProposalsInv'
  <2>1. CASE c # Worker
    BY <1>1, <2>1, ElsewhereProposals
  <2>2. CASE c = Worker
    <3>1. op'[Worker].todo = P \o Tail(op[Worker].todo)
      BY <1>1, <2>2 DEF Moves
    <3> QED BY <1>1, <2>2, <3>1, ProposalsGoOn
  <2> QED BY <2>1, <2>2
<1>2. ASSUME NEW N, op[c].todo # <<>>,
             Moves(c, Current(c), N, Tail(op[c].todo), op[c].mine),
             Current(c).do \notin {"store", "applied_create"},
             SameMakers, crashes' = crashes, prop' = prop
      PROVE  ProposalsInv'
  <2>1. CASE c # Worker
    BY <1>2, <2>1, ElsewhereProposals
  <2>2. CASE c = Worker
    <3>1. op'[Worker].todo = Tail(op[Worker].todo)
      BY <1>2, <2>2 DEF Moves
    <3> QED BY <1>2, <2>2, <3>1, ProposalsTail
  <2> QED BY <2>1, <2>2
<1>3. ASSUME UNCHANGED mem PROVE SameMakers
  <2>1. Stored' = Stored
    BY <1>3 DEF Stored
  <2> QED BY <1>3, <2>1, SameMakersIs
<1>4. CASE LookForFact(c)
  <2>1. PICK x, R, N :
          /\ x \in Statement
          /\ UNCHANGED store /\ Moves(c, Current(c), N, R, op[c].mine) /\ crashes' = crashes
          /\ op[c].todo # <<>> /\ Current(c).do = "ensure"
          /\ R = <<x>> \o Tail(op[c].todo) \/ R = Tail(op[c].todo)
          /\ x.do = "insert"
    <3>1. \E x \in Statement : \E R, N :
          /\ UNCHANGED store /\ Moves(c, Current(c), N, R, op[c].mine) /\ crashes' = crashes
          /\ op[c].todo # <<>> /\ Current(c).do = "ensure"
          /\ R = <<x>> \o Tail(op[c].todo) \/ R = Tail(op[c].todo)
          /\ x.do = "insert"
      BY <1>4, LookShape
    <3> QED BY <3>1
  <2>2. UNCHANGED mem /\ prop' = prop /\ SameMakers
    BY <1>3, <2>1 DEF store
  <2>3. CASE R = Tail(op[c].todo)
    BY <1>2, <2>1, <2>2, <2>3
  <2>4. CASE R = <<x>> \o Tail(op[c].todo)
    <3> PICK P : P = <<x>>
      OBVIOUS
    <3>1. P \in Seq(Statement) /\ ToSet(P) = {x}
      BY <2>1 DEF ToSet
    <3>2. x.do \notin Carriers \cup {"store"}
      BY <2>1 DEF Carriers
    <3>3. Moves(c, Current(c), N, P \o Tail(op[c].todo), op[c].mine)
      BY <2>1, <2>4
    <3> QED BY <1>1, <2>1, <2>2, <3>1, <3>2, <3>3
  <2> QED BY <2>1, <2>3, <2>4
<1> PICK N : N = {}
  OBVIOUS
<1>5. CASE InsertFact(c) \/ SyncMemory(c) \/ RetireFacts(c) \/ RestoreLifecycle(c)
  <2>1. /\ Moves(c, Current(c), N, Tail(op[c].todo), op[c].mine) /\ UNCHANGED <<mem, prop>>
        /\ op[c].todo # <<>> /\ crashes' = crashes
        /\ Current(c).do \in {"insert", "sync", "retire", "restore"}
    BY <1>5, InsertShape, SyncShape, RetireShape, RestoreShape
  <2> QED BY <1>2, <1>3, <2>1
<1>6. CASE LinkReplacement(c)
  <2>1. /\ Moves(c, Current(c), N, Tail(op[c].todo), op[c].mine) /\ UNCHANGED prop
        /\ op[c].todo # <<>> /\ crashes' = crashes /\ Current(c).do \in Linking
        /\ Stored' = Stored /\ \A k \in Stored : mem'[k].maker = mem[k].maker
    BY <1>6, LinkShape
  <2>2. SameMakers
    BY <2>1, SameMakersIs
  <2>3. Current(c).do \notin {"store", "applied_create"}
    BY <2>1 DEF Linking
  <2> QED BY <1>2, <2>1, <2>2, <2>3
<1> QED BY <1>4, <1>5, <1>6, StoreProposals DEF Proceed

LEMMA OtherProposals ==
    ASSUME MemoryShape, ProposalsInv, OtherStep
    PROVE  ProposalsInv'
<1>0. Operator \in Callers /\ Operator # Worker /\ Worker \in Callers
  BY CallersAssumption DEF Callers
<1>3. ASSUME UNCHANGED mem PROVE SameMakers
  <2>1. Stored' = Stored
    BY <1>3 DEF Stored
  <2> QED BY <1>3, <2>1, SameMakersIs
<1>1. CASE DryRun
  <2>1. UNCHANGED <<mem, prop, op, crashes>>
    BY <1>1, DryRunShape DEF store
  <2> QED BY <1>3, <2>1, ProposalsOthers
<1>2. CASE DeprecateFixtures
  <2>1. PICK R, M : /\ Moves(Operator, NoStatement, ToSet(R), R, M) /\ UNCHANGED store
                    /\ crashes' = crashes
    BY <1>2, FixturesShape
  <2> QED BY <1>0, <1>3, <2>1, ElsewhereProposals DEF store
<1>4. CASE DeprecateFixture
  <2>1. PICK m, x, R :
          /\ UNCHANGED prop /\ m \in Stored /\ crashes' = crashes
          /\ \/ /\ mem' = Lifecycle(m, Nobody, "deprecated")
                /\ Moves(Operator, Current(Operator), {x}, R, op[Operator].mine)
             \/ mem' = mem /\ Forgets({Operator})
    BY <1>4, FixtureShape
  <2>2. CASE mem' = mem /\ Forgets({Operator})
    <3>1. op'[Worker].todo = op[Worker].todo
      BY <1>0, <2>2 DEF Forgets
    <3> QED BY <1>3, <2>1, <2>2, <3>1, ProposalsOthers
  <2>3. CASE /\ mem' = Lifecycle(m, Nobody, "deprecated")
             /\ Moves(Operator, Current(Operator), {x}, R, op[Operator].mine)
    <3> PICK N : N = {x}
      OBVIOUS
    <3>1. Nobody \in Ids \cup {Nobody} /\ "deprecated" \in Statuses
      BY DEF Statuses
    <3>2. Stored' = Stored /\ \A k \in Stored : mem'[k].maker = mem[k].maker
      BY <2>1, <2>3, <3>1, LifecycleIs DEF MemoryShape
    <3>3. SameMakers
      BY <3>2, SameMakersIs
    <3> QED BY <1>0, <2>1, <2>3, <3>3, ElsewhereProposals
  <2> QED BY <2>1, <2>2, <2>3
<1> QED BY <1>1, <1>2, <1>4, CrashProposals DEF OtherStep

LEMMA NextProposals ==
    ASSUME MemoryShape, ProposalsInv, Next
    PROVE  ProposalsInv'
<1>1. CASE TurnStep
  BY <1>1, TurnProposals DEF TurnStep
<1>2. CASE CallerStep
  BY <1>2, CallerProposals DEF CallerStep
<1>3. CASE WorkerStep
  <2>1. CASE \E i \in DOMAIN op[Worker].todo, outcome \in Outcomes, confident \in BOOLEAN :
             Decide(i, outcome, confident)
    BY <2>1, DecideProposals
  <2>2. CASE \E cs \in Seq(Contents) : Review(cs)
    BY <2>2, ReviewProposals
  <2> QED BY <1>3, <2>1, <2>2, CheckProposals, ProposeProposals, SettleProposals,
             ResolveProposals, Zenon DEF WorkerStep
<1>4. CASE OtherStep
  BY <1>4, OtherProposals
<1> QED BY <1>1, <1>2, <1>3, <1>4, StepIs

LEMMA TurnBackfill ==
    ASSUME MemoryShape, BackfillInv, NEW t \in Turns,
           \/ \E c \in Contents : Write(t, c)
           \/ \E m, by : Deprecate(t, m, by)
           \/ \E old, new : Supersedes(t, old, new)
           \/ \E S : S \subseteq Stored /\ Backfill(t, S)
           \/ \E m : Explore(t, m)
           \/ Search(t)
    PROVE  BackfillInv'
<1>0. t \in Callers /\ OpTypes
  BY DEF Callers, MemoryShape
<1>1. ASSUME NEW kind, NEW M, NEW R, Begin(t, kind, M, R), kind # "backfill"
      PROVE  BackfillInv'
  BY <1>0, <1>1, OthersBegin
<1>2. CASE \E c \in Contents : Write(t, c)
  BY <1>1, <1>2 DEF Write
<1>3. CASE \E m, by : Deprecate(t, m, by)
  BY <1>1, <1>3 DEF Deprecate
<1>4. CASE \E old, new : Supersedes(t, old, new)
  BY <1>1, <1>4 DEF Supersedes, Supersede
<1>5. CASE \E S : S \subseteq Stored /\ Backfill(t, S)
  BY <1>5, BackfillBegins
<1>6. CASE \E m : Explore(t, m)
  BY <1>1, <1>6 DEF Explore
<1>7. CASE Search(t)
  BY <1>1, <1>7 DEF Search
<1> QED BY <1>2, <1>3, <1>4, <1>5, <1>6, <1>7

LEMMA NextBackfill ==
    ASSUME MemoryShape, BackfillInv, Next
    PROVE  BackfillInv'
<1>0. Worker \in Callers /\ Operator \in Callers /\ OpTypes
  BY DEF Callers, MemoryShape
<1>1. CASE TurnStep
  BY <1>1, TurnBackfill DEF TurnStep
<1>2. CASE CallerStep
  <2>1. PICK c \in Callers : Proceed(c)
    BY <1>2 DEF CallerStep
  <2> QED BY <2>1, LookBackfill, InsertBackfill, SyncBackfill, RestoreBackfill, OtherBackfill
          DEF Proceed
<1>3. CASE WorkerStep
  <2>1. CASE \E i \in DOMAIN op[Worker].todo, outcome \in Outcomes, confident \in BOOLEAN :
             Decide(i, outcome, confident)
    BY <2>1, DecideBackfill
  <2>2. CASE \E cs \in Seq(Contents) : Review(cs)
    <3>1. \E R, M : Begin(Worker, "review", M, R)
      BY <2>2 DEF Review
    <3> QED BY <1>0, <3>1, OthersBegin
  <2> QED BY <1>3, <2>1, <2>2, WorkerBackfill, Zenon DEF WorkerStep
<1>4. CASE OtherStep
  <2>1. CASE DryRun
    <3>1. UNCHANGED <<mem, facts, op>>
      BY <2>1, DryRunShape DEF store
    <3> PICK D : D = {}
      OBVIOUS
    <3> QED BY <3>1, BackfillForgotten
  <2>2. CASE DeprecateFixtures
    <3>1. \E R, M : Begin(Operator, "fixtures", M, R)
      BY <2>2 DEF DeprecateFixtures
    <3> QED BY <1>0, <3>1, OthersBegin
  <2> QED BY <1>4, <2>1, <2>2, FixtureBackfill, CrashBackfill DEF OtherStep
<1> QED BY <1>1, <1>2, <1>3, <1>4, StepIs

LEMMA NextInv ==
    ASSUME MemoryInv, Next
    PROVE  MemoryInv'
<1>1. MemoryShape /\ RowsInv /\ ChecksInv /\ ProposalsInv /\ BackfillInv
  BY DEF MemoryInv, RowsInv
<1>2. MemoryShape'
  BY <1>1, NextShape
<1>3. RowsInv'
  BY <1>1, NextRows
<1>4. ChecksInv' /\ ProposalsInv' /\ BackfillInv'
  BY <1>1, NextChecks, NextProposals, NextBackfill
<1> QED BY <1>2, <1>3, <1>4 DEF MemoryInv, RowsInv

LEMMA StutterInv ==
    ASSUME MemoryInv, UNCHANGED vars
    PROVE  MemoryInv'
<1>1. /\ mem' = mem /\ facts' = facts /\ node' = node /\ prop' = prop /\ op' = op
      /\ reviewed' = reviewed /\ begun' = begun /\ crashes' = crashes /\ mixed' = mixed
      /\ Stored' = Stored /\ Active' = Active
  BY DEF vars, Stored, Active
<1>2. RowTypes' /\ OpTypes' /\ RowNames' /\ OpNames'
  BY <1>1 DEF MemoryInv, MemoryShape, RowTypes, OpTypes, RowNames, OpNames
<1>3. ListsOK' /\ Exclusive'
  BY <1>1 DEF MemoryInv, MemoryShape, ListsOK, ListOK, Exclusive
<1>4. /\ \A x : Fresh(x)' <=> Fresh(x)
      /\ \A c : Todo(c)' = Todo(c)
      /\ \A deeds, m : SomePends(deeds, m)' <=> SomePends(deeds, m)
      /\ \A x : StoreOK(x)' <=> StoreOK(x)
      /\ \A m : Healed(m)' <=> Healed(m)
      /\ \A p : Made(p)' <=> Made(p)
  BY <1>1 DEF Fresh, Extracts, Todo, SomePends, Pends, StoreOK, NewAmong, Healed, HasActiveFact, Made
<1>5. StatementsFresh'
  BY <1>1, <1>4 DEF MemoryInv, StatementsFresh
<1>6. FactsInv' /\ NodesInv'
  BY <1>1, <1>4 DEF MemoryInv, FactsInv, FactsOK, NodesInv, NodeOK, Extracts, HasActiveFact, Linked
<1>7. LinksInv'
  BY <1>1, <1>4 DEF MemoryInv, LinksInv, LinksBack
<1>8. ChecksInv'
  BY <1>1, <1>4 DEF MemoryInv, ChecksInv, NewAmong, FitsAmong, TwinsOnlyFromStaleChecks
<1>9. ProposalsInv' /\ BackfillInv'
  BY <1>1, <1>4 DEF MemoryInv, ProposalsInv, BackfillInv
<1> QED BY <1>2, <1>3, <1>5, <1>6, <1>7, <1>8, <1>9 DEF MemoryInv, MemoryShape

\* The inductive invariant holds: whatever the commands of turns, the review and
\* the operator commit in between one another, every row and every statement still
\* to come fit.
THEOREM MemoryInvariant == Spec => []MemoryInv
<1>1. MemoryInv /\ [Next]_vars => MemoryInv'
  BY NextInv, StutterInv
<1> QED BY <1>1, InitInv, PTL DEF Spec

-----------------------------------------------------------------------------
(* What it says of memories that no operation works on *)

LEMMA QuietIs ==
    ASSUME MemoryShape, NEW m \in Quiet
    PROVE  /\ m \in Stored /\ m \notin mixed
           /\ \A deeds : ~SomePends(deeds, m)
           /\ \A c \in Callers : \A x \in Todo(c) : x.do \in Owned => x.m # m
<1>1. m \in Stored /\ m \notin mixed /\ m \notin InUse
  BY DEF Quiet
<1>2. ASSUME NEW c \in Callers, NEW x \in Todo(c) PROVE m \notin op[c].mine
  <2>1. op[c].todo \in Seq(Statement)
    BY DEF MemoryShape, OpTypes
  <2>2. op[c].todo # <<>>
    BY <1>2, <2>1, InSet DEF Todo
  <2>3. c \in Busy
    BY <2>2 DEF Busy, MemoryShape, OpNames
  <2> QED BY <1>1, <2>3 DEF InUse
<1>3. \A deeds : ~SomePends(deeds, m)
  BY <1>2 DEF SomePends, Pends, Has, Todo
<1>4. \A c \in Callers : \A x \in Todo(c) : x.do \in Owned => x.m \in op[c].mine
  BY DEF MemoryShape, ListsOK, ListOK, StatementOK, Todo
<1> QED BY <1>1, <1>2, <1>3, <1>4

LEMMA RowsAreTyped ==
    ASSUME MemoryShape
    PROVE  TypeOK
<1>1. Len(mem) \in 0..MaxMemories
  BY StoredIds DEF MemoryShape, RowTypes
<1> QED BY <1>1 DEF MemoryShape, RowTypes, RowNames, OpNames, TypeOK, MemoryRow, ProposalRow

LEMMA RowsAgree ==
    ASSUME MemoryInv
    PROVE  MemoryRowsAgree
<1>1. MemoryShape
  BY DEF MemoryInv
<1>2. FactsFollowMemory
  <2>1. ASSUME NEW m \in Quiet
        PROVE  /\ mem[m].status = "deprecated" => ~HasActiveFact(m)
               /\ mem[m].status = "active" /\ mem[m].by = Nobody =>
                    /\ \A i \in DOMAIN facts[m] : facts[m][i] = "active"
                    /\ facts[m] # <<>> <=> Extracts(m)
    <3>1. m \in Stored /\ m \notin mixed /\ \A deeds : ~SomePends(deeds, m)
      BY <1>1, QuietIs
    <3>2. FactsOK(m)
      BY <3>1 DEF MemoryInv, FactsInv
    <3> QED BY <3>1, <3>2 DEF FactsOK
  <2> QED BY <2>1 DEF FactsFollowMemory
<1>3. LinksAgree
  <2>1. ASSUME NEW m \in Quiet, mem[m].by \in Quiet PROVE m \in mem[mem[m].by].over
    <3>1. PICK x : x = mem[m].by
      OBVIOUS
    <3>2. /\ x \in Stored /\ x \notin mixed /\ m \in Stored
          /\ \A c \in Callers : \A y \in Todo(c) : y.do \in Owned => y.m # x
      BY <1>1, <2>1, <3>1, QuietIs
    <3>3. LinksBack(x, m)
      BY <3>1, <3>2 DEF MemoryInv, LinksInv
    <3>4. ~\E c \in Callers : \E s \in Todo(c) : Stores(x, s, m)
      BY <3>2 DEF Stores, Owned
    <3> QED BY <3>1, <3>3, <3>4 DEF LinksBack
  <2> QED BY <2>1 DEF LinksAgree
<1>4. NodeFollowsMemory
  <2>1. ASSUME NEW m \in Quiet PROVE NodeOK(m)
    <3>1. m \in Stored /\ m \notin mixed /\ \A deeds : ~SomePends(deeds, m)
      BY <1>1, QuietIs
    <3> QED BY <3>1 DEF MemoryInv, NodesInv
  <2> QED BY <2>1 DEF NodeOK, NodeFollowsMemory
<1>5. TwinsOnlyFromStaleChecks
  BY DEF MemoryInv, ChecksInv
<1> QED BY <1>1, <1>2, <1>3, <1>4, <1>5, RowsAreTyped DEF MemoryRowsAgree

LEMMA ReviewIsOnce ==
    ASSUME MemoryInv
    PROVE  ReviewedOnce
<1>0. MemoryShape /\ ChecksInv /\ ProposalsInv /\ RowTypes /\ RowNames
  BY DEF MemoryInv, MemoryShape
<1>1. NothingAppliedUnseen
  <2>1. ASSUME NEW m \in Active, mem[m].maker # Nobody,
               NEW k \in prop[mem[m].maker].known \cap Active
        PROVE  /\ mem[k].content # mem[m].content
               /\ KeyOf[mem[k].content] = KeyOf[mem[m].content] => KeyOf[mem[k].content] = NoKey
    <3>1. PICK p : p = mem[m].maker
      OBVIOUS
    <3>2. m \in Stored /\ p \in DOMAIN prop
      BY <1>0, <2>1, <3>1 DEF RowNames, Active
    <3>3. mem[m].content = prop[p].content /\ prop[p].action = "create_new"
      BY <1>0, <2>1, <3>1, <3>2 DEF ChecksInv
    <3>4. NewAmong(prop[p].content, prop[p].seen \cup prop[p].known)
          /\ FitsAmong(prop[p].content, prop[p].known)
      BY <1>0, <3>2, <3>3 DEF ChecksInv
    <3> QED BY <2>1, <3>1, <3>3, <3>4 DEF NewAmong, FitsAmong
  <2> QED BY <2>1 DEF NothingAppliedUnseen
<1>2. ProposalOnce
  <2>1. ASSUME NEW p \in DOMAIN prop
        PROVE  /\ Cardinality(MadeBy(p)) <= 1
               /\ prop[p].status = "applied_create" => MadeBy(p) # {}
               /\ MadeBy(p) # {} => prop[p].status \in {"pending", "applied_create"}
    <3>1. p # Nobody
      BY <1>0, PropsIs
    <3>2. \A m, n \in MadeBy(p) : m = n
      BY <1>0, <3>1 DEF ProposalsInv, MadeBy
    <3>3. MadeBy(p) = {} \/ \E m : MadeBy(p) = {m}
      <4>1. SUFFICES ASSUME NEW m \in MadeBy(p) PROVE MadeBy(p) = {m}
        OBVIOUS
      <4> QED BY <3>2
    <3>4. Cardinality(MadeBy(p)) <= 1
      <4>1. \A m : Cardinality({m}) = 1
        BY FS_Singleton
      <4>2. MadeBy(p) = {} => Cardinality(MadeBy(p)) = 0
        BY FS_EmptySet
      <4> QED BY <3>3, <4>1, <4>2
    <3>5. MadeBy(p) # {} <=> Made(p)
      BY DEF MadeBy, Made
    <3> QED BY <1>0, <3>4, <3>5 DEF ProposalsInv
  <2> QED BY <2>1 DEF ProposalOnce
<1>3. HalfAppliedOnlyByCrash
  <2>1. ASSUME Busy = {}, crashes = 0, NEW m \in Stored, mem[m].maker # Nobody
        PROVE  prop[mem[m].maker].status = "applied_create"
    <3>1. PICK p : p = mem[m].maker
      OBVIOUS
    <3>2. p \in DOMAIN prop /\ Made(p)
      BY <1>0, <2>1, <3>1 DEF RowNames, Made
    <3>3. Worker \in Callers /\ op[Worker].kind = "idle"
      BY <2>1 DEF Busy, Callers
    <3>4. op[Worker].todo = <<>>
      BY <1>0, <3>3 DEF MemoryShape, OpNames
    <3>5. Todo(Worker) = {}
      BY <3>4 DEF Todo, ToSet
    <3> QED BY <1>0, <2>1, <3>1, <3>2, <3>5 DEF ProposalsInv
  <2> QED BY <2>1 DEF HalfAppliedOnlyByCrash
<1> QED BY <1>0, <1>1, <1>2, <1>3 DEF ReviewedOnce, ChecksInv

\* Where no other operation and no crash came between the commits of an operation,
\* the facts, the links and the graph node of a memory agree with its row; and two
\* active memories of one text come from a duplicate check that was out of date.
THEOREM MemoryRowsAgreeAlways == Spec => []MemoryRowsAgree
BY RowsAgree, MemoryInvariant, PTL

\* What the review applies on its own is new to all it could see, makes one memory
\* per proposal, and stays half applied only when the process died in between.
THEOREM ReviewedOnceAlways == Spec => []ReviewedOnce
BY ReviewIsOnce, MemoryInvariant, PTL

-----------------------------------------------------------------------------
(* What no step does *)

\* No step brings a memory back, and only the statement that carries a proposal
\* settles it.
LEMMA StatusesStay ==
    ASSUME MemoryInv, Next
    PROVE  /\ Stored \subseteq Stored'
           /\ \A m \in Stored : mem'[m].status = "active" => mem[m].status = "active"
           /\ DOMAIN prop \subseteq DOMAIN prop'
           /\ \A p \in DOMAIN prop : prop[p].status # "pending" => prop'[p].status = prop[p].status
<1> DEFINE Kept == /\ Stored \subseteq Stored'
                   /\ \A m \in Stored : mem'[m].status = "active" => mem[m].status = "active"
           Settled == /\ DOMAIN prop \subseteq DOMAIN prop'
                      /\ \A p \in DOMAIN prop :
                           prop[p].status # "pending" => prop'[p].status = prop[p].status
<1>0. MemoryShape /\ ProposalsInv /\ RowTypes /\ Worker \in Callers
  BY DEF MemoryInv, MemoryShape, Callers
<1>1. ASSUME UNCHANGED mem PROVE Kept
  BY <1>1 DEF Stored
<1>2. ASSUME UNCHANGED prop PROVE Settled
  BY <1>2
<1>3. ASSUME NEW m \in Stored, NEW by \in Stored \cup {Nobody}, NEW status \in Statuses,
             mem' = Lifecycle(m, by, status), status = "active" => mem[m].status = "active"
      PROVE  Kept
  <2>1. by \in Ids \cup {Nobody}
    BY <1>0, StoredIds
  <2> QED BY <1>0, <1>3, <2>1, LifecycleIs
<1>4. ASSUME NEW s \in Todo(Worker), s.do \in Carriers, DOMAIN prop' = DOMAIN prop,
             \A q \in DOMAIN prop \ {s.p} : prop'[q].status = prop[q].status
      PROVE  Settled
  <2>1. prop[s.p].status = "pending"
    BY <1>0, <1>4 DEF ProposalsInv
  <2> QED BY <1>4, <2>1
<1> HIDE DEF Kept, Settled
<1>5. CASE TurnStep
  <2>1. PICK t \in Turns :
          \/ \E c \in Contents : Write(t, c)
          \/ \E m, by : Deprecate(t, m, by)
          \/ \E old, new : Supersedes(t, old, new)
          \/ \E S : S \subseteq Stored /\ Backfill(t, S)
          \/ \E m : Explore(t, m)
          \/ Search(t)
    BY <1>5 DEF TurnStep
  <2>2. ASSUME NEW m, NEW by, Deprecate(t, m, by) PROVE Kept /\ Settled
    <3>1. /\ UNCHANGED prop /\ mem' = Lifecycle(m, by, "deprecated")
          /\ m \in Stored /\ by \in (Stored \cup {Nobody}) \ {m}
      BY <1>0, <2>2, DeprecateShape
    <3>2. "deprecated" \in Statuses
      BY DEF Statuses
    <3> QED BY <1>2, <1>3, <3>1, <3>2
  <2>3. ASSUME NEW old, NEW new, Supersedes(t, old, new) PROVE Kept /\ Settled
    <3>1. PICK R, status : Superseded(t, old, new, R, status)
      BY <1>0, <2>3, SupersedeShape
    <3>2. /\ UNCHANGED prop /\ old \in Stored /\ new \in Stored
          /\ status \in Statuses /\ mem' = Lifecycle(old, new, status)
          /\ status # mem[old].status => status = "deprecated"
      BY <3>1 DEF Superseded
    <3>3. status = "active" => mem[old].status = "active"
      BY <3>2
    <3> QED BY <1>2, <1>3, <3>2, <3>3
  <2>4. CASE \/ \E c \in Contents : Write(t, c)
             \/ \E S : S \subseteq Stored /\ Backfill(t, S)
             \/ \E m : Explore(t, m)
             \/ Search(t)
    <3>1. UNCHANGED store
      BY <2>4 DEF Write, Backfill, Explore, Search
    <3>2. Kept /\ Settled
      BY <1>1, <1>2, <3>1 DEF store
    <3> QED BY <3>2 DEF Kept, Settled
  <2> QED BY <2>1, <2>2, <2>3, <2>4 DEF Kept, Settled
<1>6. CASE CallerStep
  <2>1. PICK c \in Callers : Proceed(c)
    BY <1>6 DEF CallerStep
  <2>2. CASE StoreMemory(c)
    <3>1. UNCHANGED prop /\ Stored \subseteq Stored' /\ \A k \in Stored : mem'[k] = mem[k]
      BY <1>0, <2>2, StoreShape
    <3>2. Kept
      BY <3>1 DEF Kept
    <3> QED BY <1>2, <3>1, <3>2 DEF Kept, Settled
  <2>3. CASE LinkReplacement(c)
    <3>1. UNCHANGED prop /\ Stored = Stored' /\ \A k \in Stored : mem'[k].status = mem[k].status
      BY <1>0, <2>3, LinkShape
    <3>2. Kept
      BY <3>1 DEF Kept
    <3> QED BY <1>2, <3>1, <3>2 DEF Kept, Settled
  <2>4. CASE LookForFact(c) \/ InsertFact(c) \/ SyncMemory(c) \/ RetireFacts(c) \/ RestoreLifecycle(c)
    <3>1. UNCHANGED <<mem, prop>>
      BY <2>4 DEF LookForFact, InsertFact, SyncMemory, RetireFacts, RestoreLifecycle, store
    <3> QED BY <1>1, <1>2, <3>1 DEF Kept, Settled
  <2> QED BY <2>1, <2>2, <2>3, <2>4 DEF Proceed
<1>7. CASE WorkerStep
  <2>1. CASE \E i \in DOMAIN op[Worker].todo, outcome \in Outcomes, confident \in BOOLEAN :
             Decide(i, outcome, confident)
    <3>1. PICK i \in DOMAIN op[Worker].todo, outcome \in Outcomes, confident \in BOOLEAN :
             Decide(i, outcome, confident)
      BY <2>1, Zenon
    <3> PICK s : s = op[Worker].todo[i]
      OBVIOUS
    <3>2. /\ UNCHANGED mem /\ s \in Todo(Worker) /\ s.do = "decide" /\ DOMAIN prop' = DOMAIN prop
          /\ \A q \in DOMAIN prop \ {s.p} : prop'[q].status = prop[q].status
      BY <1>0, <3>1, DecideShape
    <3> QED BY <1>1, <1>4, <3>2 DEF Carriers, Kept, Settled
  <2>2. CASE Settle \/ ResolveApplied
    <3> PICK s : s = Current(Worker)
      OBVIOUS
    <3>1. /\ UNCHANGED mem /\ s \in Todo(Worker) /\ s.do \in {"settle", "applied_create"}
          /\ DOMAIN prop' = DOMAIN prop
          /\ \A q \in DOMAIN prop \ {s.p} : prop'[q].status = prop[q].status
      BY <1>0, <2>2, SettleShape, ResolveShape
    <3> QED BY <1>1, <1>4, <3>1 DEF Carriers, Kept, Settled
  <2>3. CASE Propose
    <3>1. /\ UNCHANGED mem /\ DOMAIN prop \subseteq DOMAIN prop'
          /\ \A q \in DOMAIN prop : prop'[q] = prop[q]
      BY <1>0, <2>3, ProposeShape
    <3>2. Settled
      BY <3>1 DEF Settled
    <3> QED BY <1>1, <3>1, <3>2 DEF Kept, Settled
  <2>4. CASE CheckCandidate \/ \E cs \in Seq(Contents) : Review(cs)
    <3>1. UNCHANGED <<mem, prop>>
      BY <2>4 DEF CheckCandidate, Review, store
    <3> QED BY <1>1, <1>2, <3>1 DEF Kept, Settled
  <2> QED BY <1>7, <2>1, <2>2, <2>3, <2>4, Zenon DEF WorkerStep
<1>8. CASE OtherStep
  <2>1. CASE DeprecateFixture
    <3>1. PICK m \in Stored : /\ UNCHANGED prop
                              /\ mem' = Lifecycle(m, Nobody, "deprecated") \/ mem' = mem
      BY <1>0, <2>1, FixtureShape
    <3>2. "deprecated" \in Statuses
      BY DEF Statuses
    <3>3. Kept
      BY <1>1, <1>3, <3>1, <3>2
    <3> QED BY <1>2, <3>1, <3>3 DEF Kept, Settled
  <2>2. CASE DryRun \/ DeprecateFixtures \/ Crash
    <3>1. UNCHANGED <<mem, prop>>
      BY <2>2 DEF DryRun, DeprecateFixtures, Crash, store
    <3> QED BY <1>1, <1>2, <3>1 DEF Kept, Settled
  <2> QED BY <1>8, <2>1, <2>2 DEF OtherStep
<1> QED BY <1>0, <1>5, <1>6, <1>7, <1>8, StepIs DEF Kept, Settled

\* A backfill that ends without a crash had one statement left.
LEMMA BackfillEnds ==
    ASSUME MemoryInv, Next, NEW t \in Turns, op[t].kind = "backfill", op[t].calm,
           op'[t].kind = "idle", crashes' = crashes
    PROVE  op[t].todo # <<>> /\ Tail(op[t].todo) = <<>>
<1>0. /\ MemoryShape /\ BackfillInv /\ t \in Callers /\ crashes \in Nat
      /\ Worker \in Callers \ {t} /\ Operator \in Callers \ {t}
  BY CallersAssumption DEF MemoryInv, Callers, ProposalsInv
<1>1. op[t].todo # <<>>
  BY <1>0 DEF MemoryShape, OpNames
<1>2. ASSUME NEW c \in Callers \ {t}, NEW x, NEW N, NEW R, NEW M, Moves(c, x, N, R, M)
      PROVE  FALSE
  <2>1. op'[t].kind = op[t].kind
    BY <1>0, <1>2 DEF Moves
  <2> QED BY <2>1
<1>3. CASE TurnStep
  <2>1. PICK u \in Turns :
          \/ \E c \in Contents : Write(u, c)
          \/ \E m, by : Deprecate(u, m, by)
          \/ \E old, new : Supersedes(u, old, new)
          \/ \E S : S \subseteq Stored /\ Backfill(u, S)
          \/ \E m : Explore(u, m)
          \/ Search(u)
    BY <1>3 DEF TurnStep
  <2>2. op[u].todo = <<>> /\ \E N, R, M : Moves(u, NoStatement, N, R, M)
    <3>1. CASE \E c \in Contents : Write(u, c)
      BY <1>0, <3>1, WriteShape
    <3>2. CASE \E m, by : Deprecate(u, m, by)
      <4>1. PICK m, by : Deprecate(u, m, by)
        BY <3>2
      <4> PICK N, R, M :
            /\ R = Deprecation(m, by) /\ N = ToSet(R) /\ M = {m, by} \ {Nobody}
        OBVIOUS
      <4>2. op[u].todo = <<>> /\ Moves(u, NoStatement, N, R, M)
        BY <1>0, <4>1, DeprecateShape
      <4> QED BY <4>2
    <3>3. CASE \E old, new : Supersedes(u, old, new)
      <4>1. PICK old, new, R, status : Superseded(u, old, new, R, status)
        BY <1>0, <3>3, SupersedeShape
      <4>2. op[u].todo = <<>> /\ Moves(u, NoStatement, ToSet(R), R, {old, new})
        BY <4>1 DEF Superseded
      <4> QED BY <4>2
    <3>4. CASE \E S : S \subseteq Stored /\ Backfill(u, S)
      BY <1>0, <3>4, BackfillShape
    <3>5. CASE \E m : Explore(u, m)
      BY <1>0, <3>5, ExploreShape
    <3>6. CASE Search(u)
      BY <1>0, <3>6, SearchShape
    <3> QED BY <2>1, <3>1, <3>2, <3>3, <3>4, <3>5, <3>6
  <2>3. u \in Callers \ {t}
    BY <1>1, <2>2 DEF Callers
  <2> QED BY <1>2, <2>2, <2>3
<1>4. CASE CallerStep
  <2>1. PICK c \in Callers : Proceed(c)
    BY <1>4 DEF CallerStep
  <2>2. PICK x, N, R :
          /\ \E M : Moves(c, x, N, R, M)
          /\ Current(c).do # "store" => R = Tail(op[c].todo) \/ R # <<>>
    <3>1. CASE StoreMemory(c)
      BY <1>0, <3>1, StoreShape
    <3>2. CASE LookForFact(c)
      <4>1. \E x \in Statement : \E R, N :
              /\ Moves(c, Current(c), N, R, op[c].mine)
              /\ R = Tail(op[c].todo) \/ R # <<>>
        BY <1>0, <3>2, LookShape
      <4>2. PICK R, N : /\ Moves(c, Current(c), N, R, op[c].mine)
                        /\ R = Tail(op[c].todo) \/ R # <<>>
        BY <4>1
      <4> QED BY <4>2
    <3>3. CASE InsertFact(c)
      BY <1>0, <3>3, InsertShape
    <3>4. CASE SyncMemory(c)
      BY <1>0, <3>4, SyncShape
    <3>5. CASE LinkReplacement(c)
      BY <1>0, <3>5, LinkShape
    <3>6. CASE RetireFacts(c)
      BY <1>0, <3>6, RetireShape
    <3>7. CASE RestoreLifecycle(c)
      BY <1>0, <3>7, RestoreShape
    <3> QED BY <2>1, <3>1, <3>2, <3>3, <3>4, <3>5, <3>6, <3>7 DEF Proceed
  <2>3. c = t
    BY <1>2, <2>2
  <2>4. R = <<>>
    BY <2>2, <2>3 DEF Moves
  <2>5. Current(t).do # "store"
    BY <1>0, <1>1, BackfillDeeds
  <2> QED BY <1>1, <2>2, <2>3, <2>4, <2>5
<1>5. CASE WorkerStep
  <2>1. \E x, N, R, M : Moves(Worker, x, N, R, M)
    <3>1. CASE \E i \in DOMAIN op[Worker].todo, outcome \in Outcomes, confident \in BOOLEAN :
             Decide(i, outcome, confident)
      BY <1>0, <3>1, DecideShape
    <3>2. CASE \E cs \in Seq(Contents) : Review(cs)
      BY <1>0, <3>2, ReviewShape
    <3>3. CASE CheckCandidate
      BY <1>0, <3>3, CheckShape
    <3>4. CASE Propose
      BY <1>0, <3>4, ProposeShape
    <3>5. CASE Settle
      BY <1>0, <3>5, SettleShape
    <3>6. CASE ResolveApplied
      BY <1>0, <3>6, ResolveShape
    <3> QED BY <1>5, <3>1, <3>2, <3>3, <3>4, <3>5, <3>6, Zenon DEF WorkerStep
  <2> QED BY <1>0, <1>2, <2>1
<1>6. CASE OtherStep
  <2>1. CASE DryRun
    BY <1>0, <2>1, DryRunShape
  <2>2. CASE DeprecateFixtures
    BY <1>0, <1>2, <2>2, FixturesShape
  <2>3. CASE DeprecateFixture
    <3>1. \/ \E x, N, R, M : Moves(Operator, x, N, R, M)
          \/ Forgets({Operator})
      BY <1>0, <2>3, FixtureShape
    <3>2. Forgets({Operator}) => op'[t] = op[t]
      BY <1>0 DEF Forgets
    <3> QED BY <1>0, <1>2, <3>1, <3>2
  <2>4. CASE Crash
    BY <1>0, <2>4, CrashShape
  <2> QED BY <1>6, <2>1, <2>2, <2>3, <2>4 DEF OtherStep
<1> QED BY <1>0, <1>3, <1>4, <1>5, <1>6, StepIs

LEMMA BackfillHealed ==
    ASSUME MemoryInv, Next, NEW t \in Turns, op[t].kind = "backfill", op[t].calm,
           op'[t].kind = "idle", crashes' = crashes, NEW m \in op[t].mine
    PROVE  Healed(m)
<1>1. op[t].todo # <<>> /\ Tail(op[t].todo) = <<>>
  BY BackfillEnds
<1>2. MemoryShape /\ BackfillInv /\ t \in Callers /\ op[t].todo \in Seq(Statement)
  BY DEF MemoryInv, MemoryShape, OpTypes, Callers
<1>3. /\ BackfillOK(op[t].todo, op[t].mine)
      /\ Has(op[t].todo, {"restore"}, m) \/ Healed(m)
  BY <1>1, <1>2, BackfillDeeds
<1>4. ~Has(op[t].todo, {"restore"}, m)
  BY <1>1, <1>2, <1>3, BackfillRest
<1> QED BY <1>3, <1>4

\* A deprecated memory never becomes active again, whatever command, review or
\* backfill reaches it; and a backfill that met no other operation leaves no active
\* fact on a memory that names a successor.
THEOREM MemoryStepsAlways == Spec => MemorySteps
<1>1. ASSUME MemoryInv, [Next]_vars
      PROVE  \A m \in Stored : mem[m].status = "deprecated" => mem'[m].status = "deprecated"
  <2>1. CASE UNCHANGED vars
    BY <2>1 DEF vars
  <2>2. CASE Next
    <3>1. ASSUME NEW m \in Stored, mem[m].status = "deprecated"
          PROVE  mem'[m].status = "deprecated"
      <4>1. m \in Stored' /\ mem'[m].status # "active"
        BY <2>2, <3>1, <1>1, StatusesStay
      <4>2. RowTypes'
        BY <1>1, <2>2, NextInv DEF MemoryInv, MemoryShape
      <4>3. mem'[m] \in MemoryRow
        <5>1. mem' \in Seq(MemoryRow) /\ m \in 1..Len(mem')
          BY <4>1, <4>2 DEF RowTypes, Stored
        <5> QED BY <5>1
      <4>4. mem'[m].status \in Statuses
        BY <4>3 DEF MemoryRow
      <4> QED BY <4>1, <4>4 DEF Statuses
    <3> QED BY <3>1
  <2> QED BY <1>1, <2>1, <2>2
<1>2. ASSUME MemoryInv, [Next]_vars, NEW t \in Turns, op[t].kind = "backfill", op[t].calm,
             op'[t].kind = "idle", crashes' = crashes, NEW m \in op[t].mine, mem[m].by # Nobody
      PROVE  ~HasActiveFact(m)
  <2>1. CASE UNCHANGED vars
    BY <1>2, <2>1 DEF vars
  <2>2. CASE Next
    BY <1>2, <2>2, BackfillHealed DEF Healed
  <2> QED BY <1>2, <2>1, <2>2
<1>3. MemoryInv /\ [Next]_vars =>
        /\ [\A m \in Stored : mem[m].status = "deprecated" => mem'[m].status = "deprecated"]_vars
        /\ [\A t \in Turns :
              op[t].kind = "backfill" /\ op[t].calm /\ op'[t].kind = "idle"
                /\ crashes' = crashes =>
                  \A m \in op[t].mine : mem[m].by # Nobody => ~HasActiveFact(m)]_vars
  BY <1>1, <1>2
<1> QED BY <1>3, MemoryInvariant, PTL DEF Spec, MemorySteps, DeprecatedIsFinal, BackfillHeals

\* A proposal that was applied, archived or left for a person keeps that outcome:
\* only the statement that carries a pending proposal settles it.
THEOREM ProposalsStaySettled == Spec => ResolvedIsFinal
<1>1. MemoryInv /\ [Next]_vars =>
        [\A p \in DOMAIN prop : prop[p].status # "pending" =>
                                    prop'[p].status = prop[p].status]_vars
  <2>1. CASE UNCHANGED vars
    BY <2>1
  <2>2. CASE Next
    BY <2>2, StatusesStay
  <2> QED BY <2>1, <2>2
<1> QED BY <1>1, MemoryInvariant, PTL DEF Spec, ResolvedIsFinal

=============================================================================
