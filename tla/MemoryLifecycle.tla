-------------------------- MODULE MemoryLifecycle --------------------------
(***************************************************************************)
(* Semantic memories, the facts extracted from them, the nodes of the      *)
(* derived memory graph and the proposals of the maintenance review        *)
(* (mind/memory_write, memory_lifecycle, memory_proposals, memory_read,    *)
(* runtime/maintenance_memory, memory_provenance, repository/memory).      *)
(*                                                                         *)
(* No handler holds a transaction from its first read to its last write:   *)
(* every repository call commits on its own.  An operation in progress is  *)
(* therefore the list of statements it still has to execute, and the       *)
(* statements of chat turns, of the maintenance worker and of the operator *)
(* interleave.  A crash of the process forgets the lists.                  *)
(***************************************************************************)
EXTENDS Integers, Sequences, FiniteSets, SequencesExt

CONSTANTS
    MaxMemories,    \* bound: memories ever stored
    Contents,       \* normalized texts
    NoKey,          \* no canonical fact is extracted from the text
    KeyOf,          \* Contents -> fact key (entity and predicate) or NoKey
    Fixtures,       \* texts of records that carry the whole fixture contract
    Commands,       \* kinds of command the turns give
    Turns,          \* chat turns that may call the memory commands
    Worker,         \* the maintenance worker
    Operator,       \* the operator of the provenance routes
    MaxProposals,   \* bound: proposals ever created
    MaxOps,         \* bound: operations begun
    MaxBusy,        \* bound: operations in progress together
    MaxCrashes      \* bound: crashes of the process

ASSUME BoundsAssumption ==
    {MaxMemories, MaxProposals, MaxOps, MaxBusy, MaxCrashes} \subseteq Nat
ASSUME CallersAssumption == Worker # Operator /\ {Worker, Operator} \cap Turns = {}
ASSUME FixturesAssumption == Fixtures \subseteq Contents

Ids == 1..MaxMemories          \* in order of created_at
Nobody == 0                    \* no memory, no proposal
Callers == Turns \cup {Worker, Operator}
Props == 1..MaxProposals

VARIABLES
    mem,       \* stored memories: a sequence of rows, indexed by id
    facts,     \* statuses of the fact rows of each memory
    node,      \* status of each memory's graph node
    prop,      \* proposals: a sequence of rows
    op,        \* what every caller is doing
    reviewed,  \* the candidate digest of the last provenance dry run
    begun,     \* operations begun
    crashes,   \* crashes so far
    mixed      \* history: memories of overlapping or interrupted operations, and
               \* those whose link such an operation overwrote

vars == <<mem, facts, node, prop, op, reviewed, begun, crashes, mixed>>
store == <<mem, facts, node, prop>>

Stored == 1..Len(mem)
Active == {m \in Stored : mem[m].status = "active"}
Extracts(m) == KeyOf[mem[m].content] # NoKey     \* extract_memory_facts
HasActiveFact(m) == \E i \in DOMAIN facts[m] : facts[m][i] = "active"

(***************************************************************************)
(* Operations in progress                                                  *)
(***************************************************************************)
Idle == [kind |-> "idle", todo |-> <<>>, mine |-> {}, calm |-> FALSE]
Busy == {c \in Callers : op[c].kind # "idle"}
Free(c) == c \notin Busy /\ begun < MaxOps /\ Cardinality(Busy) < MaxBusy
May(c, kind) == Free(c) /\ (c \in Turns => kind \in Commands)

\* A statement: what it does, the memories m and n it names, and what its
\* caller computed before: a text, a proposal, a status, a set of memories.
Do(what, m, n) == [do |-> what, m |-> m, n |-> n, c |-> NoKey, p |-> Nobody,
                   status |-> "active", set |-> {}]
Ensure(m) == Do("ensure", m, Nobody)
Sync(m) == Do("sync", m, Nobody)
Retire(m, by) == Do("retire", m, by)
StoreText(c, p, known) ==
    [Do("store", Nobody, Nobody) EXCEPT !.c = c, !.p = p, !.set = known]
ForProposal(what, p) == [Do(what, Nobody, Nobody) EXCEPT !.p = p]

\* A query ordered by created_at, ascending or descending.
Oldest(S) == CHOOSE s \in SetToSeqs(S) : \A i, j \in DOMAIN s : i < j => s[i] < s[j]
Newest(S) == Reverse(Oldest(S))

Overlapping(c, mine) ==
    {m \in mine : \E d \in Busy \ {c} : m \in op[d].mine}

(* Caller c begins an operation on the memories mine.                      *)
Begin(c, kind, mine, todo) ==
    /\ op' = [d \in Callers |->
                IF d = c
                  THEN [kind |-> kind, todo |-> todo, mine |-> mine, calm |-> Busy = {}]
                  ELSE [op[d] EXCEPT !.calm = FALSE]]
    /\ begun' = begun + 1
    /\ mixed' = mixed \cup Overlapping(c, mine)
    /\ UNCHANGED <<reviewed, crashes>>

(* The statement c executes next, and the list it leaves behind.           *)
At(c, what) == op[c].todo # <<>> /\ Head(op[c].todo).do = what
Current(c) == Head(op[c].todo)
ContinueMixing(c, mine, rest, others) ==
    /\ op' = [op EXCEPT ![c] = IF rest = <<>> THEN Idle
                               ELSE [@ EXCEPT !.todo = rest, !.mine = mine]]
    /\ mixed' = mixed \cup Overlapping(c, mine) \cup others
    /\ UNCHANGED <<reviewed, begun, crashes>>
Continue(c, mine, rest) == ContinueMixing(c, mine, rest, {})
Step(c) == Continue(c, op[c].mine, Tail(op[c].todo))

(***************************************************************************)
(* handle_memory_write                                                     *)
(***************************************************************************)
SameTextFaultUnlinked(c) == {m \in Active : mem[m].content = c /\ mem[m].by = Nobody}
SameTextFaultTurnsOnly(c) == {m \in Active : mem[m].content = c /\ mem[m].maker = Nobody}
SameText(c) == {m \in Active : mem[m].content = c}     \* _find_duplicate

Write(t, c) ==
    /\ May(t, "write")
    /\ SameText(c) = {}
    /\ Begin(t, "write", {}, <<StoreText(c, Nobody, Stored)>>)
    /\ UNCHANGED store

(* add_memory commits the row; facts and derived artifacts follow.  The    *)
(* history field seen holds the memories that existed when the caller      *)
(* looked for a duplicate.                                                 *)
NewMemory(c, p, seen) ==
    [content |-> c, status |-> "active", by |-> Nobody, over |-> {},
     maker |-> p, seen |-> seen]

StoreMemory(c) ==
    LET s == Current(c)
        m == Len(mem) + 1 IN
    /\ At(c, "store")
    /\ m \in Ids
    /\ mem' = Append(mem, NewMemory(s.c, s.p, s.set))
    /\ Continue(c, op[c].mine \cup {m}, <<Ensure(m), Sync(m)>> \o Tail(op[c].todo))
    /\ UNCHANGED <<facts, node, prop>>

(* _ensure_memory_facts looks for the row, then inserts one that carries   *)
(* the status the memory had when it looked.                               *)
LookForFact(c) ==
    LET m == Current(c).m
        insert == [Do("insert", m, Nobody) EXCEPT !.status = mem[m].status] IN
    /\ At(c, "ensure")
    /\ Continue(c, op[c].mine,
                IF Extracts(m) /\ facts[m] = <<>>
                  THEN <<insert>> \o Tail(op[c].todo) ELSE Tail(op[c].todo))
    /\ UNCHANGED store

InsertFact(c) ==
    LET m == Current(c).m IN
    /\ At(c, "insert")
    /\ facts' = [facts EXCEPT ![m] = Append(@, Current(c).status)]
    /\ Step(c)
    /\ UNCHANGED <<mem, node, prop>>

(* sync_memory_retrieval_artifacts for one memory: its own node takes its  *)
(* status; the nodes of the memories its lifecycle names become            *)
(* "referenced", whatever they were.                                       *)
Linked(m) == mem[m].over \cup ({mem[m].by} \ {Nobody})
SyncedFaultAlwaysActive(m) == [k \in Ids |-> IF k \in Linked(m) THEN "referenced"
                                            ELSE IF k = m THEN "active" ELSE node[k]]
Synced(m) == [k \in Ids |-> IF k \in Linked(m) THEN "referenced"
                            ELSE IF k = m THEN mem[m].status ELSE node[k]]

SyncMemory(c) ==
    /\ At(c, "sync")
    /\ node' = Synced(Current(c).m)
    /\ Step(c)
    /\ UNCHANGED <<mem, facts, prop>>

(***************************************************************************)
(* handle_memory_deprecate, handle_memory_supersede                        *)
(***************************************************************************)
(* The first commit: the status and the lifecycle metadata of the memory   *)
(* that leaves.                                                            *)
LifecycleFaultStatus(m, by, status) ==
    [mem EXCEPT ![m].status = IF by = Nobody THEN status ELSE "superseded", ![m].by = by]
Lifecycle(m, by, status) == [mem EXCEPT ![m].status = status, ![m].by = by]
Deprecation(m, by) ==
    IF by = Nobody THEN <<Ensure(m), Retire(m, by), Sync(m)>>
    ELSE <<Do("link", by, m), Ensure(m), Ensure(by), Retire(m, by), Sync(m), Sync(by)>>

Deprecate(t, m, by) ==
    /\ May(t, "deprecate")
    /\ m \in Stored
    /\ by \in (Stored \cup {Nobody}) \ {m}
    /\ mem' = Lifecycle(m, by, "deprecated")
    /\ Begin(t, "deprecate", {m, by} \ {Nobody}, Deprecation(m, by))
    /\ UNCHANGED <<facts, node, prop>>

(* The metadata of the new memory is computed before the first commit; it  *)
(* overwrites whatever the row holds by then.                              *)
Relink(old, new) == [Do("relink", new, mem[new].by) EXCEPT !.set = mem[new].over \cup {old}]
Supersession(old, new, deprecateOld) ==
    IF deprecateOld
      THEN <<Relink(old, new), Ensure(old), Ensure(new), Retire(old, new), Sync(old), Sync(new)>>
      ELSE <<Relink(old, new), Ensure(old), Ensure(new), Sync(old), Sync(new)>>

SupersedeFaultRevives(t, old, new, deprecateOld) ==
    /\ May(t, "supersede")
    /\ old \in Stored /\ new \in Stored \ {old}
    /\ mem' = Lifecycle(old, new,
                        IF deprecateOld THEN "deprecated" ELSE "active")
    /\ Begin(t, "supersede", {old, new}, Supersession(old, new, deprecateOld))
    /\ UNCHANGED <<facts, node, prop>>

(* Without deprecate_old the old memory keeps its status.                  *)
Supersede(t, old, new, deprecateOld) ==
    /\ May(t, "supersede")
    /\ old \in Stored /\ new \in Stored \ {old}
    /\ mem' = Lifecycle(old, new,
                        IF deprecateOld THEN "deprecated" ELSE mem[old].status)
    /\ Begin(t, "supersede", {old, new}, Supersession(old, new, deprecateOld))
    /\ UNCHANGED <<facts, node, prop>>

\* The links that went in between and that a relink overwrites.
Dropped(s) == IF s.do = "relink" THEN mem[s.m].over \ s.set ELSE {}

LinkReplacementFaultDropped(c) ==
    LET s == Current(c) IN
    /\ \/ /\ At(c, "link")
          /\ mem' = [mem EXCEPT ![s.m].over = @ \cup {s.n}]
       \/ /\ At(c, "relink")
          /\ mem' = [mem EXCEPT ![s.m].by = s.n]
    /\ ContinueMixing(c, op[c].mine, Tail(op[c].todo), Dropped(s))
    /\ UNCHANGED <<facts, node, prop>>

(* _append_supersedes on the replacement.                                  *)
LinkReplacement(c) ==
    LET s == Current(c) IN
    /\ \/ /\ At(c, "link")
          /\ mem' = [mem EXCEPT ![s.m].over = @ \cup {s.n}]
       \/ /\ At(c, "relink")
          /\ mem' = [mem EXCEPT ![s.m].over = s.set, ![s.m].by = s.n]
    /\ ContinueMixing(c, op[c].mine, Tail(op[c].todo), Dropped(s))
    /\ UNCHANGED <<facts, node, prop>>

RetireFactsFaultSuccessor(c) ==
    LET m == Current(c).m IN
    /\ At(c, "retire")
    /\ facts' = IF mem[m].by = Nobody THEN facts ELSE [facts EXCEPT ![m] = [i \in DOMAIN @ |-> "deprecated"]]
    /\ Step(c)
    /\ UNCHANGED <<mem, node, prop>>

(* update_memory_facts_status: every fact row of the memory.               *)
RetireFacts(c) ==
    LET m == Current(c).m IN
    /\ At(c, "retire")
    /\ facts' = [facts EXCEPT ![m] = [i \in DOMAIN @ |-> "deprecated"]]
    /\ Step(c)
    /\ UNCHANGED <<mem, node, prop>>

(***************************************************************************)
(* handle_memory_facts_backfill, handle_memory_graph, handle_memory_search *)
(***************************************************************************)
Each(what, ms) == [i \in DOMAIN ms |-> Do(what, ms[i], Nobody)]

Backfill(t, ms) ==
    /\ May(t, "backfill")
    /\ ms # {}
    /\ Begin(t, "backfill", ms,
             Each("ensure", Newest(ms)) \o Each("restore", Newest(ms))
             \o Each("sync", Newest(ms)))
    /\ UNCHANGED store

RestoreLifecycleFaultLinked(c) ==
    LET m == Current(c).m IN
    /\ At(c, "restore")
    /\ facts' = IF mem[m].by = Nobody \/ m \notin mem[mem[m].by].over THEN facts
                ELSE [facts EXCEPT ![m] = [i \in DOMAIN @ |-> "deprecated"]]
    /\ Step(c)
    /\ UNCHANGED <<mem, node, prop>>

(* _sync_fact_lifecycle_from_memory_metadata: the facts of a memory that   *)
(* names a successor become deprecated, whatever the memory's status.      *)
RestoreLifecycle(c) ==
    LET m == Current(c).m IN
    /\ At(c, "restore")
    /\ facts' = IF mem[m].by = Nobody THEN facts
                ELSE [facts EXCEPT ![m] = [i \in DOMAIN @ |-> "deprecated"]]
    /\ Step(c)
    /\ UNCHANGED <<mem, node, prop>>

Explore(t, m) ==
    /\ May(t, "graph")
    /\ m \in Stored
    /\ Begin(t, "graph", {m}, <<Sync(m)>>)
    /\ UNCHANGED store

Search(t) ==
    /\ May(t, "search")
    /\ Active # {}
    /\ Begin(t, "search", Active, Each("sync", Newest(Active)))
    /\ UNCHANGED store

(***************************************************************************)
(* run_memory_review: candidates become proposals, proposals are settled   *)
(***************************************************************************)
(* _proposal_decision_for_request.  The write policy accepts everything;   *)
(* similar stands for the ranking of the sparse and lexical search.        *)
ConflictingFact(c) ==
    \E m \in Active : /\ HasActiveFact(m)
                      /\ KeyOf[c] # NoKey
                      /\ KeyOf[mem[m].content] = KeyOf[c]
                      /\ mem[m].content # c
Preflight(c, similar) ==
    IF SameText(c) # {} THEN "noop_duplicate"
    ELSE IF ConflictingFact(c) THEN "needs_review"
    ELSE IF similar THEN "review_similar"
    ELSE "create_new"

Candidate(what, c) == [Do(what, Nobody, Nobody) EXCEPT !.c = c]

Review(candidates) ==
    /\ Free(Worker)
    /\ Len(candidates) \in 1..(MaxProposals - Len(prop))
    /\ Begin(Worker, "review", {},
             [i \in DOMAIN candidates |->
                Candidate("check", candidates[i])])
    /\ UNCHANGED store

NewProposal(c, action, evidence) ==
    [content |-> c, action |-> action, evidence |-> evidence, status |-> "pending",
     seen |-> Stored, known |-> {m \in Active : HasActiveFact(m)}]

(* _memory_request_from_review_candidate; the preflight of a valid         *)
(* candidate first brings the search documents of active memories up to    *)
(* date.                                                                   *)
CheckCandidate ==
    LET c == Current(Worker).c
        rest == Tail(op[Worker].todo) IN
    /\ At(Worker, "check")
    /\ \/ Continue(Worker, {}, Each("sync", Newest(Active))
                               \o <<Candidate("propose", c)>> \o rest)
       \/ Continue(Worker, {}, <<Candidate("invalid", c)>> \o rest)
    /\ UNCHANGED store

(* create_memory_proposal_from_review_candidate; a candidate that fails    *)
(* validation becomes a needs_review proposal.  Evidence counts only for   *)
(* create_new.                                                             *)
Insert(c, action, evidence) ==
    LET p == Len(prop) + 1 IN
    /\ p \in Props
    /\ prop' = Append(prop, NewProposal(c, action, evidence))
    /\ Continue(Worker, {}, Append(Tail(op[Worker].todo), ForProposal("settle", p)))
    /\ UNCHANGED <<mem, facts, node>>

Propose ==
    LET c == Current(Worker).c IN
    \/ /\ At(Worker, "propose")
       /\ \E similar, evidence \in BOOLEAN :
            /\ similar => Active # {}
            /\ evidence => Preflight(c, similar) = "create_new"
            /\ Insert(c, Preflight(c, similar), evidence)
    \/ At(Worker, "invalid") /\ Insert(c, "needs_review", FALSE)

(* apply_create_memory_proposal: five commits, the proposal's last.        *)
ApplyFaultStatusFirst(p) ==
    <<ForProposal("applied_create", p), StoreText(prop[p].content, p, prop[p].seen)>>
ApplyFaultUnsettled(p) == <<StoreText(prop[p].content, p, prop[p].seen)>>
Apply(p) == <<StoreText(prop[p].content, p, prop[p].seen), ForProposal("applied_create", p)>>
SafeAutoCreate(p) == prop[p].action = "create_new" /\ prop[p].evidence
LLMCanApplyCreateFault(p) == prop[p].action # "noop_duplicate"
LLMCanApplyCreate(p) == prop[p].action = "create_new"

SettleFaultFallsThrough ==
    LET p == Current(Worker).p
        rest == Tail(op[Worker].todo) IN
    /\ At(Worker, "settle")
    /\ IF prop[p].action = "noop_duplicate"
         THEN /\ prop' = [prop EXCEPT ![p].status = "archived_noop_duplicate"]
              /\ Step(Worker)
         ELSE /\ Continue(Worker, op[Worker].mine,
                          IF SafeAutoCreate(p) THEN Append(Apply(p) \o rest, ForProposal("decide", p))
                          ELSE Append(rest, ForProposal("decide", p)))
              /\ UNCHANGED prop
    /\ UNCHANGED <<mem, facts, node>>

(* The first loop of _resolve_memory_review_proposals.  What it cannot     *)
(* settle goes to the resolver, after all the others.                      *)
Settle ==
    LET p == Current(Worker).p
        rest == Tail(op[Worker].todo) IN
    /\ At(Worker, "settle")
    /\ IF prop[p].action = "noop_duplicate"
         THEN /\ prop' = [prop EXCEPT ![p].status = "archived_noop_duplicate"]
              /\ Step(Worker)
         ELSE /\ Continue(Worker, op[Worker].mine,
                          IF SafeAutoCreate(p) THEN Apply(p) \o rest
                          ELSE Append(rest, ForProposal("decide", p)))
              /\ UNCHANGED prop
    /\ UNCHANGED <<mem, facts, node>>

(* The resolver's answer for a proposal: one of its outcomes, or nothing   *)
(* (left out of the answer, or the whole call failed), which counts as     *)
(* keep_pending.                                                           *)
Outcomes == {"apply_create", "noop_duplicate", "reject", "keep_pending", "omitted"}
ArchivedFaultKept(outcome) ==
    CASE outcome = "noop_duplicate" -> "archived_noop_duplicate"
      [] outcome = "reject" -> "archived_rejected"
      [] OTHER -> "pending"
Archived(outcome) ==
    CASE outcome = "noop_duplicate" -> "archived_noop_duplicate"
      [] outcome = "reject" -> "archived_rejected"
      [] OTHER -> "pending_review"

(* The decisions are executed in the order of the answer.                  *)
Decide(i, outcome, confident) ==
    LET p == op[Worker].todo[i].p
        rest == RemoveAt(op[Worker].todo, i) IN
    /\ At(Worker, "decide")
    /\ IF outcome = "apply_create" /\ confident /\ LLMCanApplyCreate(p)
         THEN Continue(Worker, op[Worker].mine, Apply(p) \o rest) /\ UNCHANGED prop
         ELSE /\ prop' = [prop EXCEPT ![p].status = Archived(outcome)]
              /\ Continue(Worker, op[Worker].mine, rest)
    /\ UNCHANGED <<mem, facts, node>>

ResolveApplied ==
    /\ At(Worker, "applied_create")
    /\ prop' = [prop EXCEPT ![Current(Worker).p].status = "applied_create"]
    /\ Step(Worker)
    /\ UNCHANGED <<mem, facts, node>>

(***************************************************************************)
(* deprecate_explicit_test_fixtures                                        *)
(***************************************************************************)
FixtureCandidates == {m \in Active : mem[m].content \in Fixtures}

DryRun ==
    /\ Free(Operator)
    /\ FixtureCandidates # {}
    /\ reviewed' = FixtureCandidates
    /\ begun' = begun + 1
    /\ UNCHANGED <<store, op, crashes, mixed>>

(* _validate_mutation_guard: the candidates are those of the dry run.      *)
DeprecateFixtures ==
    /\ Free(Operator)
    /\ reviewed # {} /\ FixtureCandidates = reviewed
    /\ LET ms == Oldest(reviewed) IN
       Begin(Operator, "fixtures", reviewed,
             Each("fixture", ms) \o Each("sync", ms))
    /\ UNCHANGED store

(* One candidate.  A candidate that is no longer active ends the operation *)
(* with an error: the ones before it stay deprecated and are not synced.   *)
DeprecateFixture ==
    LET m == Current(Operator).m
        rest == Tail(op[Operator].todo) IN
    /\ At(Operator, "fixture")
    /\ IF m \in Active
         THEN /\ mem' = Lifecycle(m, Nobody, "deprecated")
              /\ Continue(Operator, op[Operator].mine, <<Retire(m, Nobody)>> \o rest)
         ELSE /\ op' = [op EXCEPT ![Operator] = Idle]
              /\ mixed' = mixed \cup op[Operator].mine
              /\ UNCHANGED <<mem, reviewed, begun, crashes>>
    /\ UNCHANGED <<facts, node, prop>>

(***************************************************************************)
(* The process dies: operations in progress are forgotten.                 *)
(***************************************************************************)
Crash ==
    /\ crashes < MaxCrashes
    /\ Busy # {}
    /\ crashes' = crashes + 1
    /\ op' = [c \in Callers |-> Idle]
    /\ mixed' = mixed \cup UNION {op[c].mine : c \in Busy}
    /\ UNCHANGED <<store, reviewed, begun>>

Init ==
    /\ mem = <<>> /\ prop = <<>>
    /\ facts = [m \in Ids |-> <<>>]
    /\ node = [m \in Ids |-> "none"]
    /\ op = [c \in Callers |-> Idle]
    /\ reviewed = {} /\ begun = 0 /\ crashes = 0 /\ mixed = {}

TurnBegins(t) ==
    \/ \E c \in Contents : Write(t, c)
    \/ \E m \in Ids : \E by \in Ids \cup {Nobody} : Deprecate(t, m, by)
    \/ \E old, new \in Ids, deprecateOld \in BOOLEAN : Supersede(t, old, new, deprecateOld)
    \/ \E m \in Stored : Backfill(t, {m})
    \/ Backfill(t, Stored)
    \/ \E m \in Ids : Explore(t, m)
    \/ Search(t)

Proceed(c) ==
    \/ StoreMemory(c) \/ LookForFact(c) \/ InsertFact(c) \/ SyncMemory(c)
    \/ LinkReplacement(c) \/ RetireFacts(c) \/ RestoreLifecycle(c)

Resolver == \E i \in DOMAIN op[Worker].todo, outcome \in Outcomes,
               confident \in BOOLEAN : Decide(i, outcome, confident)
WorkerProceeds == Proceed(Worker) \/ CheckCandidate \/ Propose \/ Settle \/ Resolver \/ ResolveApplied

Next ==
    \/ \E t \in Turns : TurnBegins(t) \/ Proceed(t)
    \/ \E cs \in SeqOf(Contents, 2) : Review(cs)
    \/ WorkerProceeds
    \/ DryRun \/ DeprecateFixtures \/ DeprecateFixture \/ Proceed(Operator)
    \/ Crash

Spec == Init /\ [][Next]_vars
FairSpec ==
    /\ Spec
    /\ WF_vars(WorkerProceeds)
    /\ WF_vars(DeprecateFixture \/ Proceed(Operator))
    /\ \A t \in Turns : WF_vars(Proceed(t))

(***************************************************************************)
(* Properties                                                              *)
(***************************************************************************)
Statuses == {"active", "deprecated"}
TypeOK ==
    /\ mem \in Seq([content : Contents, status : Statuses, by : Ids \cup {Nobody},
                    over : SUBSET Ids, maker : Props \cup {Nobody},
                    seen : SUBSET Ids])
    /\ Len(mem) \in 0..MaxMemories
    /\ facts \in [Ids -> Seq(Statuses)]
    /\ node \in [Ids -> Statuses \cup {"none", "referenced"}]
    /\ prop \in Seq([content : Contents, evidence : BOOLEAN,
                     action : {"create_new", "noop_duplicate", "needs_review",
                               "review_similar"},
                     status : {"pending", "pending_review", "applied_create",
                               "archived_noop_duplicate", "archived_rejected"},
                     seen : SUBSET Ids, known : SUBSET Ids])
    /\ \A c \in Callers : op[c].mine \subseteq Stored
    /\ reviewed \subseteq Stored /\ mixed \subseteq Stored

\* Memories no operation in progress works on, and none ever shared.
InUse == UNION {op[c].mine : c \in Busy}
Quiet == (Stored \ InUse) \ mixed

(* The canonical facts agree with their memory once the operations on it   *)
(* are over: a deprecated memory leaves no active fact for the conflict    *)
(* and preflight queries to find, an active memory that names no successor *)
(* has its one fact and no deprecated one, whatever sequence of            *)
(* deprecations, supersessions, backfills and fixture sweeps it went       *)
(* through.                                                                *)
FactsFollowMemory ==
    \A m \in Quiet :
        /\ mem[m].status = "deprecated" => ~HasActiveFact(m)
        /\ mem[m].status = "active" /\ mem[m].by = Nobody =>
              /\ \A i \in DOMAIN facts[m] : facts[m][i] = "active"
              /\ facts[m] # <<>> <=> Extracts(m)

(* The two halves of a supersession, written by different commits on       *)
(* different rows, name each other.                                        *)
LinksAgree ==
    \A m \in Quiet : mem[m].by \in Quiet => m \in mem[mem[m].by].over

(* The graph node that neighborhoods are built from never shows as active  *)
(* a memory that is not, and is hidden behind "referenced" only when a     *)
(* lifecycle link leads to the memory or from it.                          *)
NodeFollowsMemory ==
    \A m \in Quiet :
        /\ node[m] # "none"
        /\ node[m] \in Statuses => node[m] = mem[m].status
        /\ node[m] = "referenced" =>
              Linked(m) # {} \/ \E k \in Stored : m \in Linked(k)

(* Two active memories of one normalized text exist only when the second   *)
(* was stored on a duplicate check made before the first existed: by an    *)
(* overlapping write, or by a proposal whose preflight was older.          *)
TwinsOnlyFromStaleChecks ==
    \A m, n \in Active :
        m < n /\ mem[m].content = mem[n].content => m \notin mem[n].seen

(* A memory the maintenance applied on its own contradicts no active fact  *)
(* its preflight could see, and repeats no memory that existed then.       *)
NothingAppliedUnseen ==
    \A m \in Active : mem[m].maker # Nobody =>
        \A k \in prop[mem[m].maker].known \cap Active :
            /\ mem[k].content # mem[m].content
            /\ KeyOf[mem[k].content] = KeyOf[mem[m].content] =>
                  KeyOf[mem[k].content] = NoKey

(* A proposal makes at most one memory, exactly one when it counts as      *)
(* applied, and none when it was archived or left for a person.            *)
MadeBy(p) == {m \in Stored : mem[m].maker = p}
ProposalOnce ==
    \A p \in DOMAIN prop :
        /\ Cardinality(MadeBy(p)) <= 1
        /\ prop[p].status = "applied_create" => MadeBy(p) # {}
        /\ MadeBy(p) # {} => prop[p].status \in {"pending", "applied_create"}

(* Only a crash between the commits of an application leaves a memory      *)
(* whose proposal still reads pending.                                     *)
HalfAppliedOnlyByCrash ==
    Busy = {} /\ crashes = 0 =>
        \A m \in Stored : mem[m].maker # Nobody =>
            prop[mem[m].maker].status = "applied_create"

(* A deprecated memory never becomes active again, and a settled proposal  *)
(* keeps its outcome.                                                      *)
DeprecatedIsFinal ==
    [][\A m \in Stored : mem[m].status = "deprecated" =>
                             mem'[m].status = "deprecated"]_vars
ResolvedIsFinal ==
    [][\A p \in DOMAIN prop : prop[p].status # "pending" =>
                                  prop'[p].status = prop[p].status]_vars

(* facts.backfill repairs what an interrupted or overlapping supersession  *)
(* left behind: when it ends without having met another operation, no      *)
(* memory it checked that names a successor has an active fact.            *)
BackfillHeals ==
    [][\A t \in Turns :
         op[t].kind = "backfill" /\ op[t].calm /\ op'[t].kind = "idle"
           /\ crashes' = crashes =>
             \A m \in op[t].mine : mem[m].by # Nobody => ~HasActiveFact(m)]_vars

(* Every proposal leaves the pending state unless the process dies or the  *)
(* bound on memories stops the worker.                                     *)
Pending(p) == p \in DOMAIN prop /\ prop[p].status = "pending"
ProposalsSettle ==
    \A p \in Props :
        Pending(p) ~> (~Pending(p) \/ crashes > 0 \/ Len(mem) = MaxMemories)

\* The rows of several tables that speak of one memory agree with it and with one
\* another, where no other operation or crash came between their commits.
MemoryRowsAgree ==
    /\ TypeOK /\ FactsFollowMemory /\ LinksAgree /\ NodeFollowsMemory
    /\ TwinsOnlyFromStaleChecks

\* What the review applies is new to all it could see, and applied once.
ReviewedOnce ==
    /\ TwinsOnlyFromStaleChecks /\ NothingAppliedUnseen
    /\ ProposalOnce /\ HalfAppliedOnlyByCrash

\* What no command does to the memories.
MemorySteps == DeprecatedIsFinal /\ BackfillHeals

\* Proposals settle, and for good.
ProposalsSettleOnce == ResolvedIsFinal /\ ProposalsSettle

=============================================================================
