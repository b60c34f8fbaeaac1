---------------------------- MODULE MemoryRecall ----------------------------
(***************************************************************************)
(* The automatic memory recall of a turn (mind/context_retrieval.py): four *)
(* routes find memories, the dense one by an embedding service            *)
(* (mind/shadow_retrieval.py); they are interleaved into one pool, and a   *)
(* reranking service alone accepts and orders what the model is shown      *)
(* (mind/relevance_rerank.py).  Both services may fail, and memories may   *)
(* be deprecated while they are awaited.  Scores are whole numbers.        *)
(***************************************************************************)
EXTENDS Integers, Sequences, FiniteSets, SequencesExt, FiniteSetsExt

CONSTANTS
    Memories,       \* ids of the memories, newer ones larger
    FactsOf,        \* memory -> its active facts: [key, value], key an entity and predicate
    Surfaces,       \* its derived texts: sequence of [memory, promotable]
    SurfaceLimit,   \* surfaces sent to the embedding service
    SparseRoutes, GraphRoutes, \* what the full-text and the graph search may return
    PoolLimit,      \* retrieval_shadow_rerank_candidate_limit
    TopN,           \* retrieval_shadow_rerank_top_n
    SelectedLimit,  \* MODEL_SELECTED_LIMIT
    BaseChoices,    \* what the lexical ranking may say of the memories
    RerankScores,   \* scores the reranking service may give
    MinimumScore, RelativeFloor, \* acceptance threshold, and its part in percent
    Modes,          \* retrieval_hybrid_mode and whether it is fully configured
    MaxRecalls, MaxDeprecations

ASSUME RecallAssumption ==
    /\ Memories \subseteq Nat /\ SurfaceLimit \in Nat /\ PoolLimit \in Nat \ {0}
    /\ TopN \in Nat \ {0} /\ SelectedLimit \in Nat \ {0}
    /\ \A base \in BaseChoices : \A m \in Memories : base[m].score > 0

VARIABLES
    mode,          \* [hybrid, configured], fixed for the process
    active,        \* memories that are not deprecated
    recall,        \* the recall under way
    answer,        \* what the last recall gave the turn
    recalls, deprecations

recallVars == <<mode, active, recall, answer, recalls, deprecations>>

-----------------------------------------------------------------------------
(* The dense route *)

Seqs(S) == UNION {SetToSeqs(T) : T \in SUBSET S}
MaxOr0(S) == IF S = {} THEN 0 ELSE Max(S)
Upto(s, n) == SubSeq(s, 1, Min({Len(s), n}))
\* The first difference of two sort keys decides.
Above(a, b) == \E i \in 1..Len(a) : a[i] > b[i] /\ \A j \in 1..(i - 1) : a[j] = b[j]

\* Surfaces of the candidates that fit into the request.
Sent(candidates) ==
    {i \in 1..Len(Surfaces) : i <= SurfaceLimit /\ Surfaces[i].memory \in candidates}

\* A bug: any surface above zero makes its memory eligible.
BestFaultSupport(score, m, promotable) ==
    MaxOr0({score[i] : i \in {j \in DOMAIN score : Surfaces[j].memory = m}})

\* The best positive score among the surfaces of one role of a memory.
Best(score, m, promotable) ==
    MaxOr0({score[i] : i \in {j \in DOMAIN score :
              Surfaces[j].memory = m /\ Surfaces[j].promotable = promotable
              /\ score[j] > 0}})

\* _group_scored_surfaces: eligible memories by their best promotable score,
\* then their best support, then their id.
DenseRoute(score) ==
    LET found == {Surfaces[i].memory : i \in DOMAIN score}
        eligible == {m \in found : Best(score, m, TRUE) > 0}
        Key(m) == <<Best(score, m, TRUE), Best(score, m, FALSE), m>> IN
    Upto(SetToSortSeq(eligible, LAMBDA m, n : Above(Key(m), Key(n))), PoolLimit)

-----------------------------------------------------------------------------
(* The recall pool *)

Routes == <<"sparse", "dense", "graph", "lexical">>

\* A bug: the routes are put one after the other.
InterleavedFaultChained(routes, depth) ==
    routes["sparse"] \o routes["dense"] \o routes["graph"] \o routes["lexical"]

\* The routes one place after the other, depth by depth.
Interleaved(routes, depth) ==
    FlattenSeq([d \in 1..depth |->
        FlattenSeq([r \in 1..Len(Routes) |->
            IF d <= Len(routes[Routes[r]]) THEN <<routes[Routes[r]][d]>> ELSE <<>>])])

\* build_memory_recall_pool: each memory where it comes first, up to the limit.
Firsts(s) ==
    LET at == {i \in 1..Len(s) : \A j \in 1..(i - 1) : s[j] # s[i]} IN
    [k \in 1..Cardinality(at) |-> s[SetToSortSeq(at, <)[k]]]
Pool(routes) == Upto(Firsts(Interleaved(routes, Cardinality(Memories))), PoolLimit)

-----------------------------------------------------------------------------
(* The final arbiter *)

Unevaluated(m) == [memory |-> m, score |-> 0, rank |-> 0, evaluated |-> FALSE,
                   accepted |-> FALSE]

\* The acceptance threshold: the minimum, and a part of the best score.
Accepts(score, best) == score >= MinimumScore /\ 100 * score >= RelativeFloor * best

\* An answer of the service ranks some of the documents, each with a score.
Answers(pool) ==
    {a \in UNION {[1..n -> [index : 1..Len(pool), score : RerankScores]] :
                    n \in 0..Min({Len(pool), Max({TopN, SelectedLimit})})} :
        \A i, j \in DOMAIN a : i < j => a[i].index # a[j].index /\ a[i].score >= a[j].score}

Entries(pool, reply) ==
    LET best == MaxOr0({reply[i].score : i \in DOMAIN reply})
        RankOf(k) == {i \in DOMAIN reply : reply[i].index = k} IN
    [k \in 1..Len(pool) |->
        IF RankOf(k) = {} THEN Unevaluated(pool[k])
        ELSE LET i == CHOOSE i \in RankOf(k) : TRUE IN
             [memory |-> pool[k], score |-> reply[i].score, rank |-> i, evaluated |-> TRUE,
              accepted |-> Accepts(reply[i].score, best)]]

\* A bug: the entries are sorted the other way round, but for those accepted.
OrderedFaultAscending(entries) ==
    LET Bit(b) == IF b THEN 1 ELSE 0
        Key(e) == <<Bit(e.accepted), Bit(e.evaluated), -e.score, -e.rank>> IN
    SortSeq(entries, LAMBDA e, f : Above(Key(e), Key(f)))

\* Accepted before evaluated before the rest, then by score, then by rank.
Ordered(entries) ==
    LET Bit(b) == IF b THEN 1 ELSE 0
        Key(e) == <<Bit(e.accepted), Bit(e.evaluated), e.score, -e.rank>> IN
    SortSeq(entries, LAMBDA e, f : Above(Key(e), Key(f)))

-----------------------------------------------------------------------------
(* Classification *)

\* What the arbiter leaves of a memory.
ArbiterClass(e) ==
    IF e.accepted THEN "selected" ELSE IF e.evaluated THEN "near_miss" ELSE "excluded"

\* Without the arbiter: an associative user context pushes unsupported project
\* memories out, and a strong signal selects.
LexicalClass(base, m) ==
    LET context == \E n \in ToSet(recall.lexical) : base[n].user /\ base[n].graph >= 2
        kept == IF base[m].score >= 2 THEN "near_miss" ELSE "excluded" IN
    IF context /\ base[m].graph = 0 /\ ~base[m].user THEN kept
    ELSE IF base[m].strong THEN "selected" ELSE kept

\* A bug: a key needs three memories to be in conflict.
ConflictsFaultThree(shown) ==
    LET Holders(k) == {m \in shown : \E f \in FactsOf[m] : f.key = k}
        Values(k) == {f.value : f \in {g \in UNION {FactsOf[m] : m \in shown} : g.key = k}} IN
    {Holders(k) : k \in {f.key : f \in {g \in UNION {FactsOf[m] : m \in shown} :
        Cardinality(Holders(g.key)) > 2 /\ Cardinality(Values(g.key)) > 1}}}

\* _detect_conflicts: the memories shown that hold facts of one key, when they
\* are several and so are the values.
Conflicts(shown) ==
    LET Holders(k) == {m \in shown : \E f \in FactsOf[m] : f.key = k}
        Values(k) == {f.value : f \in {g \in UNION {FactsOf[m] : m \in shown} : g.key = k}} IN
    {Holders(k) : k \in {f.key : f \in {g \in UNION {FactsOf[m] : m \in shown} :
        Cardinality(Holders(g.key)) > 1 /\ Cardinality(Values(g.key)) > 1}}}

-----------------------------------------------------------------------------
(* The recall of one turn *)

NoRecall == [at |-> "idle"]

\* The candidates are read, and the routes that need no service.
StartRecall ==
    /\ recall.at = "idle" /\ recalls < MaxRecalls
    /\ recalls' = recalls + 1
    /\ \E sparse \in SparseRoutes, graph \in GraphRoutes, base \in BaseChoices :
         \E lexical \in {s \in Seqs(active) : ToSet(sparse) \cup ToSet(graph) \subseteq ToSet(s)} :
             /\ ToSet(sparse) \cup ToSet(graph) \subseteq active
             /\ \A i, j \in 1..Len(lexical) :
                  i < j => base[lexical[i]].score >= base[lexical[j]].score
             /\ recall' = [at |-> "embed", candidates |-> active, base |-> base,
                           sparse |-> sparse, graph |-> graph, lexical |-> lexical]
    /\ UNCHANGED <<mode, active, answer, deprecations>>

Pooled(dense) ==
    [at |-> "rerank", candidates |-> recall.candidates, base |-> recall.base,
     lexical |-> recall.lexical,
     routes |-> [sparse |-> recall.sparse, dense |-> dense, graph |-> recall.graph,
                 lexical |-> recall.lexical]]

\* The embedding service answers; a surface without a vector has no score.
Embedded ==
    /\ recall.at = "embed" /\ mode.configured
    /\ \E got \in SUBSET Sent(recall.candidates) : \E score \in [got -> -1..2] :
         recall' = Pooled(DenseRoute(score))
    /\ UNCHANGED <<mode, active, answer, recalls, deprecations>>

\* It fails, or dense retrieval is not configured: the route is empty.
NotEmbedded ==
    /\ recall.at = "embed"
    /\ recall' = Pooled(<<>>)
    /\ UNCHANGED <<mode, active, answer, recalls, deprecations>>

\* A bug: when the arbiter cannot be asked the lexical ranking decides.
DecidesFaultOpen(entries) ==
    mode.hybrid = "active" /\ \E k \in 1..Len(entries) : entries[k].evaluated

\* Active hybrid mode fails closed: the lexical ranking never decides in it.
Decides(entries) == mode.hybrid = "active"

Class(entries, m) ==
    IF Decides(entries)
    THEN ArbiterClass(entries[CHOOSE k \in 1..Len(entries) : entries[k].memory = m])
    ELSE LexicalClass(recall.base, m)

\* At most SelectedLimit of the selected are shown; the rest is in no list.
Shown(selected) == Upto(selected, SelectedLimit)

Deliver(entries, status) ==
    LET ranked == IF Decides(entries) THEN [k \in 1..Len(entries) |-> entries[k].memory]
                  ELSE recall.lexical
        Of(class) == SelectSeq(ranked, LAMBDA m : Class(entries, m) = class)
        shown == Shown(Of("selected")) IN
    /\ answer' = [status |-> status, pool |-> Pool(recall.routes), routes |-> recall.routes,
                  entries |-> entries, shown |-> shown, near_miss |-> Of("near_miss"),
                  candidates |-> recall.candidates, conflicts |-> Conflicts(ToSet(shown)),
                  evidence |-> IF shown # <<>> THEN "none"
                               ELSE IF mode.hybrid = "active" /\ status \notin
                                         {"completed", "no_candidates"}
                               THEN "final_rerank_unavailable"
                               ELSE "no_relevant_memory_selected"]
    /\ recall' = NoRecall
    /\ UNCHANGED <<mode, active, recalls, deprecations>>

\* The arbiter is off, has nothing to judge, is not configured, or fails.
Unjudged ==
    /\ recall.at = "rerank"
    /\ LET pool == Pool(recall.routes) IN
       IF mode.hybrid = "off" THEN Deliver(<<>>, "disabled")
       ELSE IF pool = <<>> THEN Deliver(<<>>, "no_candidates")
       ELSE Deliver([k \in 1..Len(pool) |-> Unevaluated(pool[k])],
                    IF mode.configured THEN "backend_error" ELSE "configuration_error")

Judged ==
    /\ recall.at = "rerank" /\ mode.hybrid # "off" /\ mode.configured
    /\ LET pool == Pool(recall.routes) IN
         /\ pool # <<>>
         /\ \E reply \in Answers(pool) : Deliver(Ordered(Entries(pool, reply)), "completed")

\* Another turn, or the maintenance, deprecates a memory.
DeprecateMeanwhile(m) ==
    /\ deprecations < MaxDeprecations
    /\ deprecations' = deprecations + 1
    /\ active' = active \ {m}
    /\ UNCHANGED <<mode, recall, answer, recalls>>

NoAnswer == [status |-> "none"]

RecallInit ==
    /\ mode \in Modes /\ active = Memories /\ recall = NoRecall /\ answer = NoAnswer
    /\ recalls = 0 /\ deprecations = 0

RecallNext ==
    \/ StartRecall \/ Embedded \/ NotEmbedded \/ Unjudged \/ Judged
    \/ \E m \in active : DeprecateMeanwhile(m)

RecallSpec == RecallInit /\ [][RecallNext]_recallVars

-----------------------------------------------------------------------------
(* Properties *)

Given == answer # NoAnswer
Depth(r, m) == {d \in 1..Len(answer.routes[r]) : answer.routes[r][d] = m}
InAnyRoute == UNION {ToSet(answer.routes[r]) : r \in ToSet(Routes)}

\* The pool repeats no memory, is full while a route has more, and starves no
\* route: what it left out stands nowhere higher than its last member
\* (build_memory_recall_pool, "interleave independent recall routes").
PoolIsFair ==
    Given =>
    LET pooled == ToSet(answer.pool)
        DepthOf(m) == Min(UNION {Depth(r, m) : r \in ToSet(Routes)}) IN
    /\ Len(answer.pool) = Cardinality(pooled)
    /\ Len(answer.pool) < PoolLimit => pooled = InAnyRoute
    /\ \A m \in InAnyRoute \ pooled, n \in pooled : DepthOf(n) <= DepthOf(m)

\* No memory comes by the dense route on the strength of its support surfaces
\* alone (active_rank_eligible).
DenseNeedsPromotable ==
    Given => \A m \in ToSet(answer.routes["dense"]) :
        \E i \in 1..Len(Surfaces) : Surfaces[i].memory = m /\ Surfaces[i].promotable

\* With hybrid retrieval active the model is shown only what the arbiter
\* accepted at or above the minimum; when it could not be asked, nothing, and
\* the context says so (status fail_closed).
ArbiterAlone ==
    Given /\ mode.hybrid = "active" =>
        /\ \A m \in ToSet(answer.shown) :
             \E k \in 1..Len(answer.entries) :
                 answer.entries[k].memory = m /\ answer.entries[k].score >= MinimumScore
        /\ answer.status \in {"backend_error", "configuration_error"} =>
             answer.shown = <<>> /\ answer.evidence = "final_rerank_unavailable"

\* No memory that was left out was scored above one that is shown.
BestAreShown ==
    Given /\ mode.hybrid = "active" =>
        \A k \in 1..Len(answer.entries) :
            LET e == answer.entries[k] IN
            e.memory \notin ToSet(answer.shown) /\ e.evaluated =>
                \A m \in ToSet(answer.shown) :
                    \E j \in 1..Len(answer.entries) :
                        answer.entries[j].memory = m /\ answer.entries[j].score >= e.score

\* Two shown memories whose facts contradict one another are named to the
\* model together, and it is told of nothing but contradictions (_detect_conflicts).
ContradictionsNamed ==
    LET Contradict(m, n) == \E f \in FactsOf[m], g \in FactsOf[n] :
                                f.key = g.key /\ f.value # g.value IN
    Given =>
        /\ \A m, n \in ToSet(answer.shown) :
             m # n /\ Contradict(m, n) => \E group \in answer.conflicts : {m, n} \subseteq group
        /\ \A group \in answer.conflicts : \E m, n \in group : m # n /\ Contradict(m, n)

\* What a recall shows was fairly proposed and judged, the best of it, and its
\* contradictions are named.
RecallIsJudged ==
    /\ PoolIsFair /\ DenseNeedsPromotable /\ ArbiterAlone /\ BestAreShown
    /\ ContradictionsNamed

=============================================================================
