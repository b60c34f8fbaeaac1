--------------------------- MODULE RetrievalIndex ---------------------------
(***************************************************************************)
(* The rows derived from memories (mind/search.py): full-text documents,   *)
(* compiled surfaces with their cached vectors, and the graph.  A command  *)
(* that changed a memory derives its rows again; so does every search, of  *)
(* all its candidates, before it expands the graph and asks a service for  *)
(* the vectors it misses.  Rows are committed one by one, so a search and  *)
(* a command interleave, and either may die between two commits.           *)
(*                                                                         *)
(* Every memory has one fact, and all facts are about one entity.  Of the  *)
(* surfaces, those are kept whose text can change: the memory's own text   *)
(* (its status), the temporal one (status and time of the last update) and *)
(* the bundle of its facts.  A text stands for its hash.                   *)
(***************************************************************************)
EXTENDS Naturals, Sequences, FiniteSets, SequencesExt

CONSTANTS
    Indexed,         \* the memories
    MaxIndexOps,     \* bound of changes and searches
    MaxIndexCrashes

VARIABLES
    stored,     \* memory -> [status, rev, fact], the rows of record
    doc,        \* memory -> its full-text document: [status, fact]
    rows,       \* surface key -> [text, status, vector]; vector <<>> or a text
    graph,      \* [memory |-> nodes, fact |-> nodes, entity |-> whose sync wrote the entity]
    vectors,    \* text -> the text its cached vector was computed from
    sync,       \* process -> the synchronization it is in
    search,     \* the search under way
    changes, searches, indexCrashes,
    leftBehind,    \* memories whose derived rows a crash or a late search left behind
    raced       \* surfaces whose text changed while a search awaited its vector

indexVars == <<stored, doc, rows, graph, vectors, sync, search, changes, searches,
               indexCrashes, leftBehind, raced>>

Processes == {"command", "search"}
Kinds == <<"text", "temporal", "bundle">>
SurfaceKeys == Indexed \X {"text", "temporal", "bundle"}
SyncIdle == [at |-> "idle"]
SearchIdle == [at |-> "idle"]

-----------------------------------------------------------------------------
(* What is derived from a memory *)

\* The text of a surface, with what it says of the memory; m's fact is `fact'.
Text(kind, m, value) ==
    CASE kind = "text"     -> <<m, kind, value.status>>
      [] kind = "temporal" -> <<m, kind, value.status, value.rev>>
      [] kind = "bundle"   -> <<m, kind, value.fact>>

\* No bundle is compiled when the caller's list of facts is empty.
Drafts(m, value, facts) ==
    [i \in 1..(IF facts THEN 3 ELSE 2) |->
       [key |-> <<m, Kinds[i]>>, text |-> Text(Kinds[i], m, value), status |-> value.status]]

DocumentOf(value, facts) ==
    [status |-> value.status, fact |-> IF facts THEN value.fact ELSE "none"]

\* embedding_status pending: no vector.
Pending == <<>>
NoRow == [text |-> <<>>, status |-> "none", vector |-> Pending]

\* A bug: a row that has its vector keeps the text it was computed from.
PutFaultKept(row, draft) ==
    [text |-> IF row.vector = Pending THEN draft.text ELSE row.text,
     status |-> draft.status, vector |-> row.vector]

\* A bug: the vector of the former text stays.
PutFaultVector(row, draft) ==
    [text |-> draft.text, status |-> draft.status, vector |-> row.vector]

\* A surface's row after upsert_memory_surface: a new text has no vector yet.
Put(row, draft) ==
    [text |-> draft.text, status |-> draft.status,
     vector |-> IF row.text = draft.text THEN row.vector ELSE Pending]

-----------------------------------------------------------------------------
(* Synchronization.  A process holds the attributes of the memories it     *)
(* loaded; each commit of its own makes it read them again.                *)

AttributesOf(p, m) == IF m \in sync[p].loaded THEN sync[p].held[m] ELSE stored[m]

\* What p holds after a step that used m, and that committed or not.
Holding(p, m, committed) ==
    [sync[p] EXCEPT !.held[m] = AttributesOf(p, m),
                    !.loaded = IF committed THEN {} ELSE @ \cup {m}]

Begin(p, memories, facts) ==
    [at |-> "documents", todo |-> memories, facts |-> facts, held |-> stored,
     loaded |-> Indexed, drafts |-> <<>>]

\* A row written from a value that is no longer the memory's.
Late(p, m, value) == IF value # stored[m] THEN leftBehind \cup {m} ELSE leftBehind

\* sync_memory_documents: each document is deleted and written again.
WriteDocuments(p) ==
    /\ sync[p].at = "documents"
    /\ LET some == {sync[p].todo[i] : i \in DOMAIN sync[p].todo} IN
       /\ doc' = [m \in Indexed |->
                    IF m \in some THEN DocumentOf(AttributesOf(p, m), m \in sync[p].facts)
                    ELSE doc[m]]
       /\ leftBehind' = leftBehind \cup {m \in some : AttributesOf(p, m) # stored[m]}
    /\ sync' = [sync EXCEPT ![p].at = "node"]
    /\ UNCHANGED <<stored, rows, graph, vectors, search, changes, searches, indexCrashes, raced>>

\* upsert_memory_graph_node commits only what differs from its row.
Rewritten(row, value) == row # value

\* The node of the memory, and the texts compiled from it.
WriteNode(p) ==
    /\ sync[p].at = "node"
    /\ LET m == Head(sync[p].todo)
           changed == Rewritten(graph.memory[m], AttributesOf(p, m).status)
           now == IF changed THEN stored[m] ELSE AttributesOf(p, m) IN
       /\ graph' = [graph EXCEPT !.memory[m] = AttributesOf(p, m).status]
       /\ leftBehind' = Late(p, m, AttributesOf(p, m))
       /\ sync' = [sync EXCEPT ![p] =
                     [Holding(p, m, changed) EXCEPT
                        !.at = "surfaces", !.drafts = Drafts(m, now, m \in sync[p].facts),
                        !.held[m] = now, !.loaded = @ \cup {m}]]
    /\ UNCHANGED <<stored, doc, rows, vectors, search, changes, searches, indexCrashes, raced>>

\* The surface another process is awaiting the vector of.
Awaited(key) == search.at \in {"await", "store"} /\ key \in DOMAIN search.asked

WriteSurface(p) ==
    /\ sync[p].at = "surfaces"
    /\ LET draft == Head(sync[p].drafts)
           key == draft.key
           row == Put(rows[key], draft) IN
       /\ rows' = [rows EXCEPT ![key] = row]
       /\ raced' = IF Awaited(key) /\ row.text # rows[key].text THEN raced \cup {key} ELSE raced
       /\ leftBehind' = IF draft.text # Text(key[2], key[1], stored[key[1]])
                        \/ draft.status # stored[key[1]].status
                     THEN leftBehind \cup {key[1]} ELSE leftBehind
       /\ sync' = [sync EXCEPT ![p].drafts = Tail(@),
                               ![p].loaded = IF row # rows[key] THEN {} ELSE @,
                               ![p].at = IF Len(sync[p].drafts) = 1 THEN "facts" ELSE @]
    /\ UNCHANGED <<stored, doc, graph, vectors, search, changes, searches, indexCrashes>>

\* A bug: the entity's node keeps every memory that wrote it.
EntityFaultAll(m) == graph.entity \cup {m}
\* The entity's node names the memory that wrote it last.
Entity(m) == {m}

\* The nodes of the facts in the list, of the entity, and the edges between them.
WriteFacts(p) ==
    /\ sync[p].at = "facts"
    /\ LET m == Head(sync[p].todo)
           listed == m \in sync[p].facts
           after == IF ~listed THEN graph
                    ELSE [graph EXCEPT !.fact[m] = AttributesOf(p, m).fact, !.entity = Entity(m)]
           left == Tail(sync[p].todo) IN
       /\ graph' = after
       /\ leftBehind' = IF listed THEN Late(p, m, AttributesOf(p, m)) ELSE leftBehind
       /\ IF left = <<>> THEN sync' = [sync EXCEPT ![p] = SyncIdle]
          ELSE sync' = [sync EXCEPT ![p] = [Holding(p, m, after # graph) EXCEPT
                                              !.at = "node", !.todo = left]]
       /\ search' = CASE search.at = "sync" /\ p = "search" /\ left = <<>>
                           -> [search EXCEPT !.at = "expand"]
                      [] search.at # "idle" /\ p = "command" -> [search EXCEPT !.crossed = TRUE]
                      [] OTHER -> search
    /\ UNCHANGED <<stored, doc, rows, vectors, changes, searches, indexCrashes, raced>>

Synchronize(p) == WriteDocuments(p) \/ WriteNode(p) \/ WriteSurface(p) \/ WriteFacts(p)

-----------------------------------------------------------------------------
(* Commands that change a memory *)

\* A bug: the rows are derived from the active facts only.
ListedFaultActive(m, value) == IF value.fact = "active" THEN {m} ELSE {}
\* A command passes all facts of its memory, the retired ones too.
Listed(m, value) == {m}

\* The memory's row and fact are committed, then everything is derived again.
Change(m, value) ==
    /\ sync["command"].at = "idle" /\ changes + searches < MaxIndexOps
    /\ stored' = [stored EXCEPT ![m] = value]
    /\ sync' = [sync EXCEPT !["command"] =
                  [Begin("command", <<m>>, Listed(m, value)) EXCEPT !.loaded = {}]]
    /\ changes' = changes + 1
    /\ leftBehind' = leftBehind \ {m}
    /\ search' = IF search.at = "idle" THEN search
                 ELSE [search EXCEPT !.disturbed = @ \cup {m}]
    /\ UNCHANGED <<doc, rows, graph, vectors, searches, indexCrashes, raced>>

WriteMemory(m) ==
    /\ stored[m].status = "none"
    /\ Change(m, [status |-> "active", rev |-> 1, fact |-> "active"])

\* Superseding updates the replacement, and an old memory that stays active.
Touch(m) ==
    /\ stored[m].status = "active"
    /\ Change(m, [stored[m] EXCEPT !.rev = @ + 1])

\* The backfill retires the facts of a superseded memory that stayed active.
RetireFacts(m) ==
    /\ stored[m].status = "active" /\ stored[m].rev > 1 /\ stored[m].fact = "active"
    /\ Change(m, [stored[m] EXCEPT !.fact = "deprecated"])

DeprecateMemory(m) ==
    /\ stored[m].status = "active"
    /\ Change(m, [status |-> "deprecated", rev |-> stored[m].rev + 1, fact |-> "deprecated"])

-----------------------------------------------------------------------------
(* The search *)

\* handle_memory_search: active memories of some scope and time, newest first,
\* with their active facts; all of them are synchronized.
StartSearch(candidates) ==
    /\ search.at = "idle" /\ sync["search"].at = "idle" /\ changes + searches < MaxIndexOps
    /\ \A i \in DOMAIN candidates : stored[candidates[i]].status = "active"
    /\ searches' = searches + 1
    /\ search' = [at |-> "sync", among |-> candidates, disturbed |-> {}, crossed |-> FALSE,
                  query |-> candidates[1], found |-> {}, asked |-> <<>>, expired |-> FALSE]
    /\ sync' = [sync EXCEPT !["search"] =
                  Begin("search", candidates,
                        {m \in ToSet(candidates) : stored[m].fact = "active"})]
    /\ UNCHANGED <<stored, doc, rows, graph, vectors, changes, indexCrashes, leftBehind, raced>>

Candidates == ToSet(search.among)
\* Candidates whose fact the search listed as it began.
ListedFacts == {m \in Candidates : stored[m].fact = "active"}

\* Nodes of the expansion: a stored node whose source is no candidate is left out.
GraphNodes ==
    {<<"memory", m>> : m \in Candidates}
      \cup {<<"stored", m>> : m \in {c \in Candidates : graph.memory[c] # "none"}}
      \cup {<<"fact", m>> : m \in {c \in Candidates : graph.fact[c] # "none"}}
      \cup {<<"entity", m>> : m \in graph.entity \cap Candidates}

\* The edges has_fact and about_entity, written with the fact's node.
StoredEdge(a, b) ==
    \/ a[1] = "stored" /\ b = <<"fact", a[2]>>
    \/ a[1] = "fact" /\ b[1] = "entity"
\* A stored node also leads to the memory it was written for.
SourceEdge(a, b) == a[1] # "memory" /\ b = <<"memory", a[2]>>
Neighbours(S) ==
    S \cup {n \in GraphNodes : \E s \in S : StoredEdge(s, n) \/ StoredEdge(n, s)
                                             \/ SourceEdge(s, n) \/ SourceEdge(n, s)}

\* A query by another name of the fact of q: its node, the node of the entity
\* when q wrote it last, and the memory when its fact is listed.
SeedNodes(q, listed) ==
    GraphNodes \cap ({<<"fact", q>>, <<"entity", q>>}
                       \cup {<<"memory", m>> : m \in {q} \cap listed})

\* A bug: only what a seed touches is found.
FoundFaultOneHop(seeds) ==
    {m \in Candidates : <<"memory", m>> \in Neighbours(seeds)}
\* _score_memory_nodes: the candidates at most two hops from a seed.
Found(seeds) ==
    {m \in Candidates : <<"memory", m>> \in Neighbours(Neighbours(seeds))}

ExpandGraph(q) ==
    /\ search.at = "expand" /\ q \in Candidates
    /\ search' = [search EXCEPT !.at = "ask", !.query = q,
                                !.found = Found(SeedNodes(q, ListedFacts))]
    /\ UNCHANGED <<stored, doc, rows, graph, vectors, sync, changes, searches, indexCrashes,
                   leftBehind, raced>>

\* Surfaces of the candidates that are listed as active.
ListedSurfaces ==
    {k \in SurfaceKeys : k[1] \in Candidates /\ rows[k].status = "active"}

\* Cached vectors for a text: the record of its hash.
Cached(text) == {t \in DOMAIN vectors : t = text}

\* Rows whose text has a vector are marked with it; the others' texts are sent.
AskVectors ==
    /\ search.at = "ask"
    /\ LET missing == {k \in ListedSurfaces : Cached(rows[k].text) = {}} IN
       /\ rows' = [k \in SurfaceKeys |->
                     IF k \in ListedSurfaces \ missing
                     THEN [rows[k] EXCEPT !.vector = CHOOSE t \in Cached(rows[k].text) : TRUE]
                     ELSE rows[k]]
       /\ search' = [search EXCEPT !.at = "await", !.asked = [k \in missing |-> rows[k].text]]
    /\ UNCHANGED <<stored, doc, graph, vectors, sync, changes, searches, indexCrashes, leftBehind,
                   raced>>

\* A vector is cached under the hash the surface has: the one asked for, or
\* since the first commit the row's own, and the row is marked with it.
StoreVector(k) ==
    /\ search.at \in {"await", "store"} /\ k \in DOMAIN search.asked
    /\ LET key == IF search.expired THEN rows[k].text ELSE search.asked[k]
           cached == [t \in DOMAIN vectors \cup {key} |->
                        IF t = key THEN search.asked[k] ELSE vectors[t]]
           marked == [rows EXCEPT ![k].vector = key] IN
       /\ vectors' = cached
       /\ rows' = marked
       /\ search' = [search EXCEPT !.at = "store", !.asked = Restrict(@, DOMAIN @ \ {k}),
                                   !.expired = @ \/ cached # vectors \/ marked # rows]
    /\ UNCHANGED <<stored, doc, graph, sync, changes, searches, indexCrashes, leftBehind, raced>>

\* The search goes on to ranking, or the service failed and the dense route is empty.
EndSearch ==
    /\ \/ search.at = "await"
       \/ search.at = "store" /\ search.asked = <<>>
    /\ search' = SearchIdle
    /\ UNCHANGED <<stored, doc, rows, graph, vectors, sync, changes, searches, indexCrashes,
                   leftBehind, raced>>

IndexCrash ==
    /\ indexCrashes < MaxIndexCrashes
    /\ \E p \in Processes : sync[p].at # "idle" \/ search.at # "idle"
    /\ indexCrashes' = indexCrashes + 1
    /\ leftBehind' = IF sync["command"].at = "idle" THEN leftBehind
                  ELSE leftBehind \cup ToSet(sync["command"].todo)
    /\ sync' = [p \in Processes |-> SyncIdle]
    /\ search' = SearchIdle
    /\ UNCHANGED <<stored, doc, rows, graph, vectors, changes, searches, raced>>

-----------------------------------------------------------------------------

IndexInit ==
    /\ stored = [m \in Indexed |-> [status |-> "none", rev |-> 0, fact |-> "none"]]
    /\ doc = [m \in Indexed |-> [status |-> "none", fact |-> "none"]]
    /\ rows = [k \in SurfaceKeys |-> NoRow]
    /\ graph = [memory |-> [m \in Indexed |-> "none"], fact |-> [m \in Indexed |-> "none"],
                entity |-> {}]
    /\ vectors = <<>>
    /\ sync = [p \in Processes |-> SyncIdle]
    /\ search = SearchIdle
    /\ changes = 0 /\ searches = 0 /\ indexCrashes = 0
    /\ leftBehind = {} /\ raced = {}

IndexNext ==
    \/ \E p \in Processes : Synchronize(p)
    \/ \E m \in Indexed : WriteMemory(m) \/ Touch(m) \/ RetireFacts(m) \/ DeprecateMemory(m)
    \/ \E S \in SUBSET Indexed \ {{}} : \E order \in SetToSeqs(S) : StartSearch(order)
    \/ \E q \in Indexed : ExpandGraph(q)
    \/ AskVectors \/ EndSearch \/ IndexCrash
    \/ \E k \in SurfaceKeys : StoreVector(k)

IndexSpec == IndexInit /\ [][IndexNext]_indexVars

-----------------------------------------------------------------------------
(* Properties *)

Statuses == {"none", "active", "deprecated"}
Searching == search.at \notin {"idle", "sync"}

\* The rows of record and the derived rows have the values of their columns.
IndexTypeOK ==
    /\ \A m \in Indexed : stored[m].status \in Statuses /\ stored[m].fact \in Statuses
                          /\ stored[m].rev \in 0..MaxIndexOps
    /\ \A k \in SurfaceKeys : rows[k].status \in Statuses
    /\ graph.entity \subseteq Indexed /\ Cardinality(graph.entity) <= 1
    /\ leftBehind \subseteq Indexed /\ raced \subseteq SurfaceKeys

\* handle_memory_search: once it has synchronized its candidates, the search
\* ranks documents and surfaces that say what the memories say now, whatever a
\* command had begun or a crash had left, unless one changes the memory meanwhile.
SearchSeesCurrent ==
    Searching =>
      \A m \in Candidates \ search.disturbed :
        /\ doc[m].status = stored[m].status
        /\ \A i \in DOMAIN Drafts(m, stored[m], stored[m].fact = "active") :
             LET draft == Drafts(m, stored[m], stored[m].fact = "active")[i] IN
             rows[draft.key].text = draft.text /\ rows[draft.key].status = draft.status

\* build_memory_graph_expansion: a query by another name of the fact that was
\* synchronized last reaches every candidate that has a fact about its entity.
EntityJoins ==
    search.at = "ask" /\ ~search.crossed /\ search.disturbed = {} =>
      LET withFact == SelectSeq(search.among, LAMBDA m : stored[m].fact = "active") IN
      withFact # <<>> /\ search.query = Last(withFact) => ToSet(withFact) \subseteq search.found

\* _embed_query_and_surfaces: a row marked as embedded names the cached vector of
\* the text it has, computed from that text, unless the row was rewritten while
\* a search awaited the vector.
VectorIsOwn ==
    \A k \in SurfaceKeys \ raced :
      rows[k].vector # Pending =>
        rows[k].vector = rows[k].text /\ vectors[rows[k].vector] = rows[k].text

Settled(m) == sync["command"].at = "idle" /\ m \notin leftBehind

\* deprecate_memory: no derived row of a deprecated memory is listed as active,
\* unless the command died before deriving or a search wrote what it held.
RetiredIsUnlisted ==
    \A m \in Indexed : Settled(m) /\ stored[m].status = "deprecated" =>
      doc[m].status = "deprecated" /\ graph.memory[m] = "deprecated"
      /\ \A k \in SurfaceKeys : k[1] = m => rows[k].status # "active"

\* sync_memory_retrieval_artifacts: the bundle and the graph claim no fact that
\* was retired, under the same two exceptions.
NoLeftoverClaims ==
    \A m \in Indexed : Settled(m) /\ stored[m].fact = "deprecated" =>
      rows[<<m, "bundle">>].text # <<m, "bundle", "active">> /\ graph.fact[m] # "active"

\* The derived rows say of a memory what its row of record says, to every search.
IndexAgrees ==
    /\ IndexTypeOK /\ SearchSeesCurrent /\ EntityJoins /\ VectorIsOwn
    /\ RetiredIsUnlisted /\ NoLeftoverClaims

=============================================================================
