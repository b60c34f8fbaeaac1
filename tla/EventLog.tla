------------------------------ MODULE EventLog ------------------------------
(***************************************************************************)
(* The canonical event log of one chat session: the rows of table events   *)
(* that share one session_id.  Several threads record events in the same   *)
(* session: one request thread per running turn (no lock serialises the    *)
(* turns of a session) and the maintenance worker.                         *)
(*                                                                         *)
(* add_event first reads the highest seq of the session, then builds the   *)
(* row, then commits it.  A SELECT takes no write lock in SQLite, and no   *)
(* unique constraint covers (session_id, seq), so what the thread read may *)
(* be stale when its row is committed.                                     *)
(***************************************************************************)
EXTENDS Integers, FiniteSets

CONSTANTS
    Writers,          \* threads that record events in this session
    EventsPerWriter   \* bound: rows one thread commits

ASSUME WritersFinite == IsFiniteSet(Writers)
ASSUME EventsPerWriterNat == EventsPerWriter \in Nat

VARIABLES
    events,   \* committed rows: [writer, n, seq], n counts the writer's rows
    drafts    \* per writer, the rows built and not yet committed: none or one

logVars == <<events, drafts>>

Row == [writer : Writers, n : Nat, seq : Nat]

RowsOf(w) == {e \in events : e.writer = w}

\* Fault: numbers are reserved when a row is built.
ReservedSeqs == {e.seq : e \in events \cup UNION {drafts[w] : w \in Writers}}

\* The numbers a query on the session finds: committed rows only.
KnownSeqs == {e.seq : e \in events}

\* Fault: the query sorts the wrong way round.
IsEarliestSeq(m) ==
    /\ \A s \in KnownSeqs : m <= s
    /\ m \in KnownSeqs \/ (m = 0 /\ KnownSeqs = {})

\* SELECT max(seq), 0 on an empty session; the same query serves
\* latest_event_seq and next_event_seq.
IsLatestSeq(m) ==
    /\ \A s \in KnownSeqs : s <= m
    /\ m \in KnownSeqs \/ (m = 0 /\ KnownSeqs = {})

\* Fault: numbers are counted down.
PreviousSeq(m) == m - 1

NextSeq(m) == m + 1

LogInit ==
    /\ events = {}
    /\ drafts = [w \in Writers |-> {}]

\* next_event_seq, then CognitiveEvent(seq = max + 1).
Draft(w) ==
    /\ drafts[w] = {}
    /\ Cardinality(RowsOf(w)) < EventsPerWriter
    /\ \E m \in {0} \cup KnownSeqs :
         /\ IsLatestSeq(m)
         /\ drafts' = [drafts EXCEPT ![w] =
              {[writer |-> w, n |-> Cardinality(RowsOf(w)) + 1, seq |-> NextSeq(m)]}]
    /\ UNCHANGED events

\* db.add(event); db.commit().
Commit(w) ==
    /\ drafts[w] # {}
    /\ events' = events \cup drafts[w]
    /\ drafts' = [drafts EXCEPT ![w] = {}]

\* The commit raises (the database stays locked) or the process dies first:
\* the row is gone and its number was never taken.
Abandon(w) ==
    /\ drafts[w] # {}
    /\ drafts' = [drafts EXCEPT ![w] = {}]
    /\ UNCHANGED events

LogNext == \E w \in Writers : Draft(w) \/ Commit(w) \/ Abandon(w)

-----------------------------------------------------------------------------

\* The log holds well-formed rows, and every thread holds at most one draft.
LogTypeOK ==
    /\ events \subseteq Row
    /\ drafts \in [Writers -> SUBSET Row]
    /\ \A w \in Writers : \A d, f \in drafts[w] : d = f /\ d.writer = w

\* No seq below the highest one is missing: a client that waits for the next
\* number never waits for a row that no thread will write, whatever threads
\* abandon their rows.
NoPermanentGap ==
    \A e \in events : \A k \in 1..e.seq : \E f \in events : f.seq = k

\* The rows one thread writes carry strictly increasing numbers, in the order
\* it wrote them, however stale its reads were: the events of a turn replay in
\* the order they happened, and rows that share a number have two writers.
WriterOrder ==
    \A e, f \in events :
        e.writer = f.writer /\ e.n < f.n => e.seq < f.seq

=============================================================================
