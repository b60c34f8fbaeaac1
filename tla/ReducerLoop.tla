---------------------------- MODULE ReducerLoop -----------------------------
(***************************************************************************)
(* reduce_stream_events as its loop runs: the rows held back and the rows  *)
(* of the batch that were never met are sorted by (seq, event_id) and      *)
(* handled one by one, the least of the rest at a time.  The calls of one  *)
(* client follow one another, each starting from the state the one before  *)
(* returned.                                                               *)
(***************************************************************************)
EXTENDS Reducer

CONSTANTS
    Rows,       \* the rows the server may send: records [seq, id]
    BatchLimit  \* bound: rows in one call

ASSUME RowsAreRows == IsFiniteSet(Rows) /\ \A e \in Rows : {e.seq, e.id} \subseteq Nat
ASSUME BatchLimitNat == BatchLimit \in Nat

VARIABLES
    loop,      \* the locals of the call in progress
    missing,   \* missing_seq_ranges of the last result: none or one range
    arrived    \* every row passed to a call so far

loopVars == <<reducer, loop, missing, arrived>>

\* Fault: the rows are handled by event_id only.
BeforeById(e, f) == e.id < f.id

\* key = (item.seq, item.event_id)
Before(e, f) == e.seq < f.seq \/ (e.seq = f.seq /\ e.id < f.id)

Returned == [at |-> "returned", batch |-> {}, rest |-> {}, expected |-> 1,
             applied |-> <<>>, pending |-> {}, conflicts |-> {}]

\* The call begins with the pending events of the state and the new events.
Call(batch) ==
    /\ loop.at = "returned"
    /\ loop' = [at |-> "loop", batch |-> batch, rest |-> Fresh(batch),
                expected |-> CursorSeq + 1, applied |-> reducer.applied,
                pending |-> {}, conflicts |-> reducer.conflicts]
    /\ UNCHANGED <<reducer, missing, arrived>>

\* The next row in sorted order.
IsNext(row) == row \in loop.rest /\ \A other \in loop.rest : ~Before(other, row)

\* if event.seq < expected_seq
NoteConflict(row) ==
    /\ IsNext(row) /\ row.seq < loop.expected
    /\ loop' = [loop EXCEPT !.rest = @ \ {row}, !.conflicts = @ \cup {row}]
    /\ UNCHANGED <<reducer, missing, arrived>>

\* Fault: only one row is held back.
HoldOne(pending, row) == {row}

Hold(pending, row) == pending \cup {row}

\* if event.seq > expected_seq
HoldRow(row) ==
    /\ IsNext(row) /\ row.seq > loop.expected
    /\ loop' = [loop EXCEPT !.rest = @ \ {row}, !.pending = Hold(@, row)]
    /\ UNCHANGED <<reducer, missing, arrived>>

\* The next number: the row is applied.
ApplyRow(row) ==
    /\ IsNext(row) /\ row.seq = loop.expected
    /\ loop' = [loop EXCEPT !.rest = @ \ {row}, !.applied = Append(@, row), !.expected = @ + 1]
    /\ UNCHANGED <<reducer, missing, arrived>>

\* Fault: the range ends on the number that did arrive.
ClosedRanges(start, observed) ==
    {[first |-> start, last |-> k] : k \in {n \in observed : \A m \in observed : n <= m}}

\* Fault: the range starts on the cursor.
CursorRanges(start, observed) ==
    {[first |-> start - 1, last |-> k - 1] :
        k \in {n \in observed : n > start /\ \A m \in observed : n <= m}}

\* _missing_ranges: the numbers before the first row held back.
MissingRanges(start, observed) ==
    {[first |-> start, last |-> k - 1] :
        k \in {n \in observed : n > start /\ \A m \in observed : n <= m}}

Return ==
    /\ loop.at = "loop"
    /\ loop.rest = {}
    /\ reducer' = [applied |-> loop.applied, pending |-> loop.pending,
                   conflicts |-> loop.conflicts]
    /\ missing' = MissingRanges(loop.expected, {e.seq : e \in loop.pending})
    /\ arrived' = arrived \cup loop.batch
    /\ loop' = Returned

LoopInit ==
    /\ reducer = [applied |-> <<>>, pending |-> {}, conflicts |-> {}]
    /\ loop = Returned
    /\ missing = {}
    /\ arrived = {}

LoopNext ==
    \/ \E batch \in SUBSET Rows : Cardinality(batch) <= BatchLimit /\ Call(batch)
    \/ \E row \in loop.rest : NoteConflict(row) \/ HoldRow(row) \/ ApplyRow(row)
    \/ Return

LoopSpec == LoopInit /\ [][LoopNext]_loopVars

-----------------------------------------------------------------------------

\* What the variables range over.
LoopTypeOK ==
    /\ reducer.applied \in Seq(Rows)
    /\ reducer.pending \cup reducer.conflicts \subseteq Rows
    /\ loop.at \in {"returned", "loop"} /\ loop.rest \subseteq Rows /\ loop.expected \in Nat
    /\ missing \subseteq [first : Nat \ {0}, last : Nat \ {0}] /\ Cardinality(missing) <= 1
    /\ arrived \subseteq Rows

\* No number below k is missing among the rows.
Reaches(rows, k) == \A m \in 1..k : \E e \in rows : e.seq = m

\* test_reference_reducer_is_order_independent_and_idempotent: how far the client
\* is, and which rows it holds back, depends on the set of rows that arrived and
\* not on their order, their repetitions or how calls cut them into batches.
OrderIndependent ==
    \A k \in 0..Cardinality(Rows) :
        (Reaches(arrived, k) /\ ~ Reaches(arrived, k + 1)) =>
            /\ CursorSeq = k
            /\ reducer.pending = {e \in arrived : e.seq > k}
            /\ Seen = arrived

\* missing_seq_ranges names the next gap, the whole of it and nothing that has
\* arrived, whenever the client holds a row back: a replay of the range lets it
\* go on.
GapReported ==
    /\ (missing = {}) <=> (reducer.pending = {})
    /\ \A gap \in missing :
         /\ gap.first = CursorSeq + 1
         /\ \A e \in arrived : e.seq < gap.first \/ e.seq > gap.last
         /\ \E e \in arrived : e.seq = gap.last + 1

\* The loop computes what Reducer states for the batch as a whole.
ComputesReduce == [][loop.at = "loop" /\ loop'.at = "returned" => Reduce(loop.batch)]_loopVars

\* Between calls the client has what its rows allow, and knows what it misses.
ReducerIsExact == LoopTypeOK /\ OrderIndependent /\ GapReported

=============================================================================
