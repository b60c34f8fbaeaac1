------------------------------ MODULE Reducer -------------------------------
(***************************************************************************)
(* reduce_stream_events, the reference reducer of scarlet-stream-v2: what  *)
(* a client's state becomes when it folds a batch of rows, stated for the  *)
(* batch as a whole.  ReducerLoop runs the loop of the code, row by row.   *)
(* A row is a record with a field seq, and stands for one event id.        *)
(***************************************************************************)
EXTENDS Integers, Sequences, FiniteSets

VARIABLE
    reducer   \* applied: the applied rows in order (the last seq is cursor_seq);
              \* pending: rows beyond a gap; conflicts: rows whose seq was taken

Applied == {reducer.applied[i] : i \in DOMAIN reducer.applied}
CursorSeq == Len(reducer.applied)

\* event_fingerprints: every row the reducer has met.
Seen == Applied \cup reducer.pending \cup reducer.conflicts

-----------------------------------------------------------------------------

\* Fault: rows already met are folded again.
Repeated(batch) == reducer.pending \cup batch

\* What a batch adds to the rows held back; rows already met are dropped.
Fresh(batch) == reducer.pending \cup {e \in batch : e \notin Seen}

\* Fault: the reducer may stop before the next number is missing.
StopAnywhere(fresh, reached) == TRUE

\* The loop over the rows in order (seq, event_id) stops applying at reached.
StopsAt(fresh, reached) == \A e \in fresh : e.seq # reached + 1

\* Fault: rows are applied as they come, whatever their numbers.
ArrivalOrder(fresh, reached) == [(CursorSeq + 1)..reached -> fresh]

\* The rows applied under the next numbers.  Event ids are random, so among rows
\* that share a number any one may come first.
NextRows(fresh, reached) ==
    {next \in [(CursorSeq + 1)..reached -> fresh] :
        \A k \in (CursorSeq + 1)..reached : next[k].seq = k}

\* The new state: next is applied up to reached; the other rows above reached
\* wait, those below it found their number taken.
Apply(fresh, reached, next) ==
    reducer' = [applied |-> [i \in 1..reached |->
                    IF i <= CursorSeq THEN reducer.applied[i] ELSE next[i]],
                pending |-> {e \in fresh : e.seq > reached},
                conflicts |-> reducer.conflicts \cup
                    {e \in fresh \ {next[k] : k \in DOMAIN next} : e.seq <= reached}]

\* reduce_stream_events on one batch.
Reduce(batch) ==
    LET fresh == Fresh(batch) IN
    \E reached \in CursorSeq..(CursorSeq + Cardinality(fresh)) :
        /\ StopsAt(fresh, reached)
        /\ \E next \in NextRows(fresh, reached) : Apply(fresh, reached, next)

=============================================================================
