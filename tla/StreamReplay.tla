---------------------------- MODULE StreamReplay ----------------------------
(***************************************************************************)
(* A client of the scarlet-stream-v2 contract: it follows the live stream  *)
(* of one turn, repairs gaps by replaying pages of the session's event log *)
(* and folds both with the reference reducer, reduce_stream_events.        *)
(*                                                                         *)
(* The live stream carries the rows of its own turn, minus the rows that   *)
(* the turn records without yielding them (answer obligations and answer   *)
(* validation), and nothing that other threads write.  The replay endpoint *)
(* reads a page, and then, in a second query, the latest seq.              *)
(***************************************************************************)
EXTENDS EventLog, Reducer

CONSTANTS
    LiveWriter,   \* the turn whose live stream the client follows
    Unstreamed,   \* positions of LiveWriter's rows that are recorded, not yielded
    PageLimit     \* limit of a replay request

ASSUME LiveWriterIsWriter == LiveWriter \in Writers
ASSUME PageLimitPos == PageLimit \in Nat \ {0}

VARIABLES
    yielded,   \* rows of LiveWriter the live generator has gone past
    replay     \* the replay request in progress

vars == <<events, drafts, yielded, reducer, replay>>

ReducerState == [applied : Seq(Row), pending : SUBSET Row, conflicts : SUBSET Row]

Idle == [phase |-> "idle", after |-> 0, page |-> {}, cut |-> FALSE]
Asking(seq) == [phase |-> "ask", after |-> seq, page |-> {}, cut |-> FALSE]
ReplayState == [phase : {"idle", "ask", "read"}, after : Nat,
                page : SUBSET Row, cut : BOOLEAN]

-----------------------------------------------------------------------------

\* stream_native_turn yields the turn's rows in the order it recorded them and
\* stream_v2_from_native_lines forwards each one it finds in the database.
ReceiveLive ==
    \E e \in RowsOf(LiveWriter) :
        /\ e.n = yielded + 1
        /\ yielded' = e.n
        /\ IF e.n \in Unstreamed THEN UNCHANGED reducer ELSE Reduce({e})
        /\ UNCHANGED <<events, drafts, replay>>

\* The client replays from its last applied cursor (contract rule 6).
ReplayCursor == CursorSeq

AskReplay ==
    /\ replay.phase = "idle"
    /\ replay' = Asking(ReplayCursor)
    /\ UNCHANGED <<events, drafts, yielded, reducer>>

\* Fault: a page holds the newest rows first.
HighestOf(page, rest) == \A e \in page, f \in rest \ page : e.seq >= f.seq

LowestOf(page, rest) == \A e \in page, f \in rest \ page : e.seq <= f.seq

\* list_events_for_session_after_seq with limit + 1, cut to limit: the rows
\* above after_seq with the lowest numbers.
ReadPage ==
    /\ replay.phase = "ask"
    /\ LET rest == {e \in events : e.seq > replay.after} IN
       \E page \in SUBSET rest :
          /\ LowestOf(page, rest)
          /\ \/ page = rest /\ Cardinality(rest) <= PageLimit
             \/ page # rest /\ Cardinality(page) = PageLimit
          /\ replay' = [replay EXCEPT !.phase = "read", !.page = page,
                                      !.cut = (page # rest)]
    /\ UNCHANGED <<events, drafts, yielded, reducer>>

\* page[-1].seq if page else after_seq.
IsNextAfter(m) ==
    \/ replay.page = {} /\ m = replay.after
    \/ /\ \E e \in replay.page : e.seq = m
       /\ \A e \in replay.page : e.seq <= m

\* Fault: only a cut page announces more.
HasMoreIfCut(m) == replay.cut

\* len(fetched) > limit or next_after_seq < latest_seq.
HasMore(m) == replay.cut \/ \E s \in KnownSeqs : m < s

\* latest_event_seq is read, the response leaves, the client folds the page and
\* asks again from next_after_seq while has_more.
FinishPage ==
    /\ replay.phase = "read"
    /\ Reduce(replay.page)
    /\ \E m \in {replay.after} \cup {e.seq : e \in replay.page} :
         /\ IsNextAfter(m)
         /\ replay' = IF HasMore(m) THEN Asking(m) ELSE Idle
    /\ UNCHANGED <<events, drafts, yielded>>

Init ==
    /\ LogInit
    /\ yielded = 0
    /\ reducer = [applied |-> <<>>, pending |-> {}, conflicts |-> {}]
    /\ replay = Idle

Next ==
    \/ LogNext /\ UNCHANGED <<yielded, reducer, replay>>
    \/ ReceiveLive
    \/ AskReplay
    \/ ReadPage
    \/ FinishPage

Spec == Init /\ [][Next]_vars

\* A client that repeats its replay requests is answered: each request is one
\* short read-only handler.  Nothing is assumed of the writers.
FairSpec == Spec /\ WF_vars(AskReplay) /\ WF_vars(ReadPage) /\ WF_vars(FinishPage)

-----------------------------------------------------------------------------

TypeOK ==
    /\ LogTypeOK
    /\ yielded \in Nat
    /\ reducer \in ReducerState
    /\ replay \in ReplayState

\* The reducer has applied exactly one committed row per number, in order and
\* without a hole, from live rows and pages in any order.
AppliedInOrder ==
    /\ Applied \subseteq events
    /\ \A i \in DOMAIN reducer.applied : reducer.applied[i].seq = i

\* A row the reducer holds back waits for a number that is still missing: the
\* client never sits on the event it is waiting for.
PendingBeyondGap == \A e \in reducer.pending : e.seq > CursorSeq + 1

\* A repeated row is dropped: what the reducer reports as a conflict was never
\* applied and is not waiting, so retries of pages and live rows are idempotent.
RepeatsAreNoConflict ==
    reducer.conflicts \cap (Applied \cup reducer.pending) = {}

\* A row at or below the cursor that was not applied shares its number with an
\* applied row of another thread: nothing else is ever skipped.
OnlyTwinsAreSkipped ==
    \A e \in events : e.seq <= CursorSeq /\ e \notin Applied
        => reducer.applied[e.seq].writer # e.writer

\* stream-v2-contract.md: the replay endpoint returns every canonical session
\* event.  A client that is up to date has met every row of the log.
EveryEventReturned ==
    \A e \in events : e.seq <= CursorSeq => e \in Seen

\* When has_more turns false, the client has applied up to the latest number of
\* that moment, although the page was read before the latest seq was.
ReplayReachesLatest ==
    [][replay.phase = "read" /\ replay'.phase = "idle"
         => IsLatestSeq(Len(reducer'.applied))]_vars

\* Every number that is committed is eventually applied, gaps included.
EveryNumberApplied ==
    \A k \in 1..(EventsPerWriter * Cardinality(Writers)) :
        (\E e \in events : e.seq = k) ~> (CursorSeq >= k)

-----------------------------------------------------------------------------

\* The log and the reducer keep the promise of the contract: the log is
\* published without holes and delivered once per number, in order, through
\* any mix of live rows, pages, duplicates and late commits.
Promise == INSTANCE StreamPromise WITH log <- events, delivered <- reducer.applied

ImplementsPromise == Promise!Spec

\* Log and client at any moment: numbers without a gap, of each thread in order; one
\* row applied per number and in order; and nothing passed over but a twin.
StreamIsSound ==
    /\ TypeOK /\ NoPermanentGap /\ WriterOrder
    /\ AppliedInOrder /\ PendingBeyondGap /\ RepeatsAreNoConflict /\ OnlyTwinsAreSkipped

=============================================================================
