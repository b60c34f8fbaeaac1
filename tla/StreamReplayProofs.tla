------------------------- MODULE StreamReplayProofs -------------------------
(***************************************************************************)
(* What the log, the replaying client and the reference reducer keep for   *)
(* every number of writing threads, rows and replay limits, and the loop   *)
(* of the reducer for any finite set of rows and any batches: it computes  *)
(* what Reducer states, and what a client holds does not depend on order,  *)
(* repetition or grouping.                                                 *)
(***************************************************************************)
EXTENDS StreamReplay, ReducerLoop, Functions, WellFoundedInduction, FiniteSetTheorems,
        TLAPS

-----------------------------------------------------------------------------
(* The event log.  It takes its steps inside larger systems, so these facts are stated
   of LogInit and LogNext. *)

\* A draft continues the log: all smaller numbers are committed, and it is the
\* next row of its writer, above the writer's committed rows.
DraftContinues(w, d) ==
    /\ d.seq >= 1
    /\ \A k \in 1..(d.seq - 1) : \E f \in events : f.seq = k
    /\ d.n = Cardinality(RowsOf(w)) + 1
    /\ \A e \in RowsOf(w) : e.seq < d.seq

\* The inductive invariant of the log.
LogInv ==
    /\ LogTypeOK
    /\ IsFiniteSet(events)
    /\ NoPermanentGap
    /\ WriterOrder
    /\ \A e \in events : e.seq >= 1 /\ e.n <= Cardinality(RowsOf(e.writer))
    /\ \A e, f \in events : e.writer = f.writer /\ e.n = f.n => e = f
    /\ \A w \in Writers : \A d \in drafts[w] : DraftContinues(w, d)

\* The rows of a thread form a finite set, whose size is a number.
LEMMA RowsFinite ==
    ASSUME IsFiniteSet(events), NEW w
    PROVE  IsFiniteSet(RowsOf(w)) /\ Cardinality(RowsOf(w)) \in Nat
<1>1. RowsOf(w) \in SUBSET events
  BY DEF RowsOf
<1>2. IsFiniteSet(RowsOf(w))
  BY <1>1, FS_Subset
<1> QED BY <1>2, FS_CardinalityType

\* The empty log satisfies the invariant.
LEMMA LogInitInv == LogInit => LogInv
<1> SUFFICES ASSUME LogInit PROVE LogInv
  OBVIOUS
<1>1. IsFiniteSet(events)
  BY FS_EmptySet DEF LogInit
<1> QED
  BY <1>1 DEF LogInit, LogInv, LogTypeOK, NoPermanentGap, WriterOrder

\* Reading the highest number and building the row keeps the invariant.
LEMMA DraftInv ==
    ASSUME LogInv, NEW w \in Writers, Draft(w) PROVE LogInv'
<1> USE DEF LogInv
<1>1. PICK m \in {0} \cup KnownSeqs :
        /\ IsLatestSeq(m)
        /\ drafts' = [drafts EXCEPT ![w] =
             {[writer |-> w, n |-> Cardinality(RowsOf(w)) + 1, seq |-> m + 1]}]
  BY DEF Draft, NextSeq
<1> DEFINE row == [writer |-> w, n |-> Cardinality(RowsOf(w)) + 1, seq |-> m + 1]
<1>2. m \in Nat
  BY DEF KnownSeqs, LogTypeOK, Row
<1>3. Cardinality(RowsOf(w)) \in Nat
  BY RowsFinite
<1>4. row \in Row
  BY <1>2, <1>3 DEF Row
<1>5. events' = events /\ \A v : RowsOf(v)' = RowsOf(v)
  BY DEF Draft, RowsOf
<1>6. drafts' \in [Writers -> SUBSET Row]
  BY <1>1, <1>4 DEF LogTypeOK
<1>7. \A v \in Writers : drafts'[v] = IF v = w THEN {row} ELSE drafts[v]
  BY <1>1 DEF LogTypeOK
<1>8. LogTypeOK'
  BY <1>5, <1>6, <1>7 DEF LogTypeOK
<1>9. DraftContinues(w, row)'
  <2>1. \A k \in 1..m : \E f \in events : f.seq = k
    BY <1>1, <1>2 DEF IsLatestSeq, KnownSeqs, NoPermanentGap
  <2>2. \A e \in RowsOf(w) : e.seq < m + 1
    <3> SUFFICES ASSUME NEW e \in RowsOf(w) PROVE e.seq < m + 1
      OBVIOUS
    <3>1. e \in events /\ e.seq \in Nat
      BY DEF RowsOf, LogTypeOK, Row
    <3>2. e.seq <= m
      BY <1>1, <3>1 DEF IsLatestSeq, KnownSeqs
    <3> QED BY <1>2, <3>1, <3>2
  <2>3. row.seq >= 1 /\ row.seq - 1 = m /\ row.n = Cardinality(RowsOf(w)) + 1
    BY <1>2
  <2> QED BY <1>5, <2>1, <2>2, <2>3 DEF DraftContinues
<1>10. \A v \in Writers : \A d \in drafts'[v] : DraftContinues(v, d)'
  BY <1>5, <1>7, <1>9 DEF DraftContinues
<1> QED
  BY <1>5, <1>8, <1>10 DEF NoPermanentGap, WriterOrder

\* Losing a draft keeps the invariant.
LEMMA AbandonInv ==
    ASSUME LogInv, NEW w \in Writers, Abandon(w) PROVE LogInv'
<1> USE DEF LogInv
<1>1. events' = events /\ \A v : RowsOf(v)' = RowsOf(v)
  BY DEF Abandon, RowsOf
<1>2. \A v \in Writers : drafts'[v] = IF v = w THEN {} ELSE drafts[v]
  BY DEF Abandon, LogTypeOK
<1>3. drafts' \in [Writers -> SUBSET Row]
  BY DEF Abandon, LogTypeOK
<1>4. LogTypeOK'
  BY <1>1, <1>2, <1>3 DEF LogTypeOK
<1>5. \A v \in Writers : \A d \in drafts'[v] : DraftContinues(v, d)'
  BY <1>1, <1>2 DEF DraftContinues
<1> QED
  BY <1>1, <1>4, <1>5 DEF NoPermanentGap, WriterOrder

\* Committing a row keeps the invariant, however stale the number it carries.
LEMMA CommitInv ==
    ASSUME LogInv, NEW w \in Writers, Commit(w) PROVE LogInv'
<1> USE DEF LogInv
<1>1. PICK d \in Row : drafts[w] = {d} /\ d.writer = w
  BY DEF Commit, LogTypeOK
<1>2. DraftContinues(w, d)
  BY <1>1
<1>3. events' = events \cup {d}
  BY <1>1 DEF Commit
<1>4. \A v \in Writers : drafts'[v] = IF v = w THEN {} ELSE drafts[v]
  BY DEF Commit, LogTypeOK
<1>5. LogTypeOK'
  <2>1. drafts' \in [Writers -> SUBSET Row]
    BY DEF Commit, LogTypeOK
  <2> QED BY <1>1, <1>3, <1>4, <2>1 DEF LogTypeOK
<1>6. RowsOf(w)' = RowsOf(w) \cup {d} /\ \A v : v # w => RowsOf(v)' = RowsOf(v)
  BY <1>1, <1>3 DEF RowsOf
<1>7. IsFiniteSet(events')
  BY <1>3, FS_AddElement
<1>8. /\ Cardinality(RowsOf(w)) \in Nat
      /\ Cardinality(RowsOf(w)') = Cardinality(RowsOf(w)) + 1
  <2>1. d \notin RowsOf(w)
    BY <1>2, <1>1, RowsFinite DEF DraftContinues, RowsOf, Row
  <2> QED BY <1>6, <2>1, RowsFinite, FS_AddElement
<1>9. NoPermanentGap'
  BY <1>1, <1>2, <1>3 DEF NoPermanentGap, DraftContinues, Row
<1>10. \A e \in RowsOf(w) : e.n < d.n /\ e.seq < d.seq
  BY <1>2, <1>8, <1>1 DEF DraftContinues, RowsOf, LogTypeOK, Row
<1>11. WriterOrder'
  <2> SUFFICES ASSUME NEW e \in events', NEW f \in events',
                      e.writer = f.writer, e.n < f.n
               PROVE  e.seq < f.seq
    BY DEF WriterOrder
  <2>1. CASE e \in events /\ f \in events
    BY <2>1 DEF WriterOrder
  <2>2. CASE f = d
    BY <1>1, <1>3, <1>10, <2>2 DEF RowsOf, Row
  <2>3. CASE e = d /\ f \in events
    <3>1. f \in RowsOf(w)
      BY <1>1, <2>3 DEF RowsOf
    <3>2. f.n < d.n /\ f.n \in Nat /\ d.n \in Nat
      BY <3>1, <1>10, <1>1, <2>3 DEF LogTypeOK, Row
    <3> QED BY <3>2, <2>3
  <2> QED BY <1>3, <2>1, <2>2, <2>3
<1>12. \A e \in events' : e.seq >= 1 /\ e.n <= Cardinality(RowsOf(e.writer)')
  <2> SUFFICES ASSUME NEW e \in events'
               PROVE  e.seq >= 1 /\ e.n <= Cardinality(RowsOf(e.writer)')
    OBVIOUS
  <2>1. CASE e = d
    BY <2>1, <1>1, <1>2, <1>8 DEF DraftContinues
  <2>2. CASE e \in events /\ e.writer = w
    BY <2>2, <1>8 DEF LogTypeOK, Row
  <2>3. CASE e \in events /\ e.writer # w
    BY <2>3, <1>6
  <2> QED BY <1>3, <2>1, <2>2, <2>3
<1>13. \A e, f \in events' : e.writer = f.writer /\ e.n = f.n => e = f
  <2> SUFFICES ASSUME NEW e \in events', NEW f \in events',
                      e.writer = f.writer, e.n = f.n
               PROVE  e = f
    OBVIOUS
  <2>1. CASE e \in events /\ f \in events
    BY <2>1
  <2>2. \A x \in events : x.writer = w => x.n # d.n
    BY <1>10, <1>1 DEF RowsOf, LogTypeOK, Row
  <2> QED BY <1>1, <1>3, <2>1, <2>2
<1>14. \A v \in Writers : \A x \in drafts'[v] : DraftContinues(v, x)'
  BY <1>3, <1>4, <1>6 DEF DraftContinues
<1> QED
  BY <1>5, <1>7, <1>9, <1>11, <1>12, <1>13, <1>14

\* Steps of a system that leave the log alone keep the invariant.
LEMMA LogStutterInv ==
    ASSUME LogInv, UNCHANGED logVars PROVE LogInv'
BY DEF LogInv, logVars, LogTypeOK, NoPermanentGap, WriterOrder, DraftContinues,
       RowsOf

\* Every step of the log keeps its invariant.
LEMMA LogNextInv ==
    ASSUME LogInv, LogNext PROVE LogInv'
<1>1. PICK w \in Writers : Draft(w) \/ Commit(w) \/ Abandon(w)
  BY DEF LogNext
<1> QED BY <1>1, DraftInv, CommitInv, AbandonInv

-----------------------------------------------------------------------------
(* The reducer and the replay beside it *)

\* What the reducer knows: committed rows only, applied one per number, and
\* nothing held back or rejected that could be applied.
ReducerInv ==
    /\ reducer \in ReducerState
    /\ AppliedInOrder
    /\ PendingBeyondGap
    /\ RepeatsAreNoConflict
    /\ reducer.pending \subseteq events
    /\ reducer.conflicts \subseteq events

\* A page holds committed rows.
ReplayInv ==
    /\ replay \in ReplayState
    /\ replay.page \subseteq events

\* The inductive invariant of the whole system.
IInv ==
    /\ LogInv
    /\ yielded \in Nat
    /\ ReducerInv
    /\ ReplayInv

\* A function on 1..n is a sequence of length n.
LEMMA FunctionIsSeq ==
    ASSUME NEW S, NEW n \in Nat, NEW f \in [1..n -> S]
    PROVE  f \in Seq(S) /\ Len(f) = n /\ DOMAIN f = 1..n
OBVIOUS

\* One call of the reducer on committed rows keeps what it knows, and only
\* extends what was applied.
LEMMA ReduceKeeps ==
    ASSUME IInv, NEW batch \in SUBSET events, events' = events, Reduce(batch)
    PROVE  /\ ReducerInv'
           /\ Len(reducer'.applied) >= Len(reducer.applied)
           /\ \A i \in 1..Len(reducer.applied) :
                reducer'.applied[i] = reducer.applied[i]
<1> DEFINE fresh == Fresh(batch)
<1>0. PICK reached \in CursorSeq..(CursorSeq + Cardinality(fresh)) :
        /\ StopsAt(fresh, reached)
        /\ \E next \in NextRows(fresh, reached) : Apply(fresh, reached, next)
  BY DEF Reduce
<1>1. PICK next \in [(CursorSeq + 1)..reached -> fresh] :
        /\ \A k \in DOMAIN next : next[k].seq = k
        /\ Apply(fresh, reached, next)
  BY <1>0 DEF NextRows
<1>2. /\ CursorSeq \in Nat
      /\ DOMAIN reducer.applied = 1..CursorSeq
      /\ \A i \in 1..CursorSeq :
           reducer.applied[i] \in events /\ reducer.applied[i].seq = i
  <2>1. reducer.applied \in Seq(Row)
    BY DEF IInv, ReducerInv, ReducerState
  <2> QED BY <2>1 DEF IInv, ReducerInv, CursorSeq, AppliedInOrder, Applied
<1>3. reached \in Nat /\ reached >= CursorSeq
  BY <1>2
<1>4. events \subseteq Row /\ fresh \subseteq events
  BY DEF Fresh, IInv, LogInv, LogTypeOK, ReducerInv
<1> DEFINE all == [i \in 1..reached |->
                     IF i <= CursorSeq THEN reducer.applied[i] ELSE next[i]]
<1>5. /\ all \in [1..reached -> events]
      /\ \A i \in 1..reached : all[i].seq = i
  <2> SUFFICES ASSUME NEW i \in 1..reached
               PROVE  all[i] \in events /\ all[i].seq = i
    OBVIOUS
  <2>1. CASE i <= CursorSeq
    BY <2>1, <1>2, <1>3
  <2>2. CASE i > CursorSeq
    <3>1. i \in (CursorSeq + 1)..reached
      BY <2>2, <1>2, <1>3
    <3>2. next[i] \in fresh /\ next[i].seq = i
      BY <3>1, <1>1
    <3> QED BY <2>2, <3>2, <1>2, <1>4
  <2> QED BY <2>1, <2>2, <1>2, <1>3
<1>6. reducer'.applied = all
  BY <1>1 DEF Apply
<1>7. all \in Seq(events) /\ Len(all) = reached /\ DOMAIN all = 1..reached
  BY <1>3, <1>5, FunctionIsSeq
<1>8. /\ reducer'.pending \subseteq events
      /\ reducer'.conflicts \subseteq events
  BY <1>1, <1>4 DEF Apply, IInv, ReducerInv
<1>9. reducer' \in ReducerState
  <2>1. all \in Seq(Row)
    BY <1>3, <1>4, <1>5, FunctionIsSeq
  <2>2. reducer' = [applied |-> all, pending |-> reducer'.pending,
                    conflicts |-> reducer'.conflicts]
    BY <1>1 DEF Apply
  <2> QED BY <2>1, <2>2, <1>4, <1>8 DEF ReducerState
<1>10. AppliedInOrder'
  BY <1>5, <1>6, <1>7 DEF AppliedInOrder, Applied
<1>11. PendingBeyondGap'
  <2> SUFFICES ASSUME NEW e \in reducer'.pending PROVE e.seq > reached + 1
    BY <1>6, <1>7 DEF PendingBeyondGap, CursorSeq
  <2>1. e \in fresh /\ e.seq > reached /\ e.seq # reached + 1
    BY <1>0, <1>1 DEF Apply, StopsAt
  <2> QED BY <2>1, <1>3, <1>4 DEF Row
<1>12. \A i \in 1..CursorSeq : all[i] = reducer.applied[i]
  BY <1>2, <1>3
<1>13. RepeatsAreNoConflict'
  <2> DEFINE won == {next[k] : k \in DOMAIN next}
  <2>1. Applied' \subseteq Applied \cup won
    <3> SUFFICES ASSUME NEW i \in 1..reached PROVE all[i] \in Applied \cup won
      BY <1>6, <1>7 DEF Applied
    <3>1. CASE i <= CursorSeq
      BY <3>1, <1>2, <1>3 DEF Applied
    <3>2. CASE i > CursorSeq
      BY <3>2, <1>1, <1>2, <1>3
    <3> QED BY <3>1, <3>2, <1>2, <1>3
  <2>2. \A e \in Applied : e.seq <= CursorSeq /\ e.seq \in Nat
    BY <1>2 DEF Applied
  <2>3. fresh \cap Applied = {} /\ fresh \cap reducer.conflicts = {}
    <3>1. \A e \in reducer.pending : e.seq > CursorSeq + 1 /\ e.seq \in Nat
      BY <1>4 DEF IInv, ReducerInv, PendingBeyondGap, Fresh, Row
    <3> QED BY <3>1, <2>2, <1>2
            DEF Fresh, Seen, IInv, ReducerInv, RepeatsAreNoConflict
  <2>4. reducer'.pending \subseteq fresh
        /\ \A e \in reducer'.pending : e.seq > reached /\ e.seq \in Nat
    BY <1>1, <1>4 DEF Apply, Row
  <2>5. \A e \in reducer'.conflicts :
          e \in reducer.conflicts \/ (e \in fresh \ won /\ e.seq <= reached)
    BY <1>1 DEF Apply
  <2>6. won \subseteq fresh
    BY <1>1
  <2>7. reducer.conflicts \cap Applied = {}
    BY DEF IInv, ReducerInv, RepeatsAreNoConflict
  <2> QED BY <2>1, <2>3, <2>4, <2>5, <2>6, <2>7, <1>3 DEF RepeatsAreNoConflict
<1> QED
  BY <1>3, <1>6, <1>7, <1>8, <1>9, <1>10, <1>11, <1>12, <1>13
     DEF ReducerInv, CursorSeq

\* The system starts in the invariant.
LEMMA InitInv == Init => IInv
<1> SUFFICES ASSUME Init PROVE IInv
  OBVIOUS
<1>1. LogInv
  BY LogInitInv DEF Init
<1>2. ReducerInv
  BY DEF Init, ReducerInv, ReducerState, AppliedInOrder, Applied, PendingBeyondGap,
         RepeatsAreNoConflict
<1>3. ReplayInv
  BY DEF Init, ReplayInv, ReplayState, Idle
<1> QED BY <1>1, <1>2, <1>3 DEF Init, IInv

\* Steps of the log never take a row away from the reducer or from a page.
LEMMA LogStepKeepsClient ==
    ASSUME IInv, events \subseteq events', UNCHANGED <<reducer, replay>>
    PROVE  ReducerInv' /\ ReplayInv'
BY DEF IInv, ReducerInv, ReplayInv, AppliedInOrder, Applied, PendingBeyondGap,
       RepeatsAreNoConflict, CursorSeq

\* Every step of the system keeps the invariant.
LEMMA NextInv == IInv /\ [Next]_vars => IInv'
<1> SUFFICES ASSUME IInv, [Next]_vars PROVE IInv'
  OBVIOUS
<1>1. CASE LogNext /\ UNCHANGED <<yielded, reducer, replay>>
  <2>1. LogInv'
    BY <1>1, LogNextInv DEF IInv
  <2>2. events \subseteq events'
    BY <1>1 DEF LogNext, Draft, Commit, Abandon
  <2> QED BY <1>1, <2>1, <2>2, LogStepKeepsClient DEF IInv
<1>2. CASE ReceiveLive
  <2>1. PICK e \in RowsOf(LiveWriter) :
          /\ yielded' = e.n
          /\ IF e.n \in Unstreamed THEN UNCHANGED reducer ELSE Reduce({e})
          /\ UNCHANGED <<events, drafts, replay>>
    BY <1>2 DEF ReceiveLive
  <2>2. e \in events /\ yielded' \in Nat
    BY <2>1 DEF RowsOf, IInv, LogInv, LogTypeOK, Row
  <2>3. LogInv'
    BY <2>1, LogStutterInv DEF logVars, IInv
  <2>4. ReplayInv'
    BY <2>1 DEF IInv, ReplayInv
  <2>5. CASE e.n \in Unstreamed
    BY <2>1, <2>2, <2>3, <2>4, <2>5, LogStepKeepsClient DEF IInv
  <2>6. CASE e.n \notin Unstreamed
    BY <2>1, <2>2, <2>3, <2>4, <2>6, ReduceKeeps DEF IInv
  <2> QED BY <2>5, <2>6
<1>3. CASE AskReplay
  <2>1. LogInv'
    BY <1>3, LogStutterInv DEF AskReplay, logVars, IInv
  <2>2. CursorSeq \in Nat
    BY DEF IInv, ReducerInv, ReducerState, CursorSeq
  <2>3. ReplayInv'
    BY <1>3, <2>2 DEF AskReplay, ReplayInv, ReplayState, Asking, ReplayCursor
  <2>4. ReducerInv'
    BY <1>3 DEF AskReplay, IInv, ReducerInv, AppliedInOrder, Applied,
                PendingBeyondGap, RepeatsAreNoConflict, CursorSeq
  <2> QED BY <1>3, <2>1, <2>3, <2>4 DEF AskReplay, IInv
<1>4. CASE ReadPage
  <2>1. LogInv'
    BY <1>4, LogStutterInv DEF ReadPage, logVars, IInv
  <2>2. PICK page \in SUBSET events :
          replay' = [replay EXCEPT !.phase = "read", !.page = page,
                       !.cut = (page # {e \in events : e.seq > replay.after})]
    BY <1>4 DEF ReadPage
  <2>3. ReplayInv'
    BY <1>4, <2>2 DEF ReadPage, IInv, LogInv, LogTypeOK, ReplayInv, ReplayState
  <2>4. ReducerInv'
    BY <1>4 DEF ReadPage, IInv, ReducerInv, AppliedInOrder, Applied,
                PendingBeyondGap, RepeatsAreNoConflict, CursorSeq
  <2> QED BY <1>4, <2>1, <2>3, <2>4 DEF ReadPage, IInv
<1>5. CASE FinishPage
  <2>1. LogInv'
    BY <1>5, LogStutterInv DEF FinishPage, logVars, IInv
  <2>2. ReducerInv'
    BY <1>5, ReduceKeeps DEF FinishPage, IInv, ReplayInv
  <2>3. PICK m \in {replay.after} \cup {e.seq : e \in replay.page} :
          replay' \in {Asking(m), Idle}
    BY <1>5 DEF FinishPage
  <2>4. m \in Nat
    BY DEF IInv, LogInv, LogTypeOK, ReplayInv, ReplayState, Row
  <2>5. ReplayInv'
    <3>1. Idle \in ReplayState /\ Idle.page = {}
      BY DEF Idle, ReplayState
    <3>2. Asking(m) \in ReplayState /\ Asking(m).page = {}
      BY <2>4 DEF Asking, ReplayState
    <3>3. replay' \in ReplayState /\ replay'.page = {}
      BY <2>3, <3>1, <3>2
    <3>4. ReplayState' = ReplayState
      BY DEF ReplayState, Row
    <3> QED BY <3>3, <3>4 DEF ReplayInv
  <2> QED BY <1>5, <2>1, <2>2, <2>5 DEF FinishPage, IInv
<1>6. CASE UNCHANGED vars
  <2>1. LogInv'
    BY <1>6, LogStutterInv DEF vars, logVars, IInv
  <2> QED BY <1>6, <2>1, LogStepKeepsClient DEF vars, IInv
<1> QED BY <1>1, <1>2, <1>3, <1>4, <1>5, <1>6 DEF Next

\* The invariant holds in every reachable state.
THEOREM Invariance == Spec => []IInv
BY InitInv, NextInv, PTL DEF Spec

-----------------------------------------------------------------------------

\* Type correctness, for any number of threads and rows and any page limit.
THEOREM TypeCorrect == Spec => []TypeOK
<1>1. IInv => TypeOK
  BY DEF IInv, LogInv, ReducerInv, ReplayInv, TypeOK
<1> QED BY <1>1, Invariance, PTL

\* The log never keeps a hole below its highest number, whatever threads
\* abandon: a client that waits for a number is not waiting for ever.
THEOREM NoGap == Spec => []NoPermanentGap
<1>1. IInv => NoPermanentGap
  BY DEF IInv, LogInv
<1> QED BY <1>1, Invariance, PTL

\* The rows of one thread carry increasing numbers, however many threads race.
THEOREM WritersInOrder == Spec => []WriterOrder
<1>1. IInv => WriterOrder
  BY DEF IInv, LogInv
<1> QED BY <1>1, Invariance, PTL

\* The reducer applies committed rows only, exactly one per number, holds back
\* no row it could apply and takes no repetition for a conflict.
THEOREM AppliedOncePerNumber ==
    Spec => [](AppliedInOrder /\ PendingBeyondGap /\ RepeatsAreNoConflict)
<1>1. IInv => AppliedInOrder /\ PendingBeyondGap /\ RepeatsAreNoConflict
  BY DEF IInv, ReducerInv
<1> QED BY <1>1, Invariance, PTL

\* A committed row below the cursor that the client did not apply has a twin of
\* another thread under its number.
LEMMA SkippedHasTwin == IInv => OnlyTwinsAreSkipped
<1> SUFFICES ASSUME IInv, NEW e \in events, e.seq <= CursorSeq, e \notin Applied
             PROVE  reducer.applied[e.seq].writer # e.writer
  BY DEF OnlyTwinsAreSkipped
<1>1. e.seq \in 1..CursorSeq
  BY DEF IInv, LogInv, LogTypeOK, Row, ReducerInv, ReducerState, CursorSeq
<1>2. DOMAIN reducer.applied = 1..CursorSeq
  BY DEF IInv, ReducerInv, ReducerState, CursorSeq
<1> DEFINE f == reducer.applied[e.seq]
<1>3. f \in Applied /\ f \in events /\ f.seq = e.seq
  BY <1>1, <1>2 DEF IInv, ReducerInv, AppliedInOrder, Applied
<1>4. f # e
  BY <1>3
<1>5. SUFFICES ASSUME f.writer = e.writer PROVE FALSE
  OBVIOUS
<1>6. f.n # e.n
  BY <1>3, <1>4, <1>5 DEF IInv, LogInv
<1>7. f.n \in Nat /\ e.n \in Nat /\ f.seq \in Nat
  BY <1>3 DEF IInv, LogInv, LogTypeOK, Row
<1>8. f.n < e.n \/ e.n < f.n
  BY <1>6, <1>7
<1> QED BY <1>3, <1>5, <1>7, <1>8 DEF IInv, LogInv, WriterOrder

\* Nothing but a row that shares its number is ever skipped.
THEOREM TwinsOnly == Spec => []OnlyTwinsAreSkipped
BY SkippedHasTwin, Invariance, PTL

\* When one thread at a time writes in the session, the contract holds to the
\* letter: the client misses no row below its cursor.
THEOREM SingleWriterMissesNothing ==
    ASSUME \A v, w \in Writers : v = w
    PROVE  Spec => []EveryEventReturned
<1>1. IInv => EveryEventReturned
  <2> SUFFICES ASSUME IInv, NEW e \in events, e.seq <= CursorSeq, e \notin Applied
               PROVE  FALSE
    BY DEF EveryEventReturned, Seen
  <2>1. reducer.applied[e.seq].writer # e.writer
    BY SkippedHasTwin DEF OnlyTwinsAreSkipped
  <2>2. e.seq \in DOMAIN reducer.applied
    BY DEF IInv, LogInv, LogTypeOK, Row, ReducerInv, ReducerState, CursorSeq
  <2>3. reducer.applied[e.seq] \in events
    BY <2>2 DEF IInv, ReducerInv, AppliedInOrder, Applied
  <2> QED BY <2>1, <2>3 DEF IInv, LogInv, LogTypeOK, Row
<1> QED BY <1>1, Invariance, PTL

-----------------------------------------------------------------------------

\* A committed row is published under a number that leaves no hole.
LEMMA CommitPublishes ==
    ASSUME IInv, NEW w \in Writers, Commit(w), UNCHANGED reducer
    PROVE  Promise!Publish \/ UNCHANGED <<events, reducer.applied>>
<1>1. PICK d \in drafts[w] : drafts[w] = {d}
  BY DEF Commit, IInv, LogInv, LogTypeOK
<1>2. events' = events \cup {d}
  BY <1>1 DEF Commit
<1>3. /\ d.seq \in Nat \ {0}
      /\ \A k \in 1..(d.seq - 1) : \E f \in events : f.seq = k
  BY <1>1 DEF IInv, LogInv, LogTypeOK, DraftContinues, Row
<1>4. CASE d \in events
  BY <1>2, <1>4
<1>5. CASE d \notin events
  <2>1. d \in events' \ events
    BY <1>2, <1>5
  <2> QED BY <1>2, <1>3, <2>1 DEF Promise!Publish
<1> QED BY <1>4, <1>5

\* A call of the reducer delivers more rows, in order, or none.
LEMMA ReduceDelivers ==
    ASSUME IInv, NEW batch \in SUBSET events, events' = events, Reduce(batch)
    PROVE  Promise!Deliver \/ UNCHANGED <<events, reducer.applied>>
<1> DEFINE old == reducer.applied
           new == reducer'.applied
<1>1. /\ ReducerInv'
      /\ Len(new) >= Len(old)
      /\ \A i \in 1..Len(old) : new[i] = old[i]
  BY ReduceKeeps
<1>2. old \in Seq(Row) /\ new \in Seq(Row)
  <2>1. Row' = Row
    BY DEF Row
  <2> QED BY <1>1, <2>1 DEF IInv, ReducerInv, ReducerState
<1>3. /\ DOMAIN old = 1..Len(old) /\ Len(old) \in Nat
      /\ DOMAIN new = 1..Len(new) /\ Len(new) \in Nat
  BY <1>2
<1>4. \A i \in 1..Len(new) : new[i] \in events /\ new[i].seq = i
  BY <1>1, <1>3 DEF ReducerInv, AppliedInOrder, Applied
<1>5. new \in [1..Len(new) -> events]
  BY <1>2, <1>3, <1>4
<1>6. new \in Seq(events)
  BY <1>3, <1>5, FunctionIsSeq
<1>7. CASE Len(new) = Len(old)
  BY <1>1, <1>2, <1>7
<1>8. CASE Len(old) < Len(new)
  BY <1>1, <1>4, <1>6, <1>8 DEF Promise!Deliver
<1> QED BY <1>1, <1>3, <1>7, <1>8

\* Every step is a step of the promise or leaves its variables alone.
LEMMA StepKeepsPromise ==
    IInv /\ [Next]_vars => [Promise!Next]_<<events, reducer.applied>>
<1> SUFFICES ASSUME IInv, [Next]_vars
             PROVE  Promise!Next \/ UNCHANGED <<events, reducer.applied>>
  OBVIOUS
<1>1. CASE LogNext /\ UNCHANGED <<yielded, reducer, replay>>
  <2>1. PICK w \in Writers : Draft(w) \/ Commit(w) \/ Abandon(w)
    BY <1>1 DEF LogNext
  <2>2. CASE Commit(w)
    BY <1>1, <2>2, CommitPublishes DEF Promise!Next
  <2>3. CASE Draft(w) \/ Abandon(w)
    BY <1>1, <2>3 DEF Draft, Abandon
  <2> QED BY <2>1, <2>2, <2>3
<1>2. CASE ReceiveLive
  <2>1. PICK e \in events :
          /\ IF e.n \in Unstreamed THEN UNCHANGED reducer ELSE Reduce({e})
          /\ events' = events
    BY <1>2 DEF ReceiveLive, RowsOf
  <2>2. UNCHANGED reducer \/ Reduce({e})
    BY <2>1
  <2> QED BY <2>1, <2>2, ReduceDelivers DEF Promise!Next
<1>3. CASE AskReplay \/ ReadPage \/ UNCHANGED vars
  BY <1>3 DEF AskReplay, ReadPage, vars
<1>4. CASE FinishPage
  BY <1>4, ReduceDelivers DEF FinishPage, Promise!Next, IInv, ReplayInv
<1> QED BY <1>1, <1>2, <1>3, <1>4 DEF Next

\* The log and the reducer implement the promise of the contract, for any number
\* of threads, rows, and any page limit.
THEOREM Implementation == Spec => ImplementsPromise
<1>1. Init => Promise!Init
  BY DEF Init, LogInit, Promise!Init
<1> QED
  BY <1>1, Invariance, StepKeepsPromise, PTL
     DEF Spec, ImplementsPromise, Promise!Spec

-----------------------------------------------------------------------------

\* Why a page can be trusted: it covers every number from its cursor on, and its
\* cursor is never ahead of what the client has applied.
PageInv ==
    /\ \A e \in reducer.conflicts : e.seq <= CursorSeq
    /\ replay.phase # "idle" => replay.after <= CursorSeq
    /\ \A e \in replay.page : \A k \in (replay.after + 1)..e.seq :
         \E f \in replay.page : f.seq = k

\* After the reducer has folded a page, the client has applied every number on it.
LEMMA PageIsApplied ==
    ASSUME IInv, PageInv, replay.phase = "read", UNCHANGED events,
           Reduce(replay.page), NEW e \in replay.page
    PROVE  e.seq <= CursorSeq'
<1> DEFINE fresh == Fresh(replay.page)
<1>0. PICK reached \in CursorSeq..(CursorSeq + Cardinality(fresh)) :
        /\ StopsAt(fresh, reached)
        /\ \E next \in NextRows(fresh, reached) : Apply(fresh, reached, next)
  BY DEF Reduce
<1>1. PICK next \in [(CursorSeq + 1)..reached -> fresh] :
        /\ \A k \in DOMAIN next : next[k].seq = k
        /\ Apply(fresh, reached, next)
  BY <1>0 DEF NextRows
<1>2. CursorSeq \in Nat /\ DOMAIN reducer.applied = 1..CursorSeq
  BY DEF IInv, ReducerInv, ReducerState, CursorSeq
<1>3. CursorSeq' = reached
  <2>1. reached \in Nat
    BY <1>2
  <2>2. /\ reducer'.applied \in Seq(Row)
        /\ DOMAIN reducer'.applied = 1..reached
    <3>1. Row' = Row
      BY DEF Row
    <3> QED
      BY <1>1, <3>1, ReduceKeeps
         DEF Apply, ReducerInv, ReducerState, IInv, ReplayInv
  <2> QED BY <2>1, <2>2 DEF CursorSeq
<1>4. SUFFICES ASSUME e.seq > reached PROVE FALSE
  BY <1>1, <1>2, <1>3 DEF IInv, LogInv, LogTypeOK, ReplayInv, Row
<1>5. e.seq \in Nat /\ replay.after \in Nat
  BY DEF IInv, LogInv, LogTypeOK, ReplayInv, ReplayState, Row
<1>6. reached + 1 \in (replay.after + 1)..e.seq
  BY <1>1, <1>2, <1>4, <1>5 DEF PageInv
<1>7. PICK f \in replay.page : f.seq = reached + 1
  BY <1>6 DEF PageInv
<1>8. f \in Seen /\ f \notin reducer.pending
  BY <1>0, <1>7 DEF Fresh, StopsAt
<1>9. CASE f \in Applied
  BY <1>9, <1>1, <1>2, <1>7 DEF Applied, IInv, ReducerInv, AppliedInOrder
<1>10. CASE f \in reducer.conflicts
  BY <1>10, <1>1, <1>2, <1>7 DEF PageInv
<1> QED BY <1>8, <1>9, <1>10 DEF Seen

\* A call of the reducer leaves every rejected row at or below the cursor.
LEMMA ReduceRejectsBelow ==
    ASSUME IInv, PageInv, NEW batch \in SUBSET events, UNCHANGED events,
           Reduce(batch)
    PROVE  /\ \A e \in reducer'.conflicts : e.seq <= CursorSeq'
           /\ CursorSeq \in Nat /\ CursorSeq' \in Nat /\ CursorSeq <= CursorSeq'
<1>1. /\ ReducerInv'
      /\ Len(reducer.applied) <= Len(reducer'.applied)
  BY ReduceKeeps
<1>2. CursorSeq \in Nat /\ CursorSeq' \in Nat /\ CursorSeq <= CursorSeq'
  <2>1. Row' = Row
    BY DEF Row
  <2> QED BY <1>1, <2>1 DEF CursorSeq, ReducerInv, ReducerState, IInv
<1> DEFINE fresh == Fresh(batch)
<1>2a. PICK reached \in CursorSeq..(CursorSeq + Cardinality(fresh)) :
        /\ StopsAt(fresh, reached)
        /\ \E next \in NextRows(fresh, reached) : Apply(fresh, reached, next)
  BY DEF Reduce
<1>3. PICK next \in [(CursorSeq + 1)..reached -> fresh] :
        /\ \A k \in DOMAIN next : next[k].seq = k
        /\ Apply(fresh, reached, next)
  BY <1>2a DEF NextRows
<1>4. CursorSeq' = reached
  <2>1. Row' = Row /\ reached \in Nat
    BY <1>2 DEF Row
  <2>2. reducer'.applied \in Seq(Row) /\ DOMAIN reducer'.applied = 1..reached
    BY <1>1, <1>3, <2>1 DEF Apply, ReducerInv, ReducerState
  <2> QED BY <2>1, <2>2 DEF CursorSeq
<1>5. \A e \in reducer.conflicts : e.seq <= CursorSeq /\ e.seq \in Nat
  BY DEF PageInv, IInv, LogInv, LogTypeOK, ReducerInv, Row
<1>6. \A e \in reducer'.conflicts \ reducer.conflicts : e.seq <= reached
  BY <1>3 DEF Apply
<1> QED BY <1>2, <1>4, <1>5, <1>6

\* The page invariant holds initially and is kept by every step.
LEMMA PageInitInv == Init => PageInv
BY DEF Init, PageInv, Idle

LEMMA PageNextInv == IInv /\ PageInv /\ [Next]_vars => PageInv'
<1> SUFFICES ASSUME IInv, PageInv, [Next]_vars PROVE PageInv'
  OBVIOUS
<1>1. CASE UNCHANGED <<reducer, replay>>
  BY <1>1 DEF PageInv, CursorSeq
<1>2. CASE ReceiveLive
  <2>1. PICK e \in events :
          /\ UNCHANGED reducer \/ Reduce({e})
          /\ UNCHANGED <<events, replay>>
    BY <1>2 DEF ReceiveLive, RowsOf
  <2>2. CASE Reduce({e})
    <3>1. /\ \A x \in reducer'.conflicts : x.seq <= CursorSeq'
          /\ CursorSeq \in Nat /\ CursorSeq' \in Nat /\ CursorSeq <= CursorSeq'
      BY <2>1, <2>2, ReduceRejectsBelow
    <3>2. replay'.phase # "idle" => replay'.after <= CursorSeq'
      BY <2>1, <3>1 DEF PageInv, IInv, ReplayInv, ReplayState
    <3> QED BY <2>1, <3>1, <3>2 DEF PageInv
  <2> QED BY <2>1, <2>2, <1>1
<1>3. CASE AskReplay
  <2>1. CursorSeq \in Nat
    BY DEF IInv, ReducerInv, ReducerState, CursorSeq
  <2> QED BY <1>3, <2>1 DEF AskReplay, Asking, ReplayCursor, PageInv, CursorSeq
<1>4. CASE ReadPage
  <2> DEFINE rest == {e \in events : e.seq > replay.after}
  <2>1. PICK page \in SUBSET rest :
          /\ \A e \in page, f \in rest \ page : e.seq <= f.seq
          /\ replay' = [replay EXCEPT !.phase = "read", !.page = page,
                                      !.cut = (page # rest)]
    BY <1>4 DEF ReadPage, LowestOf
  <2>2. replay'.page = page /\ replay'.after = replay.after
    BY <2>1 DEF IInv, ReplayInv, ReplayState
  <2>3. ASSUME NEW e \in page, NEW k \in (replay.after + 1)..e.seq
        PROVE  \E f \in page : f.seq = k
    <3>1. e \in events /\ e.seq \in Nat /\ replay.after \in Nat /\ k \in 1..e.seq
      BY DEF IInv, LogInv, LogTypeOK, ReplayInv, ReplayState, Row
    <3>2. PICK f \in events : f.seq = k
      BY <3>1 DEF IInv, LogInv, NoPermanentGap
    <3>3. f \in rest
      BY <3>1, <3>2
    <3>4. CASE f \in page
      BY <3>2, <3>4
    <3>5. CASE f \notin page
      BY <2>1, <3>1, <3>2, <3>3, <3>5
    <3> QED BY <3>4, <3>5
  <2> QED BY <1>4, <2>2, <2>3 DEF ReadPage, PageInv, CursorSeq
<1>5. CASE FinishPage
  <2>1. /\ replay.phase = "read" /\ Reduce(replay.page) /\ UNCHANGED events
        /\ replay.page \subseteq events
    BY <1>5 DEF FinishPage, IInv, ReplayInv
  <2>2. PICK m \in {replay.after} \cup {e.seq : e \in replay.page} :
          replay' \in {Asking(m), Idle}
    BY <1>5 DEF FinishPage
  <2>3. /\ \A x \in reducer'.conflicts : x.seq <= CursorSeq'
        /\ CursorSeq \in Nat /\ CursorSeq' \in Nat /\ CursorSeq <= CursorSeq'
    BY <2>1, ReduceRejectsBelow
  <2>4. replay.after <= CursorSeq /\ replay.after \in Nat
    BY <2>1 DEF PageInv, IInv, ReplayInv, ReplayState
  <2>5. m <= CursorSeq'
    BY <2>1, <2>2, <2>3, <2>4, PageIsApplied
  <2>6. replay'.page = {} /\ (replay'.phase # "idle" => replay'.after = m)
    BY <2>2 DEF Asking, Idle
  <2> QED BY <2>3, <2>5, <2>6 DEF PageInv
<1> QED
  BY <1>1, <1>2, <1>3, <1>4, <1>5 DEF Next, vars

\* When has_more turns false the client has applied everything up to the latest
\* number of that moment.
LEMMA LastPageIsLatest ==
    ASSUME IInv, PageInv, [Next]_vars,
           replay.phase = "read", replay'.phase = "idle"
    PROVE  IsLatestSeq(Len(reducer'.applied))
<1>1. FinishPage
  BY DEF Next, vars, LogNext, ReceiveLive, AskReplay, ReadPage
<1>2. /\ Reduce(replay.page) /\ UNCHANGED events /\ replay.page \subseteq events
  BY <1>1 DEF FinishPage, IInv, ReplayInv
<1>3. PICK m \in {replay.after} \cup {e.seq : e \in replay.page} :
        replay' = IF HasMore(m) THEN Asking(m) ELSE Idle
  BY <1>1 DEF FinishPage
<1>4. ~ \E e \in events : m < e.seq
  BY <1>3 DEF Asking, HasMore, KnownSeqs
<1>5. m <= CursorSeq' /\ m \in Nat /\ CursorSeq' \in Nat
  <2>1. /\ CursorSeq \in Nat /\ CursorSeq' \in Nat /\ CursorSeq <= CursorSeq'
    BY <1>2, ReduceRejectsBelow
  <2>2. replay.after <= CursorSeq /\ replay.after \in Nat
    BY DEF PageInv, IInv, ReplayInv, ReplayState
  <2>3. \A e \in replay.page : e.seq <= CursorSeq' /\ e.seq \in Nat
    BY <1>2, PageIsApplied DEF IInv, LogInv, LogTypeOK, Row
  <2> QED BY <1>3, <2>1, <2>2, <2>3
<1>6. \A e \in events : e.seq <= CursorSeq' /\ e.seq >= 1 /\ e.seq \in Nat
  BY <1>4, <1>5 DEF IInv, LogInv, LogTypeOK, Row
<1>7. CursorSeq' = 0 => events = {}
  BY <1>6
<1>8. CursorSeq' > 0 => \E e \in events : e.seq = CursorSeq'
  <2> SUFFICES ASSUME CursorSeq' > 0
               PROVE  \E e \in events : e.seq = CursorSeq'
    OBVIOUS
  <2>1. ReducerInv'
    BY <1>2, ReduceKeeps
  <2>2. CursorSeq' \in DOMAIN reducer'.applied
    <3>1. reducer'.applied \in Seq(Row')
      BY <2>1 DEF ReducerInv, ReducerState
    <3> QED BY <3>1, <1>5 DEF CursorSeq
  <2> QED BY <1>2, <2>1, <2>2 DEF ReducerInv, AppliedInOrder, Applied
<1> QED BY <1>5, <1>6, <1>7, <1>8 DEF IsLatestSeq, KnownSeqs, CursorSeq

\* The pagination of the replay endpoint never loses a number, although the page
\* and the latest seq are read by two queries and the live stream runs beside it.
THEOREM ReplayComplete == Spec => ReplayReachesLatest
<1>1. IInv /\ PageInv /\ [Next]_vars =>
        [replay.phase = "read" /\ replay'.phase = "idle"
            => IsLatestSeq(Len(reducer'.applied))]_vars
  BY LastPageIsLatest
<1>2. Spec => []PageInv
  BY Invariance, PageInitInv, PageNextInv, PTL DEF Spec
<1> QED BY <1>1, <1>2, Invariance, PTL DEF Spec, ReplayReachesLatest

\* Log and client are sound for any finite set of threads, any number of rows and
\* any page limit: numbers without a gap, one row applied per number, in order,
\* and nothing passed over but a twin (repositories.add_event, reduce_stream_events).
THEOREM StreamSound == Spec => []StreamIsSound
BY TypeCorrect, NoGap, WritersInOrder, AppliedOncePerNumber, TwinsOnly, PTL DEF StreamIsSound

-----------------------------------------------------------------------------
(* The loop of the reference reducer *)

\* The state between two calls: the applied rows sit under their numbers, the
\* rows held back lie beyond the next number, and every row is somewhere.
StateOK ==
    /\ reducer \in [applied : Seq(Rows), pending : SUBSET Rows, conflicts : SUBSET Rows]
    /\ \A k \in 1..CursorSeq : reducer.applied[k].seq = k
    /\ \A e \in reducer.pending : e.seq > CursorSeq + 1
    /\ \A e \in reducer.conflicts : e.seq <= CursorSeq
    /\ arrived \in SUBSET Rows /\ arrived = Seen
    /\ missing = MissingRanges(CursorSeq + 1, {e.seq : e \in reducer.pending})

Locals ==
    [at : {"loop"}, batch : SUBSET Rows, rest : SUBSET Rows, expected : Nat,
     applied : Seq(Rows), pending : SUBSET Rows, conflicts : SUBSET Rows]

\* The rows of the call that have been handled.
Handled == Fresh(loop.batch) \ loop.rest

\* The rows this call has applied.
AppliedNow == {loop.applied[k] : k \in (CursorSeq + 1)..(loop.expected - 1)}

\* The call in progress: what was handled has its place, and nothing that is left
\* comes before a row held back.
CallOK ==
    loop.at = "loop" =>
      /\ loop \in Locals
      /\ loop.rest \subseteq Fresh(loop.batch)
      /\ Len(loop.applied) = loop.expected - 1 /\ loop.expected >= CursorSeq + 1
      /\ \A k \in 1..CursorSeq : loop.applied[k] = reducer.applied[k]
      /\ \A k \in (CursorSeq + 1)..(loop.expected - 1) :
           loop.applied[k] \in Handled /\ loop.applied[k].seq = k
      /\ \A e \in Handled : e.seq # loop.expected
      /\ loop.pending = {e \in Handled : e.seq >= loop.expected}
      /\ \A p \in loop.pending : \A e \in loop.rest : e.seq >= p.seq
      /\ loop.conflicts = reducer.conflicts
                            \cup {e \in Handled \ AppliedNow : e.seq < loop.expected}

LoopInv == StateOK /\ CallOK /\ (loop.at # "loop" => loop = Returned)

-----------------------------------------------------------------------------

\* Rows have natural numbers.
LEMMA RowNumbers == \A e \in Rows : e.seq \in Nat /\ e.id \in Nat
BY RowsAreRows

\* What is fresh are rows.
LEMMA FreshRows ==
    ASSUME StateOK, NEW batch \in SUBSET Rows
    PROVE  Fresh(batch) \in SUBSET Rows /\ IsFiniteSet(Fresh(batch))
<1>1. Fresh(batch) \in SUBSET Rows
  BY DEF StateOK, Fresh
<1> QED BY <1>1, RowsAreRows, FS_Subset

\* Before the first row nothing was met.
LEMMA LoopInvAtStart == LoopInit => LoopInv
<1> SUFFICES ASSUME LoopInit PROVE LoopInv
  OBVIOUS
<1>1. reducer = [applied |-> <<>>, pending |-> {}, conflicts |-> {}] /\ CursorSeq = 0
  BY DEF LoopInit, CursorSeq
<1>2. Seen = {} /\ {e.seq : e \in reducer.pending} = {}
  BY <1>1 DEF Seen, Applied
<1>3. StateOK
  BY <1>1, <1>2 DEF StateOK, LoopInit, MissingRanges
<1> QED BY <1>3 DEF LoopInv, CallOK, LoopInit, Returned

\* A call begins with everything to be handled.
LEMMA CallKeeps ==
    ASSUME LoopInv, NEW batch \in SUBSET Rows, Call(batch)
    PROVE  LoopInv'
<1>1. /\ loop' = [at |-> "loop", batch |-> batch, rest |-> Fresh(batch),
                  expected |-> CursorSeq + 1, applied |-> reducer.applied,
                  pending |-> {}, conflicts |-> reducer.conflicts]
      /\ UNCHANGED <<reducer, missing, arrived>>
  BY DEF Call
<1>2. CursorSeq' = CursorSeq /\ Seen' = Seen /\ CursorSeq \in Nat
  BY <1>1 DEF CursorSeq, Seen, Applied, LoopInv, StateOK
<1>3. Fresh(batch)' = Fresh(batch) /\ Fresh(batch) \in SUBSET Rows
  BY <1>1, <1>2, FreshRows DEF Fresh, LoopInv
<1>4. StateOK'
  BY <1>1, <1>2 DEF LoopInv, StateOK, MissingRanges
<1>5. Handled' = {}
  BY <1>1, <1>3 DEF Handled
<1>6. loop' \in Locals
  BY <1>1, <1>2, <1>3 DEF Locals, LoopInv, StateOK
<1>7. CallOK'
  BY <1>1, <1>2, <1>3, <1>5, <1>6 DEF CallOK, CursorSeq
<1> QED BY <1>1, <1>4, <1>7 DEF LoopInv

\* One row of the call is handled: what changes beside the call's own result.
LEMMA RowHandled ==
    ASSUME LoopInv, NEW row \in loop.rest, IsNext(row), loop.at = "loop",
           loop' = [loop EXCEPT !.rest = @ \ {row}, !.applied = loop'.applied,
                                !.expected = loop'.expected, !.pending = loop'.pending,
                                !.conflicts = loop'.conflicts],
           UNCHANGED <<reducer, missing, arrived>>
    PROVE  /\ StateOK' /\ CursorSeq' = CursorSeq /\ CursorSeq \in Nat
           /\ Fresh(loop.batch)' = Fresh(loop.batch) /\ loop'.batch = loop.batch
           /\ Handled' = Handled \cup {row} /\ row \notin Handled /\ row \in Rows
           /\ loop'.rest = loop.rest \ {row} /\ loop'.at = "loop"
           /\ \A e \in loop'.rest : e.seq >= row.seq
<1>1. loop \in Locals /\ loop.rest \subseteq Fresh(loop.batch)
  BY DEF LoopInv, CallOK
<1>2. CursorSeq' = CursorSeq /\ Seen' = Seen /\ CursorSeq \in Nat
  BY DEF CursorSeq, Seen, Applied, LoopInv, StateOK
<1>3. StateOK'
  BY <1>2 DEF LoopInv, StateOK, MissingRanges
<1>4. loop'.rest = loop.rest \ {row} /\ loop'.batch = loop.batch /\ loop'.at = "loop"
  BY <1>1 DEF Locals
<1>5. Fresh(loop.batch)' = Fresh(loop.batch)
  BY <1>2, <1>4 DEF Fresh
<1>6. Handled' = Handled \cup {row} /\ row \notin Handled /\ row \in Rows
  BY <1>1, <1>4, <1>5 DEF Handled, Locals
<1>7. ASSUME NEW e \in loop'.rest PROVE e.seq >= row.seq
  <2>1. e \in loop.rest /\ e \in Rows
    BY <1>1, <1>4 DEF Locals
  <2> QED BY <2>1, <1>6, RowNumbers DEF IsNext, Before
<1> QED BY <1>2, <1>3, <1>4, <1>5, <1>6, <1>7

\* A row whose number is taken is a conflict.
LEMMA NoteConflictKeeps ==
    ASSUME LoopInv, NEW row \in loop.rest, NoteConflict(row), loop.at = "loop"
    PROVE  LoopInv'
<1>1. /\ loop \in Locals /\ IsNext(row) /\ row.seq < loop.expected
      /\ loop' = [loop EXCEPT !.rest = @ \ {row}, !.conflicts = @ \cup {row}]
      /\ UNCHANGED <<reducer, missing, arrived>>
  BY DEF NoteConflict, LoopInv, CallOK
<1>2. /\ loop'.applied = loop.applied /\ loop'.expected = loop.expected
      /\ loop'.pending = loop.pending /\ loop'.conflicts = loop.conflicts \cup {row}
  BY <1>1 DEF Locals
<1>3. loop' = [loop EXCEPT !.rest = @ \ {row}, !.applied = loop'.applied,
                           !.expected = loop'.expected, !.pending = loop'.pending,
                           !.conflicts = loop'.conflicts]
  BY <1>1, <1>2 DEF Locals
<1>4. /\ StateOK' /\ CursorSeq' = CursorSeq /\ CursorSeq \in Nat
      /\ Fresh(loop.batch)' = Fresh(loop.batch) /\ loop'.batch = loop.batch
      /\ Handled' = Handled \cup {row} /\ row \notin Handled /\ row \in Rows
      /\ loop'.rest = loop.rest \ {row} /\ loop'.at = "loop"
  BY <1>1, <1>3, RowHandled
<1>5. AppliedNow' = AppliedNow /\ row \notin AppliedNow
  BY <1>2, <1>4 DEF AppliedNow, LoopInv, CallOK
<1>6. loop' \in Locals
  BY <1>1, <1>4 DEF Locals
<1>7. loop'.conflicts = reducer'.conflicts
                          \cup {e \in Handled' \ AppliedNow' : e.seq < loop'.expected}
  BY <1>1, <1>2, <1>4, <1>5 DEF LoopInv, CallOK
<1>8. loop'.pending = {e \in Handled' : e.seq >= loop'.expected}
  BY <1>1, <1>2, <1>4, RowNumbers DEF LoopInv, CallOK, Locals
<1>9. \A e \in Handled' : e.seq # loop'.expected
  BY <1>1, <1>2, <1>4, RowNumbers DEF LoopInv, CallOK, Locals
<1>10. CallOK'
  BY <1>1, <1>2, <1>4, <1>6, <1>7, <1>8, <1>9 DEF LoopInv, CallOK
<1> QED BY <1>4, <1>10 DEF LoopInv

\* A row beyond the next number is held back, and the rest comes after it.
LEMMA HoldRowKeeps ==
    ASSUME LoopInv, NEW row \in loop.rest, HoldRow(row), loop.at = "loop"
    PROVE  LoopInv'
<1>1. /\ loop \in Locals /\ IsNext(row) /\ row.seq > loop.expected
      /\ loop' = [loop EXCEPT !.rest = @ \ {row}, !.pending = @ \cup {row}]
      /\ UNCHANGED <<reducer, missing, arrived>>
  BY DEF HoldRow, Hold, LoopInv, CallOK
<1>2. /\ loop'.applied = loop.applied /\ loop'.expected = loop.expected
      /\ loop'.pending = loop.pending \cup {row} /\ loop'.conflicts = loop.conflicts
  BY <1>1 DEF Locals
<1>3. loop' = [loop EXCEPT !.rest = @ \ {row}, !.applied = loop'.applied,
                           !.expected = loop'.expected, !.pending = loop'.pending,
                           !.conflicts = loop'.conflicts]
  BY <1>1, <1>2 DEF Locals
<1>4. /\ StateOK' /\ CursorSeq' = CursorSeq /\ CursorSeq \in Nat
      /\ Fresh(loop.batch)' = Fresh(loop.batch) /\ loop'.batch = loop.batch
      /\ Handled' = Handled \cup {row} /\ row \notin Handled /\ row \in Rows
      /\ loop'.rest = loop.rest \ {row} /\ loop'.at = "loop"
      /\ \A e \in loop'.rest : e.seq >= row.seq
  BY <1>1, <1>3, RowHandled
<1>5. AppliedNow' = AppliedNow
  BY <1>2, <1>4 DEF AppliedNow
<1>6. loop' \in Locals
  BY <1>1, <1>4 DEF Locals
<1>7. loop'.conflicts = reducer'.conflicts
                          \cup {e \in Handled' \ AppliedNow' : e.seq < loop'.expected}
  BY <1>1, <1>2, <1>4, <1>5, RowNumbers DEF LoopInv, CallOK, Locals
<1>8. loop'.pending = {e \in Handled' : e.seq >= loop'.expected}
  BY <1>1, <1>2, <1>4, RowNumbers DEF LoopInv, CallOK, Locals
<1>9. \A e \in Handled' : e.seq # loop'.expected
  BY <1>1, <1>2, <1>4, RowNumbers DEF LoopInv, CallOK, Locals
<1>10. \A p \in loop'.pending : \A e \in loop'.rest : e.seq >= p.seq
  BY <1>2, <1>4 DEF LoopInv, CallOK
<1>11. CallOK'
  BY <1>1, <1>2, <1>4, <1>6, <1>7, <1>8, <1>9, <1>10 DEF LoopInv, CallOK
<1> QED BY <1>4, <1>11 DEF LoopInv

\* The row with the next number is applied: nothing was held back before it.
LEMMA ApplyRowKeeps ==
    ASSUME LoopInv, NEW row \in loop.rest, ApplyRow(row), loop.at = "loop"
    PROVE  LoopInv'
<1>1. /\ loop \in Locals /\ IsNext(row) /\ row.seq = loop.expected
      /\ loop' = [loop EXCEPT !.rest = @ \ {row}, !.applied = Append(@, row), !.expected = @ + 1]
      /\ UNCHANGED <<reducer, missing, arrived>>
  BY DEF ApplyRow, LoopInv, CallOK
<1>2. /\ loop'.applied = Append(loop.applied, row) /\ loop'.expected = loop.expected + 1
      /\ loop'.pending = loop.pending /\ loop'.conflicts = loop.conflicts
  BY <1>1 DEF Locals
<1>3. loop' = [loop EXCEPT !.rest = @ \ {row}, !.applied = loop'.applied,
                           !.expected = loop'.expected, !.pending = loop'.pending,
                           !.conflicts = loop'.conflicts]
  BY <1>1, <1>2 DEF Locals
<1>4. /\ StateOK' /\ CursorSeq' = CursorSeq /\ CursorSeq \in Nat
      /\ Fresh(loop.batch)' = Fresh(loop.batch) /\ loop'.batch = loop.batch
      /\ Handled' = Handled \cup {row} /\ row \notin Handled /\ row \in Rows
      /\ loop'.rest = loop.rest \ {row} /\ loop'.at = "loop"
  BY <1>1, <1>3, RowHandled
<1>5. Handled \subseteq Rows /\ Len(loop.applied) = loop.expected - 1 /\ loop.expected \in Nat
  <2>1. loop.batch \in SUBSET Rows /\ loop.expected \in Nat
    BY <1>1 DEF Locals
  <2>2. Fresh(loop.batch) \in SUBSET Rows
    BY <2>1, FreshRows DEF LoopInv
  <2> QED BY <2>1, <2>2 DEF Handled, LoopInv, CallOK
<1>6. \A e \in Handled : e.seq < loop.expected
  <2> SUFFICES ASSUME NEW e \in Handled, ~(e.seq < loop.expected) PROVE FALSE
    OBVIOUS
  <2>1. e.seq \in Nat /\ e.seq # loop.expected
    BY <1>5, RowNumbers DEF LoopInv, CallOK
  <2>2. e \in loop.pending
    BY <1>5, <2>1 DEF LoopInv, CallOK
  <2>3. row.seq >= e.seq
    BY <2>2 DEF LoopInv, CallOK
  <2> QED BY <1>1, <1>5, <2>1, <2>3
<1>7. loop.applied \in Seq(Rows) /\ loop'.applied \in Seq(Rows)
  BY <1>1, <1>2, <1>4 DEF Locals
<1>8. /\ Len(loop'.applied) = loop'.expected - 1
      /\ \A k \in 1..(loop.expected - 1) : loop'.applied[k] = loop.applied[k]
      /\ loop'.applied[loop.expected] = row
  BY <1>2, <1>4, <1>5, <1>7
<1>9. /\ loop'.expected >= CursorSeq' + 1
      /\ \A k \in 1..CursorSeq' : loop'.applied[k] = reducer'.applied[k]
      /\ \A k \in (CursorSeq' + 1)..(loop'.expected - 1) :
           loop'.applied[k] \in Handled' /\ loop'.applied[k].seq = k
  <2>1. loop.expected >= CursorSeq + 1 /\ \A k \in 1..CursorSeq : loop.applied[k] = reducer.applied[k]
    BY DEF LoopInv, CallOK
  <2>2. \A k \in (CursorSeq + 1)..(loop.expected - 1) :
           loop.applied[k] \in Handled /\ loop.applied[k].seq = k
    BY DEF LoopInv, CallOK
  <2>3. \A k \in 1..CursorSeq : loop'.applied[k] = reducer'.applied[k]
    BY <1>1, <1>4, <1>5, <1>8, <2>1
  <2>4. ASSUME NEW k \in (CursorSeq + 1)..loop.expected
        PROVE  loop'.applied[k] \in Handled' /\ loop'.applied[k].seq = k
    <3>1. CASE k = loop.expected
      BY <1>1, <1>4, <1>8, <3>1
    <3>2. CASE k # loop.expected
      BY <1>4, <1>5, <1>8, <2>2, <3>2
    <3> QED BY <3>1, <3>2
  <2>5. loop'.expected - 1 = loop.expected
    BY <1>2, <1>5
  <2> QED BY <1>2, <1>4, <1>5, <2>1, <2>3, <2>4, <2>5
<1>10. AppliedNow' = AppliedNow \cup {row}
  <2>1. AppliedNow' = {loop'.applied[k] : k \in (CursorSeq + 1)..loop.expected}
    BY <1>2, <1>4, <1>5 DEF AppliedNow
  <2>2. loop.expected \in (CursorSeq + 1)..loop.expected
    BY <1>4, <1>5 DEF LoopInv, CallOK
  <2>3. \A k \in (CursorSeq + 1)..(loop.expected - 1) : loop'.applied[k] = loop.applied[k]
    BY <1>4, <1>5, <1>8
  <2>4. \A k : k \in (CursorSeq + 1)..loop.expected
                <=> k = loop.expected \/ k \in (CursorSeq + 1)..(loop.expected - 1)
    BY <1>4, <1>5, <2>2
  <2>5. ASSUME NEW e \in AppliedNow' PROVE e \in AppliedNow \cup {row}
    <3>1. PICK k \in (CursorSeq + 1)..loop.expected : e = loop'.applied[k]
      BY <2>1
    <3> QED BY <1>8, <2>3, <2>4, <3>1 DEF AppliedNow
  <2>6. ASSUME NEW e \in AppliedNow PROVE e \in AppliedNow'
    <3>1. PICK k \in (CursorSeq + 1)..(loop.expected - 1) : e = loop.applied[k]
      BY DEF AppliedNow
    <3> QED BY <2>1, <2>3, <2>4, <3>1
  <2>7. row \in AppliedNow'
    BY <1>8, <2>1, <2>2
  <2> QED BY <2>5, <2>6, <2>7
<1>11. loop' \in Locals
  <2>1. loop' = [at |-> "loop", batch |-> loop.batch, rest |-> loop.rest \ {row},
                 expected |-> loop.expected + 1, applied |-> Append(loop.applied, row),
                 pending |-> loop.pending, conflicts |-> loop.conflicts]
    BY <1>1 DEF Locals
  <2>2. Append(loop.applied, row) \in Seq(Rows)
    BY <1>2, <1>7
  <2>3. /\ loop.batch \in SUBSET Rows /\ loop.rest \ {row} \in SUBSET Rows
        /\ loop.expected + 1 \in Nat /\ loop.pending \in SUBSET Rows
        /\ loop.conflicts \in SUBSET Rows
    BY <1>1 DEF Locals
  <2> QED BY <2>1, <2>2, <2>3 DEF Locals
<1>12. /\ \A e \in Handled' : e.seq < loop'.expected /\ e.seq # loop'.expected
       /\ loop.pending = {}
  BY <1>1, <1>2, <1>4, <1>5, <1>6, RowNumbers DEF LoopInv, CallOK
<1>13. loop'.pending = {e \in Handled' : e.seq >= loop'.expected}
  BY <1>2, <1>4, <1>5, <1>12, RowNumbers
<1>14. loop'.conflicts = reducer'.conflicts
                           \cup {e \in Handled' \ AppliedNow' : e.seq < loop'.expected}
  <2>1. {e \in Handled' \ AppliedNow' : e.seq < loop'.expected}
          = {e \in Handled \ AppliedNow : e.seq < loop.expected}
    BY <1>4, <1>6, <1>10, <1>12
  <2> QED BY <1>1, <1>2, <2>1 DEF LoopInv, CallOK
<1>15. loop'.rest \subseteq Fresh(loop.batch)'
  BY <1>4 DEF LoopInv, CallOK
<1>16. CallOK'
  BY <1>2, <1>8, <1>9, <1>11, <1>12, <1>13, <1>14, <1>15 DEF CallOK
<1> QED BY <1>4, <1>16 DEF LoopInv

\* When nothing is left, every row of the call has its place in the new state.
LEMMA ReturnKeeps ==
    ASSUME LoopInv, Return
    PROVE  LoopInv'
<1>1. /\ loop.at = "loop" /\ loop.rest = {} /\ loop \in Locals
      /\ reducer' = [applied |-> loop.applied, pending |-> loop.pending,
                     conflicts |-> loop.conflicts]
      /\ missing' = MissingRanges(loop.expected, {e.seq : e \in loop.pending})
      /\ arrived' = arrived \cup loop.batch /\ loop' = Returned
  BY DEF Return, LoopInv, CallOK
<1>2. /\ CursorSeq \in Nat /\ loop.expected \in Nat /\ CursorSeq' = loop.expected - 1
      /\ CursorSeq <= CursorSeq'
  BY <1>1 DEF LoopInv, StateOK, CallOK, CursorSeq, Locals
<1>3. Handled = Fresh(loop.batch) /\ Handled \subseteq Rows
  BY <1>1, FreshRows DEF Handled, LoopInv, Locals
<1>4. reducer' \in [applied : Seq(Rows), pending : SUBSET Rows, conflicts : SUBSET Rows]
  BY <1>1 DEF Locals
<1>5. \A k \in 1..CursorSeq' : reducer'.applied[k].seq = k
  <2> SUFFICES ASSUME NEW k \in 1..CursorSeq' PROVE loop.applied[k].seq = k
    BY <1>1
  <2>1. CASE k \in 1..CursorSeq
    BY <2>1 DEF LoopInv, StateOK, CallOK, Return
  <2>2. CASE k \notin 1..CursorSeq
    <3>1. k \in (CursorSeq + 1)..(loop.expected - 1)
      BY <1>2, <2>2
    <3> QED BY <1>1, <3>1 DEF LoopInv, CallOK
  <2> QED BY <2>1, <2>2
<1>6. \A e \in reducer'.pending : e.seq > CursorSeq' + 1
  <2> SUFFICES ASSUME NEW e \in loop.pending PROVE e.seq > CursorSeq' + 1
    BY <1>1
  <2>1. e \in Handled /\ e.seq >= loop.expected /\ e.seq # loop.expected
    BY <1>1 DEF LoopInv, CallOK
  <2>2. e.seq \in Nat
    BY <1>3, <2>1, RowNumbers
  <2> QED BY <1>2, <2>1, <2>2
<1>7. \A e \in reducer'.conflicts : e.seq <= CursorSeq'
  <2> SUFFICES ASSUME NEW e \in loop.conflicts PROVE e.seq <= CursorSeq'
    BY <1>1
  <2>1. e \in Rows /\ e.seq \in Nat
    BY <1>1, RowNumbers DEF Locals
  <2>2. CASE e \in reducer.conflicts
    BY <1>2, <2>1, <2>2 DEF LoopInv, StateOK
  <2>3. CASE e.seq < loop.expected
    BY <1>2, <2>1, <2>3
  <2> QED BY <1>1, <2>2, <2>3 DEF LoopInv, CallOK
<1>8. Applied' = Applied \cup AppliedNow
  <2>1. Applied' = {loop.applied[k] : k \in 1..(loop.expected - 1)}
    BY <1>1, <1>2, <1>4 DEF Applied, CursorSeq
  <2>2. Applied = {loop.applied[k] : k \in 1..CursorSeq}
    <3>1. Applied = {reducer.applied[k] : k \in 1..CursorSeq}
      BY DEF Applied, CursorSeq, LoopInv, StateOK
    <3>2. \A k \in 1..CursorSeq : loop.applied[k] = reducer.applied[k]
      BY <1>1 DEF LoopInv, CallOK
    <3> QED BY <3>1, <3>2
  <2>3. \A k : k \in 1..(loop.expected - 1)
                <=> k \in 1..CursorSeq \/ k \in (CursorSeq + 1)..(loop.expected - 1)
    BY <1>2
  <2> QED BY <2>1, <2>2, <2>3 DEF AppliedNow
<1>9. Handled = loop.pending \cup AppliedNow
                  \cup {e \in Handled \ AppliedNow : e.seq < loop.expected}
  <2>1. AppliedNow \subseteq Handled /\ loop.pending \subseteq Handled
    BY <1>1 DEF AppliedNow, LoopInv, CallOK
  <2>2. \A e \in Handled : e \in loop.pending \/ e.seq < loop.expected
    BY <1>1, <1>2, <1>3, RowNumbers DEF LoopInv, CallOK
  <2> QED BY <2>1, <2>2
<1>10. Seen' = Seen \cup loop.batch
  <2>1. Seen' = Applied \cup AppliedNow \cup loop.pending \cup loop.conflicts
    BY <1>1, <1>8 DEF Seen
  <2>2. loop.conflicts = reducer.conflicts
                           \cup {e \in Handled \ AppliedNow : e.seq < loop.expected}
    BY <1>1 DEF LoopInv, CallOK
  <2>3. Seen' = Applied \cup reducer.conflicts \cup Handled
    BY <1>9, <2>1, <2>2
  <2>4. Handled = reducer.pending \cup {e \in loop.batch : e \notin Seen}
    BY <1>3 DEF Fresh
  <2>5. Seen = Applied \cup reducer.pending \cup reducer.conflicts
    BY DEF Seen
  <2> HIDE DEF Seen, Applied, Handled
  <2> QED BY <2>3, <2>4, <2>5
<1>11. arrived' \in SUBSET Rows /\ arrived' = Seen'
  BY <1>1, <1>10 DEF LoopInv, StateOK, Locals
<1>12. missing' = MissingRanges(CursorSeq' + 1, {e.seq : e \in reducer'.pending})
  BY <1>1, <1>2
<1>13. StateOK'
  BY <1>4, <1>5, <1>6, <1>7, <1>11, <1>12 DEF StateOK
<1> QED BY <1>1, <1>13 DEF LoopInv, CallOK, Returned

\* The invariant of the loop, for any rows and any batches.
THEOREM LoopInvariant == LoopSpec => []LoopInv
<1>1. LoopInit => LoopInv
  BY LoopInvAtStart
<1>2. LoopInv /\ [LoopNext]_loopVars => LoopInv'
  <2> SUFFICES ASSUME LoopInv, [LoopNext]_loopVars PROVE LoopInv'
    OBVIOUS
  <2>1. CASE UNCHANGED loopVars
    BY <2>1 DEF loopVars, LoopInv, StateOK, CallOK, Locals, Handled, AppliedNow, Fresh, Seen,
        Applied, CursorSeq, MissingRanges, Returned
  <2>2. ASSUME NEW batch \in SUBSET Rows, Call(batch) PROVE LoopInv'
    BY <2>2, CallKeeps
  <2>3. ASSUME NEW row \in loop.rest, NoteConflict(row) \/ HoldRow(row) \/ ApplyRow(row)
        PROVE  LoopInv'
    <3>1. loop.at = "loop"
      BY <2>3 DEF LoopInv, Returned
    <3> QED BY <2>3, <3>1, NoteConflictKeeps, HoldRowKeeps, ApplyRowKeeps
  <2>4. CASE Return
    BY <2>4, ReturnKeeps
  <2> QED BY <2>1, <2>2, <2>3, <2>4 DEF LoopNext
<1> QED BY <1>1, <1>2, PTL DEF LoopSpec

-----------------------------------------------------------------------------

\* A set of numbers that is not empty has a least one.
LEMMA LeastExists ==
    ASSUME NEW S \in SUBSET Nat, S # {}
    PROVE  \E n \in S : \A m \in S : n <= m
<1>1. PICK n \in S : \A m \in S : ~(<<m, n>> \in OpToRel(<, Nat))
  BY WFMin, NatLessThanWellFounded
<1>2. \A m \in S : ~(m < n)
  BY <1>1 DEF OpToRel
<1> QED BY <1>2

\* The numbers of the rows held back are natural numbers beyond the next one.
LEMMA PendingNumbers ==
    ASSUME LoopInv
    PROVE  /\ {e.seq : e \in reducer.pending} \in SUBSET Nat /\ CursorSeq \in Nat
           /\ \A n \in {e.seq : e \in reducer.pending} : n > CursorSeq + 1
<1>1. reducer.pending \subseteq Rows /\ \A e \in reducer.pending : e.seq > CursorSeq + 1
  BY DEF LoopInv, StateOK
<1> QED BY <1>1, RowNumbers DEF CursorSeq, LoopInv, StateOK

\* The reported gap ends before the first row held back.
LEMMA GapIsNext ==
    ASSUME LoopInv, NEW gap \in missing
    PROVE  /\ gap.first = CursorSeq + 1 /\ gap.last \in Nat /\ gap.first <= gap.last
           /\ gap = [first |-> gap.first, last |-> gap.last]
           /\ \E e \in reducer.pending : e.seq = gap.last + 1
           /\ \A e \in reducer.pending : gap.last + 1 <= e.seq
<1> DEFINE S == {e.seq : e \in reducer.pending}
<1>1. S \in SUBSET Nat /\ CursorSeq \in Nat
  BY PendingNumbers
<1>2. PICK n \in S : /\ n > CursorSeq + 1 /\ \A m \in S : n <= m
                     /\ gap = [first |-> CursorSeq + 1, last |-> n - 1]
  BY DEF LoopInv, StateOK, MissingRanges
<1>3. gap.last \in Nat /\ gap.last + 1 = n /\ CursorSeq + 1 <= gap.last
  BY <1>1, <1>2
<1> QED BY <1>2, <1>3

\* The reported gap is the next gap, and there is one exactly when a row waits.
LEMMA GapFollows == LoopInv => GapReported
<1> SUFFICES ASSUME LoopInv PROVE GapReported
  OBVIOUS
<1>1. (missing = {}) <=> (reducer.pending = {})
  <2>1. ASSUME reducer.pending = {} PROVE missing = {}
    BY <2>1, GapIsNext
  <2>2. ASSUME reducer.pending # {} PROVE missing # {}
    <3> DEFINE S == {e.seq : e \in reducer.pending}
    <3>1. S \in SUBSET Nat /\ S # {} /\ \A n \in S : n > CursorSeq + 1
      BY <2>2, PendingNumbers
    <3>2. PICK n \in S : \A m \in S : n <= m
      BY <3>1, LeastExists
    <3>3. n > CursorSeq + 1
      BY <3>1
    <3>4. [first |-> CursorSeq + 1, last |-> n - 1] \in MissingRanges(CursorSeq + 1, S)
      BY <3>2, <3>3 DEF MissingRanges
    <3> QED BY <3>4 DEF LoopInv, StateOK
  <2> QED BY <2>1, <2>2
<1>2. ASSUME NEW gap \in missing
      PROVE  /\ gap.first = CursorSeq + 1
             /\ \A e \in arrived : e.seq < gap.first \/ e.seq > gap.last
             /\ \E e \in arrived : e.seq = gap.last + 1
  <2>1. /\ gap.first = CursorSeq + 1 /\ gap.last \in Nat /\ CursorSeq \in Nat
        /\ \E e \in reducer.pending : e.seq = gap.last + 1
        /\ \A e \in reducer.pending : gap.last + 1 <= e.seq
    BY <1>2, GapIsNext, PendingNumbers
  <2>2. arrived = Applied \cup reducer.pending \cup reducer.conflicts /\ arrived \subseteq Rows
    BY DEF LoopInv, StateOK, Seen
  <2>3. ASSUME NEW e \in arrived PROVE e.seq < gap.first \/ e.seq > gap.last
    <3>1. e.seq \in Nat
      BY <2>2, RowNumbers
    <3>2. CASE e \in Applied
      <4>1. e.seq <= CursorSeq
        BY <2>1, <3>2 DEF Applied, CursorSeq, LoopInv, StateOK
      <4> QED BY <2>1, <3>1, <4>1
    <3>3. CASE e \in reducer.conflicts
      <4>1. e.seq <= CursorSeq
        BY <3>3 DEF LoopInv, StateOK
      <4> QED BY <2>1, <3>1, <4>1
    <3>4. CASE e \in reducer.pending
      BY <2>1, <3>1, <3>4
    <3> QED BY <2>2, <3>2, <3>3, <3>4
  <2> QED BY <2>1, <2>2, <2>3
<1> QED BY <1>1, <1>2 DEF GapReported

\* A gap that is reported can be replayed: it is the next gap, all of it.
THEOREM GapReportedAlways == LoopSpec => []GapReported
BY LoopInvariant, GapFollows, PTL

\* Every variable ranges over what it should, and at most one gap is reported.
THEOREM LoopTypes == LoopSpec => []LoopTypeOK
<1>1. LoopInv => LoopTypeOK
  <2> SUFFICES ASSUME LoopInv PROVE LoopTypeOK
    OBVIOUS
  <2>1. reducer.applied \in Seq(Rows) /\ reducer.pending \cup reducer.conflicts \subseteq Rows
    BY DEF LoopInv, StateOK
  <2>2. loop.at \in {"returned", "loop"} /\ loop.rest \subseteq Rows /\ loop.expected \in Nat
    BY DEF LoopInv, CallOK, Locals, Returned
  <2>3. missing \subseteq [first : Nat \ {0}, last : Nat \ {0}]
    <3> SUFFICES ASSUME NEW gap \in missing PROVE gap \in [first : Nat \ {0}, last : Nat \ {0}]
      OBVIOUS
    <3>1. gap.first \in Nat \ {0} /\ gap.last \in Nat \ {0}
      BY GapIsNext, PendingNumbers
    <3> QED BY <3>1, GapIsNext
  <2>4. Cardinality(missing) <= 1
    <3>1. CASE missing = {}
      BY <3>1, FS_EmptySet
    <3>2. CASE missing # {}
      <4>1. PICK gap : gap \in missing
        BY <3>2
      <4>2. ASSUME NEW g \in missing PROVE g = gap
        <5>1. g.last = gap.last
          <6>1. PICK e \in reducer.pending : e.seq = g.last + 1
            BY GapIsNext
          <6>2. PICK f \in reducer.pending : f.seq = gap.last + 1
            BY <4>1, GapIsNext
          <6>3. gap.last + 1 <= e.seq /\ g.last + 1 <= f.seq
            BY <4>1, GapIsNext
          <6>4. g.last \in Nat /\ gap.last \in Nat
            BY <4>1, GapIsNext
          <6> QED BY <6>1, <6>2, <6>3, <6>4
        <5>2. g.first = gap.first
          BY <4>1, GapIsNext
        <5>3. /\ g = [first |-> g.first, last |-> g.last]
              /\ gap = [first |-> gap.first, last |-> gap.last]
          BY <4>1, GapIsNext
        <5> QED BY <5>1, <5>2, <5>3
      <4>3. missing = {gap}
        BY <4>1, <4>2
      <4>4. Cardinality({gap}) = 1
        BY FS_Singleton, Zenon
      <4> QED BY <4>3, <4>4
    <3> QED BY <3>1, <3>2
  <2>5. arrived \subseteq Rows
    BY DEF LoopInv, StateOK
  <2> QED BY <2>1, <2>2, <2>3, <2>4, <2>5 DEF LoopTypeOK
<1> QED BY <1>1, LoopInvariant, PTL

\* The client's state is a function of the set of rows that arrived: order,
\* repetition and the grouping into calls leave no trace but conflicts of rows
\* that share a number.
THEOREM OrderIndependentAlways == LoopSpec => []OrderIndependent
<1>1. LoopInv => OrderIndependent
  <2> SUFFICES ASSUME LoopInv, NEW k \in 0..Cardinality(Rows),
                      Reaches(arrived, k), ~Reaches(arrived, k + 1)
               PROVE  /\ CursorSeq = k
                      /\ reducer.pending = {e \in arrived : e.seq > k}
                      /\ Seen = arrived
    BY DEF OrderIndependent
  <2>1. /\ arrived = Applied \cup reducer.pending \cup reducer.conflicts
        /\ arrived \subseteq Rows /\ Seen = arrived /\ CursorSeq \in Nat
    BY PendingNumbers DEF LoopInv, StateOK, Seen
  <2>2. k \in Nat
    BY RowsAreRows, FS_CardinalityType
  <2>3. \A e \in Applied \cup reducer.conflicts : e.seq <= CursorSeq
    <3>1. \A e \in Applied : e.seq <= CursorSeq
      BY DEF Applied, CursorSeq, LoopInv, StateOK
    <3> QED BY <3>1 DEF LoopInv, StateOK
  <2>4. \A e \in reducer.pending : e.seq > CursorSeq + 1
    BY DEF LoopInv, StateOK
  <2>5. \A e \in arrived : e.seq \in Nat
    BY <2>1, RowNumbers
  <2>6. \A m \in 1..CursorSeq : \E e \in arrived : e.seq = m
    <3> TAKE m \in 1..CursorSeq
    <3>1. reducer.applied[m] \in Applied /\ reducer.applied[m].seq = m
      BY DEF Applied, CursorSeq, LoopInv, StateOK
    <3> QED BY <2>1, <3>1
  <2>7. \A e \in arrived : e.seq # CursorSeq + 1
    BY <2>1, <2>3, <2>4, <2>5
  <2>8. ~(k < CursorSeq)
    BY <2>1, <2>2, <2>6 DEF Reaches
  <2>9. ~(k > CursorSeq)
    <3>1. ASSUME k > CursorSeq PROVE FALSE
      <4>1. CursorSeq + 1 \in 1..k
        BY <2>1, <2>2, <3>1
      <4> QED BY <2>7, <4>1 DEF Reaches
    <3> QED BY <3>1
  <2>10. CursorSeq = k
    BY <2>1, <2>2, <2>8, <2>9
  <2>11. reducer.pending = {e \in arrived : e.seq > CursorSeq}
    <3>1. ASSUME NEW e \in reducer.pending PROVE e \in arrived /\ e.seq > CursorSeq
      BY <2>1, <2>4, <2>5, <3>1
    <3>2. ASSUME NEW e \in arrived, e.seq > CursorSeq PROVE e \in reducer.pending
      BY <2>1, <2>3, <2>5, <3>2
    <3> QED BY <3>1, <3>2
  <2> QED BY <2>1, <2>10, <2>11
<1> QED BY <1>1, LoopInvariant, PTL

\* The rows a call applied carry different numbers, so there are no more of them
\* than fresh rows.
LEMMA AppliedBounded ==
    ASSUME LoopInv, loop.at = "loop"
    PROVE  /\ loop.expected - 1 \in CursorSeq..(CursorSeq + Cardinality(Fresh(loop.batch)))
           /\ [k \in (CursorSeq + 1)..(loop.expected - 1) |-> loop.applied[k]]
                \in NextRows(Fresh(loop.batch), loop.expected - 1)
<1> DEFINE reached == loop.expected - 1
           fresh == Fresh(loop.batch)
           next == [k \in (CursorSeq + 1)..reached |-> loop.applied[k]]
<1>1. /\ CursorSeq \in Nat /\ reached \in Nat /\ CursorSeq <= reached
      /\ IsFiniteSet(fresh)
  <2>1. loop.batch \in SUBSET Rows /\ loop.expected \in Nat /\ loop.expected >= CursorSeq + 1
    BY DEF LoopInv, CallOK, Locals
  <2>2. IsFiniteSet(fresh)
    BY <2>1, FreshRows DEF LoopInv
  <2> QED BY <2>1, <2>2, PendingNumbers
<1>2. \A k \in (CursorSeq + 1)..reached : loop.applied[k] \in fresh /\ loop.applied[k].seq = k
  BY DEF LoopInv, CallOK, Handled
<1>3. next \in NextRows(fresh, reached)
  BY <1>2 DEF NextRows
<1>4. next \in Injection((CursorSeq + 1)..reached, fresh)
  <2>1. IsInjective(next)
    BY <1>2 DEF IsInjective
  <2> QED BY <1>2, <2>1 DEF Injection
<1>5. Cardinality((CursorSeq + 1)..reached) <= Cardinality(fresh)
  BY <1>1, <1>4, FS_Injection
<1>6. Cardinality((CursorSeq + 1)..reached) = reached - CursorSeq
  <2>1. /\ CursorSeq + 1 \in Int /\ reached \in Int
        /\ (IF CursorSeq + 1 > reached THEN 0 ELSE reached - (CursorSeq + 1) + 1)
             = reached - CursorSeq
    BY <1>1
  <2>2. Cardinality((CursorSeq + 1)..reached)
          = IF CursorSeq + 1 > reached THEN 0 ELSE reached - (CursorSeq + 1) + 1
    BY <2>1, FS_Interval
  <2> HIDE DEF reached
  <2> QED BY <2>1, <2>2
<1>7. Cardinality(fresh) \in Nat
  BY <1>1, FS_CardinalityType
<1> QED BY <1>1, <1>3, <1>5, <1>6, <1>7

\* What the loop returns is what Reducer states of the whole batch.
LEMMA ReturnReduces ==
    ASSUME LoopInv, Return
    PROVE  Reduce(loop.batch)
<1> DEFINE reached == loop.expected - 1
           fresh == Fresh(loop.batch)
           next == [k \in (CursorSeq + 1)..reached |-> loop.applied[k]]
<1>1. /\ loop.at = "loop" /\ loop.rest = {} /\ loop \in Locals
      /\ reducer' = [applied |-> loop.applied, pending |-> loop.pending,
                     conflicts |-> loop.conflicts]
  BY DEF Return, LoopInv, CallOK
<1>2. /\ reached \in CursorSeq..(CursorSeq + Cardinality(fresh))
      /\ next \in NextRows(fresh, reached)
  BY <1>1, AppliedBounded
<1>3. /\ loop.expected \in Nat /\ CursorSeq \in Nat /\ Handled = fresh /\ fresh \subseteq Rows
      /\ reached + 1 = loop.expected
  <2>1. loop.batch \in SUBSET Rows /\ loop.expected \in Nat
    BY <1>1 DEF Locals
  <2>2. fresh \in SUBSET Rows
    BY <2>1, FreshRows DEF LoopInv
  <2> QED BY <1>1, <2>1, <2>2, PendingNumbers DEF Handled
<1>4. StopsAt(fresh, reached)
  BY <1>1, <1>3 DEF StopsAt, LoopInv, CallOK
<1>5. loop.applied = [i \in 1..reached |->
                        IF i <= CursorSeq THEN reducer.applied[i] ELSE next[i]]
  <2>1. loop.applied \in Seq(Rows) /\ Len(loop.applied) = reached
    BY <1>1 DEF Locals, LoopInv, CallOK
  <2>2. loop.applied = [i \in 1..reached |-> loop.applied[i]]
    BY <2>1
  <2>3. ASSUME NEW i \in 1..reached
        PROVE  loop.applied[i] = IF i <= CursorSeq THEN reducer.applied[i] ELSE next[i]
    <3>1. CASE i <= CursorSeq
      <4>1. i \in 1..CursorSeq
        BY <1>3, <3>1
      <4> QED BY <1>1, <3>1, <4>1 DEF LoopInv, CallOK
    <3>2. CASE ~(i <= CursorSeq)
      <4>1. i \in (CursorSeq + 1)..reached
        BY <1>3, <3>2
      <4> QED BY <3>2, <4>1
    <3> QED BY <3>1, <3>2
  <2> QED BY <2>2, <2>3
<1>6. loop.pending = {e \in fresh : e.seq > reached}
  <2>1. \A e \in fresh : e.seq > reached <=> e.seq >= loop.expected
    BY <1>3, RowNumbers
  <2> QED BY <1>1, <1>3, <2>1 DEF LoopInv, CallOK
<1>7. loop.conflicts = reducer.conflicts \cup
                         {e \in fresh \ {next[k] : k \in DOMAIN next} : e.seq <= reached}
  <2>1. {next[k] : k \in DOMAIN next} = AppliedNow
    BY DEF AppliedNow
  <2>2. \A e \in fresh : e.seq <= reached <=> e.seq < loop.expected
    BY <1>3, RowNumbers
  <2>3. loop.conflicts = reducer.conflicts
                           \cup {e \in Handled \ AppliedNow : e.seq < loop.expected}
    BY <1>1 DEF LoopInv, CallOK
  <2> HIDE DEF AppliedNow, next, fresh, reached
  <2> QED BY <1>3, <2>1, <2>2, <2>3
<1>8. Apply(fresh, reached, next)
  BY <1>1, <1>5, <1>6, <1>7 DEF Apply
<1> HIDE DEF next, reached
<1> QED BY <1>2, <1>4, <1>8 DEF Reduce

\* The loop of reduce_stream_events implements the definition StreamReplay uses.
THEOREM LoopComputesReduce == LoopSpec => ComputesReduce
<1>1. LoopInv /\ [LoopNext]_loopVars
        => [loop.at = "loop" /\ loop'.at = "returned" => Reduce(loop.batch)]_loopVars
  <2> SUFFICES ASSUME LoopInv, LoopNext, loop.at = "loop", loop'.at = "returned"
               PROVE  Reduce(loop.batch)
    OBVIOUS
  <2>1. loop \in Locals
    BY DEF LoopInv, CallOK
  <2>2. ASSUME NEW batch \in SUBSET Rows, Call(batch) PROVE FALSE
    BY <2>2 DEF Call
  <2>3. ASSUME NEW row \in loop.rest, NoteConflict(row) \/ HoldRow(row) \/ ApplyRow(row)
        PROVE  FALSE
    <3>1. loop'.at = loop.at
      BY <2>1, <2>3 DEF NoteConflict, HoldRow, ApplyRow, Locals
    <3> QED BY <3>1
  <2> QED BY <2>2, <2>3, ReturnReduces DEF LoopNext
<1> QED BY <1>1, LoopInvariant, PTL DEF LoopSpec, ComputesReduce

\* For any rows, numbers and batch size the loop of reduce_stream_events leaves
\* what the order of the rows has no part in, and reports what it waits for.
THEOREM LoopIsExact == LoopSpec => []ReducerIsExact
BY LoopTypes, OrderIndependentAlways, GapReportedAlways, PTL DEF ReducerIsExact

=============================================================================
