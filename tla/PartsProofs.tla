----------------------------- MODULE PartsProofs -----------------------------
(***************************************************************************)
(* Proofs about three parts that run beside one another and share no       *)
(* state: the review of a previous turn, the repair of source messages and *)
(* the preferences, for any number of turns, reviews, memories, repairs,   *)
(* preferences, values, saves and deaths.                                  *)
(***************************************************************************)
EXTENDS Retrospection, ProvenanceRepair, RuntimePreferences,
        FiniteSetTheorems, WellFoundedInduction, TLAPS

-----------------------------------------------------------------------------
(* The review of a previous turn *)

Spoken == {"question", "answer", "response"}

PastTurn ==
    [status : {"none", "running", "completed", "failed"}, rows : SUBSET RowKinds,
     before : SUBSET ReviewTurns]

\* A turn commits its rows in order, and is completed after them; the turns it
\* found completed are older and stay so.
TurnsOK ==
    /\ past \in [ReviewTurns -> PastTurn]
    /\ \A t \in ReviewTurns :
         /\ past[t].status # "none" => "question" \in past[t].rows
         /\ "response" \in past[t].rows => "answer" \in past[t].rows
         /\ past[t].status = "completed" => "response" \in past[t].rows
         /\ \A u \in past[t].before : past[u].status = "completed"
    /\ started \in Nat
    /\ \A t \in ReviewTurns : /\ t > started => past[t].status = "none"
                              /\ \A u \in past[t].before : u < t

\* What a step has read, and what it has still to read, of the turn it reviews.
ReviewOK ==
    review.at # "idle" =>
      /\ review \in [at : {"read", "ask", "repair"}, asker : ReviewTurns,
                     of : SUBSET ReviewTurns, unread : SUBSET RowKinds, pack : SUBSET RowKinds]
      /\ review.of \subseteq {t \in ReviewTurns : past[t].status = "completed"}
      /\ review.of # {} => Spoken \subseteq review.pack \cup review.unread
      /\ review.at # "read" /\ review.of # {} => review.unread = {}
      /\ past[review.asker].status # "none"
      /\ \A t \in past[review.asker].before : \E u \in review.of : u >= t

CountsOK ==
    /\ stepRows \in [traces : Nat, answers : Nat, calls : Nat]
    /\ stepRows.calls <= 2
    /\ review.at = "repair" => stepRows.calls = 1 /\ stepRows.answers >= 1
    /\ stepRows.traces = stepRows.answers - (IF review.at = "repair" THEN 1 ELSE 0)

RetroInv == TurnsOK /\ ReviewOK /\ CountsOK

\* A set of turns that is not empty has a newest one.
LEMMA NewestExists ==
    ASSUME NEW T \in SUBSET ReviewTurns, T # {}, MaxReviewTurns \in Nat
    PROVE  Newest(T) \in T /\ \A u \in T : Newest(T) >= u
<1> DEFINE Before == {MaxReviewTurns - t : t \in T}
<1>1. Before \in SUBSET Nat /\ Before # {}
  BY DEF ReviewTurns
<1>2. PICK least \in Before : \A y \in Before : ~(<<y, least>> \in OpToRel(<, Nat))
  BY <1>1, WFMin, NatLessThanWellFounded
<1>3. \A y \in Before : ~(y < least)
  BY <1>1, <1>2 DEF OpToRel
<1>4. \E t \in T : \A u \in T : t >= u
  <2>1. PICK t \in T : least = MaxReviewTurns - t
    OBVIOUS
  <2>2. ASSUME NEW u \in T PROVE t >= u
    <3>1. MaxReviewTurns - u \in Before
      OBVIOUS
    <3>2. t \in Nat /\ u \in Nat
      BY DEF ReviewTurns
    <3>3. ~(MaxReviewTurns - u < MaxReviewTurns - t)
      BY <1>3, <2>1, <3>1
    <3> QED BY <3>2, <3>3
  <2> QED BY <2>2
<1> QED BY <1>4 DEF Newest

\* A session without turns satisfies the invariant.
LEMMA RetroInvAtStart == RetroInit => RetroInv
<1> SUFFICES ASSUME RetroInit PROVE RetroInv
  OBVIOUS
<1>1. \A t \in ReviewTurns : past[t] = [status |-> "none", rows |-> {}, before |-> {}]
  BY DEF RetroInit
<1>2. TurnsOK
  BY <1>1 DEF RetroInit, TurnsOK, PastTurn
<1>3. ReviewOK /\ CountsOK
  BY DEF RetroInit, ReviewOK, CountsOK, ReviewIdle
<1> QED BY <1>2, <1>3 DEF RetroInv

\* What a review has read stays true while the turns go on: completed turns stay
\* completed, and the turns a started turn has found are not found again.
LEMMA ReviewStays ==
    ASSUME RetroInv, TurnsOK', review' = review, stepRows' = stepRows,
           \A t \in ReviewTurns :
             /\ past[t].status = "completed" => past'[t].status = "completed"
             /\ past[t].status # "none" => past'[t].status # "none"
                                           /\ past'[t].before = past[t].before
    PROVE  RetroInv'
BY DEF RetroInv, ReviewOK, CountsOK

\* A turn that starts finds the turns completed so far.
LEMMA StartKeeps ==
    ASSUME RetroInv, NEW t \in ReviewTurns, StartTurn(t), MaxReviewTurns \in Nat
    PROVE  RetroInv'
<1> DEFINE found == {u \in ReviewTurns : past[u].status = "completed"}
           begun == [status |-> "running", rows |-> {"question"}, before |-> found]
<1>1. past' = [past EXCEPT ![t] = begun] /\ started' = t /\ t = started + 1
  BY DEF StartTurn
<1>2. \A u \in ReviewTurns : past'[u] = IF u = t THEN begun ELSE past[u]
  BY <1>1 DEF RetroInv, TurnsOK
<1>3. \A u \in ReviewTurns : u \in Nat
  BY DEF ReviewTurns
<1>4. past[t].status = "none"
  BY <1>1, <1>3 DEF RetroInv, TurnsOK
<1>5. \A u \in found : u < t
  BY <1>1, <1>3 DEF RetroInv, TurnsOK
<1>6. begun \in PastTurn
  BY DEF PastTurn, RowKinds
<1>7. TurnsOK'
  <2>1. past' \in [ReviewTurns -> PastTurn]
    BY <1>1, <1>6 DEF RetroInv, TurnsOK
  <2>2. ASSUME NEW u \in ReviewTurns
        PROVE  /\ past'[u].status # "none" => "question" \in past'[u].rows
               /\ "response" \in past'[u].rows => "answer" \in past'[u].rows
               /\ past'[u].status = "completed" => "response" \in past'[u].rows
               /\ \A v \in past'[u].before : past'[v].status = "completed"
               /\ u > t => past'[u].status = "none"
               /\ \A v \in past'[u].before : v < u
    <3>1. past[u].before \subseteq ReviewTurns
      BY DEF RetroInv, TurnsOK, PastTurn
    <3>2. \A v \in ReviewTurns : past[v].status = "completed" =>
                                   past'[v].status = "completed"
      BY <1>2, <1>4
    <3>3. CASE u = t
      <4>1. past'[u] = begun
        BY <1>2, <3>3
      <4> QED BY <1>3, <1>5, <3>2, <3>3, <4>1
    <3>4. CASE u # t
      <4>1. past'[u] = past[u]
        BY <1>2, <3>4
      <4> QED BY <1>1, <1>3, <3>1, <3>2, <4>1 DEF RetroInv, TurnsOK
    <3> QED BY <3>3, <3>4
  <2> QED BY <1>1, <1>3, <2>1, <2>2 DEF TurnsOK
<1> QED
  BY <1>2, <1>4, <1>7, ReviewStays DEF StartTurn

\* A row is committed while its turn runs, or the event after it.
LEMMA CommitKeeps ==
    ASSUME RetroInv, NEW t \in ReviewTurns, NEW row \in RowKinds, Commit(t, row),
           row = "response" => "answer" \in past[t].rows
    PROVE  RetroInv'
<1>1. past' = [past EXCEPT ![t] = [past[t] EXCEPT !.rows = past[t].rows \cup {row}]]
      /\ started' = started
  BY DEF Commit
<1>2. \A u \in ReviewTurns : /\ past'[u].status = past[u].status
                             /\ past'[u].before = past[u].before
                             /\ past'[u].rows = past[u].rows \cup (IF u = t THEN {row} ELSE {})
  BY <1>1 DEF RetroInv, TurnsOK, PastTurn
<1>3. past' \in [ReviewTurns -> PastTurn]
  BY <1>1 DEF RetroInv, TurnsOK, PastTurn
<1>4. \A u \in ReviewTurns : past[u].before \subseteq ReviewTurns
  BY DEF RetroInv, TurnsOK, PastTurn
<1>5. TurnsOK'
  BY <1>1, <1>2, <1>3, <1>4 DEF RetroInv, TurnsOK
<1> QED BY <1>2, <1>5, ReviewStays DEF Commit

\* A turn ends completed with its response, or failed.
LEMMA EndKeeps ==
    ASSUME RetroInv, NEW t \in ReviewTurns, NEW status \in {"completed", "failed"},
           past[t].status = "running", EndTurn(t, status),
           status = "completed" => "response" \in past[t].rows
    PROVE  RetroInv'
<1>1. past' = [past EXCEPT ![t] = [past[t] EXCEPT !.status = status]] /\ started' = started
  BY DEF EndTurn
<1>2. \A u \in ReviewTurns : /\ past'[u].status = IF u = t THEN status ELSE past[u].status
                             /\ past'[u].before = past[u].before
                             /\ past'[u].rows = past[u].rows
  BY <1>1 DEF RetroInv, TurnsOK, PastTurn
<1>3. past' \in [ReviewTurns -> PastTurn]
  BY <1>1 DEF RetroInv, TurnsOK, PastTurn
<1>4. \A u \in ReviewTurns : past[u].before \subseteq ReviewTurns
  BY DEF RetroInv, TurnsOK, PastTurn
<1>5. TurnsOK'
  BY <1>1, <1>2, <1>3, <1>4 DEF RetroInv, TurnsOK
<1> QED BY <1>2, <1>5, ReviewStays DEF EndTurn

\* The step takes the newest of the turns it may review.
LEMMA BeginReviewKeeps ==
    ASSUME RetroInv, NEW t \in ReviewTurns, BeginReview(t), MaxReviewTurns \in Nat
    PROVE  RetroInv'
<1>1. TurnsOK'
  BY DEF RetroInv, TurnsOK, BeginReview
<1>2. past' = past /\ stepRows' = stepRows /\ past[t].status = "running"
      /\ review.at = "idle"
  BY DEF BeginReview
<1>3. past[t].before \subseteq Reviewable(t)
  BY DEF RetroInv, TurnsOK, PastTurn, Reviewable
<1>4. Reviewable(t) \in SUBSET ReviewTurns
  BY DEF Reviewable
<1>5. CASE Reviewable(t) = {}
  <2>1. review' = [at |-> "ask", asker |-> t, of |-> {}, unread |-> {}, pack |-> {}]
    BY <1>5 DEF BeginReview
  <2>2. ReviewOK'
    BY <1>2, <1>3, <1>5, <2>1 DEF ReviewOK
  <2>3. CountsOK'
    BY <1>2, <2>1 DEF RetroInv, CountsOK
  <2> QED BY <1>1, <2>2, <2>3 DEF RetroInv
<1>6. CASE Reviewable(t) # {}
  <2> DEFINE u == Newest(Reviewable(t))
  <2>1. review' = [at |-> "read", asker |-> t, of |-> {u}, unread |-> RowKinds, pack |-> {}]
    BY <1>6 DEF BeginReview
  <2>2. u \in Reviewable(t) /\ \A v \in Reviewable(t) : u >= v
    BY <1>4, <1>6, NewestExists
  <2>3. u \in ReviewTurns /\ past[u].status = "completed"
    BY <2>2 DEF Reviewable
  <2>4. Spoken \subseteq RowKinds
    BY DEF Spoken, RowKinds
  <2> HIDE DEF u
  <2>5. ReviewOK'
    BY <1>2, <1>3, <2>1, <2>2, <2>3, <2>4 DEF ReviewOK
  <2>6. CountsOK'
    BY <1>2, <2>1 DEF RetroInv, CountsOK
  <2> QED BY <1>1, <2>5, <2>6 DEF RetroInv
<1> QED BY <1>5, <1>6

\* A completed turn has the rows of what was said, whenever they are read.
LEMMA ReadKeeps ==
    ASSUME RetroInv, NEW kind \in RowKinds, ReadRows(kind)
    PROVE  RetroInv'
<1> DEFINE got == {r \in {kind} : \E t \in review.of : r \in past[t].rows}
<1>1. /\ past' = past /\ stepRows' = stepRows /\ review.at = "read"
      /\ review' = [review EXCEPT !.unread = review.unread \ {kind},
                                  !.pack = review.pack \cup got,
                                  !.at = IF review.unread = {kind} THEN "ask" ELSE "read"]
  BY DEF ReadRows
<1>2. TurnsOK'
  BY DEF RetroInv, TurnsOK, ReadRows
<1>3. review.of # {} /\ kind \in Spoken => kind \in got
  <2> SUFFICES ASSUME review.of # {}, kind \in Spoken PROVE kind \in got
    OBVIOUS
  <2>1. PICK t \in review.of : t \in ReviewTurns /\ past[t].status = "completed"
    BY <1>1 DEF RetroInv, ReviewOK
  <2>2. Spoken \subseteq past[t].rows
    BY <2>1 DEF RetroInv, TurnsOK, Spoken
  <2> QED BY <2>1, <2>2
<1>4. /\ review'.at \in {"read", "ask"} /\ review'.asker = review.asker
      /\ review'.of = review.of
      /\ review'.unread = review.unread \ {kind} /\ review'.pack = review.pack \cup got
      /\ review'.at # "read" => review.unread = {kind}
  BY <1>1
<1>5. ReviewOK'
  <2>1. review'.of # {} => Spoken \subseteq review'.pack \cup review'.unread
    BY <1>1, <1>3, <1>4 DEF RetroInv, ReviewOK
  <2>2. review'.at # "read" => review'.unread = {}
    BY <1>4
  <2> QED BY <1>1, <1>4, <2>1, <2>2 DEF RetroInv, ReviewOK
<1>6. CountsOK'
  BY <1>1, <1>4 DEF RetroInv, CountsOK
<1> QED BY <1>2, <1>5, <1>6 DEF RetroInv

\* A review that came leaves a trace, and frees the step.
LEMMA RecordKeeps ==
    ASSUME RetroInv, review.at \in {"ask", "repair"}, Record(Called)
    PROVE  RetroInv'
<1>1. TurnsOK'
  BY DEF RetroInv, TurnsOK, Record
<1>2. ReviewOK' /\ review'.at = "idle"
  BY DEF Record, ReviewOK, ReviewIdle
<1> DEFINE asked == review.at = "ask"
<1>3. stepRows' = [traces |-> stepRows.traces + 1,
                   answers |-> IF asked THEN stepRows.answers + 1 ELSE stepRows.answers,
                   calls |-> IF asked THEN 1 ELSE stepRows.calls + 1]
  BY DEF RetroInv, CountsOK, Record, Called
<1>4. CountsOK'
  BY <1>2, <1>3 DEF RetroInv, CountsOK
<1> QED BY <1>1, <1>2, <1>4 DEF RetroInv

\* A call of the provider that fails ends the step without a review.
LEMMA FailKeeps ==
    ASSUME RetroInv, ProviderFails
    PROVE  RetroInv'
<1>1. TurnsOK' /\ ReviewOK' /\ review'.at = "idle"
  BY DEF RetroInv, TurnsOK, ProviderFails, ReviewOK, ReviewIdle
<1>2. CountsOK'
  BY <1>1 DEF RetroInv, CountsOK, ProviderFails
<1> QED BY <1>1, <1>2 DEF RetroInv

\* A review that does not parse is repaired once.
LEMMA MalformedKeeps ==
    ASSUME RetroInv, ReviewMalformed
    PROVE  RetroInv'
<1>1. CASE GivesUp /\ Record(Called)
  BY <1>1, RecordKeeps DEF ReviewMalformed
<1>2. CASE ~(GivesUp /\ Record(Called))
  <2>1. /\ review.at = "ask" /\ review' = [review EXCEPT !.at = "repair"]
        /\ stepRows' = Called /\ past' = past /\ started' = started
    BY <1>2 DEF ReviewMalformed, GivesUp
  <2>2. TurnsOK'
    BY <2>1 DEF RetroInv, TurnsOK
  <2>3. /\ review'.at = "repair"
        /\ review'.asker = review.asker /\ review'.of = review.of
        /\ review'.pack = review.pack /\ review'.unread = review.unread
    BY <2>1 DEF RetroInv, ReviewOK
  <2>4. ReviewOK'
    BY <2>1, <2>3 DEF RetroInv, ReviewOK
  <2>5. stepRows' = [traces |-> stepRows.traces, answers |-> stepRows.answers + 1,
                     calls |-> 1]
    BY <2>1 DEF RetroInv, CountsOK, Called
  <2>6. CountsOK'
    BY <2>1, <2>3, <2>5 DEF RetroInv, CountsOK
  <2> QED BY <2>2, <2>4, <2>6 DEF RetroInv
<1> QED BY <1>1, <1>2

\* Every step of the turns and of the review keeps the invariant.
LEMMA RetroStep ==
    ASSUME RetroInv, [RetroNext]_retroVars, MaxReviewTurns \in Nat
    PROVE  RetroInv'
<1>1. ASSUME NEW t \in ReviewTurns, StoreTurnAnswer(t) \/ StoreResponse(t) \/ Announce(t)
      PROVE  RetroInv'
  BY <1>1, CommitKeeps DEF StoreTurnAnswer, StoreResponse, Announce, RowKinds
<1>2. ASSUME NEW t \in ReviewTurns, CompleteTurn(t) \/ Fail(t)
      PROVE  RetroInv'
  BY <1>2, EndKeeps DEF CompleteTurn, Fail
<1>3. CASE ReviewParses \/ RepairFails
  BY <1>3, RecordKeeps DEF ReviewParses, RepairFails
<1>4. CASE UNCHANGED retroVars
  BY <1>4 DEF retroVars, RetroInv, TurnsOK, ReviewOK, CountsOK
<1> QED
  BY <1>1, <1>2, <1>3, <1>4, StartKeeps, BeginReviewKeeps, ReadKeeps, FailKeeps, MalformedKeeps
  DEF RetroNext

\* A completed turn has all its rows, and a review under way has a completed turn
\* to look at (complete_native_turn and handle_metacognition_step).
THEOREM RetroInvariant == ASSUME MaxReviewTurns \in Nat PROVE RetroSpec => []RetroInv
<1>1. RetroInv /\ [RetroNext]_retroVars => RetroInv'
  BY RetroStep
<1> QED BY RetroInvAtStart, <1>1, PTL DEF RetroSpec

\* Turns may overlap and their rows be read one kind after the other: a step that
\* reviews a turn always has what was asked, answered and traced in it.
THEOREM PacksAreWhole == ASSUME MaxReviewTurns \in Nat PROVE RetroSpec => []PackIsWhole
<1>1. RetroInv => PackIsWhole
  BY DEF RetroInv, ReviewOK, PackIsWhole, Spoken
<1> QED BY <1>1, RetroInvariant, PTL

\* No turn that was completed when the asking turn started is newer than the one
\* that is reviewed.
THEOREM NewestIsReviewed ==
    ASSUME MaxReviewTurns \in Nat PROVE RetroSpec => []NothingNewerSkipped
<1>1. RetroInv => NothingNewerSkipped
  BY DEF RetroInv, ReviewOK, NothingNewerSkipped
<1> QED BY <1>1, RetroInvariant, PTL

\* Each review the provider gave is traced once, after two calls at most.
THEOREM ReviewsAreTraced ==
    ASSUME MaxReviewTurns \in Nat PROVE RetroSpec => []EveryReviewTraced
<1>1. RetroInv => EveryReviewTraced
  BY DEF RetroInv, CountsOK, EveryReviewTraced
<1> QED BY <1>1, RetroInvariant, PTL

\* For any number of turns and reviews a review is of the newest turn that was
\* completed, of all of it, and is traced once (handle_metacognition_step).
THEOREM ReviewsAreWhole ==
    ASSUME MaxReviewTurns \in Nat PROVE RetroSpec => []ReviewIsWhole
BY PacksAreWhole, NewestIsReviewed, ReviewsAreTraced, PTL DEF ReviewIsWhole

-----------------------------------------------------------------------------
(* The repair of source messages *)

RecordRow == [source : Sources, content : Contents, fixture : BOOLEAN, exists : BOOLEAN]

\* The rows of older versions exist, and a memory a turn wrote can be traced.
RecordsOK ==
    /\ record \in [AllRecords -> RecordRow]
    /\ \A m \in Legacy : record[m].exists
    /\ record[WrittenMemory].exists => record[WrittenMemory].source = "source_complete_valid"

\* A repair under way has hooks to set that were reviewed, of memories that have
\* no twin but one a turn may have written.
UnderWayOK ==
    /\ repair \in {RepairIdle} \cup
         [at : {"hook", "activity"}, todo : SUBSET Legacy, now : SUBSET AllRecords,
          reviewed : SUBSET AllRecords]
    /\ repair.at # "idle" =>
         /\ repair.todo \subseteq repair.reviewed
         /\ \A m \in repair.todo : Duplicates(m) \subseteq {WrittenMemory}

RepairedOK ==
    \A r \in repaired : /\ r.memory \in Legacy /\ r.memory \in r.among
                        /\ Duplicates(r.memory) \subseteq {WrittenMemory}

RepairInv == RecordsOK /\ UnderWayOK /\ RepairedOK

\* Whether two memories are twins depends on their texts only.
LEMMA TwinsStay ==
    ASSUME NEW m \in AllRecords, \A n \in AllRecords : record'[n].content = record[n].content
                                                       /\ record'[n].exists = record[n].exists
    PROVE  Duplicates(m)' = Duplicates(m)
BY DEF Duplicates, Existing

\* Before the first repair nothing is reviewed and nothing repaired.
LEMMA RepairInvAtStart ==
    ASSUME RepairInit, LegacyRows \subseteq [source : Sources, content : Contents,
                                             fixture : BOOLEAN], Contents # {}
    PROVE  RepairInv
<1>1. PICK rows \in [Legacy -> LegacyRows] :
        record = [m \in AllRecords |->
                    IF m = WrittenMemory THEN NoRecord(CHOOSE c \in Contents : TRUE)
                    ELSE [source |-> rows[m].source, content |-> rows[m].content,
                          fixture |-> rows[m].fixture, exists |-> TRUE]]
  BY DEF RepairInit
<1>2. (CHOOSE c \in Contents : TRUE) \in Contents
  OBVIOUS
<1>3. NoRecord(CHOOSE c \in Contents : TRUE) \in RecordRow
      /\ ~NoRecord(CHOOSE c \in Contents : TRUE).exists
  BY <1>2 DEF NoRecord, RecordRow, Sources
<1>4. WrittenMemory \notin Legacy
  BY RepairAssumption
<1>5. ASSUME NEW m \in Legacy PROVE record[m] \in RecordRow /\ record[m].exists
  <2>1. rows[m] \in [source : Sources, content : Contents, fixture : BOOLEAN]
    OBVIOUS
  <2>2. record[m] = [source |-> rows[m].source, content |-> rows[m].content,
                     fixture |-> rows[m].fixture, exists |-> TRUE]
    BY <1>1, <1>4 DEF AllRecords
  <2> QED BY <2>1, <2>2 DEF RecordRow
<1>6. record[WrittenMemory] \in RecordRow /\ ~record[WrittenMemory].exists
  BY <1>1, <1>3 DEF AllRecords
<1>7. record = [m \in AllRecords |-> record[m]]
  BY <1>1
<1>8. RecordsOK
  BY <1>5, <1>6, <1>7 DEF RecordsOK, AllRecords
<1>9. UnderWayOK /\ RepairedOK
  BY DEF RepairInit, UnderWayOK, RepairedOK, RepairIdle
<1> QED BY <1>8, <1>9 DEF RepairInv

\* A dry run, an activity and a death touch no hook and no text.
LEMMA QuietKeeps ==
    ASSUME RepairInv, record' = record, repaired' = repaired,
           \/ repair' = RepairIdle \/ repair' = repair
           \/ repair.at # "idle" /\ repair' = [repair EXCEPT !.at = "hook", !.now = {}]
    PROVE  RepairInv'
<1>1. \A m : Duplicates(m)' = Duplicates(m)
  BY DEF Duplicates, Existing
<1>2. RecordsOK' /\ RepairedOK'
  BY <1>1 DEF RepairInv, RecordsOK, RepairedOK
<1>3. CASE repair' = RepairIdle
  BY <1>2, <1>3 DEF RepairInv, UnderWayOK, RepairIdle
<1>4. CASE repair' = repair
  BY <1>1, <1>2, <1>4 DEF RepairInv, UnderWayOK
<1>5. CASE repair.at # "idle" /\ repair' = [repair EXCEPT !.at = "hook", !.now = {}]
  <2>1. repair \in [at : {"hook", "activity"}, todo : SUBSET Legacy, now : SUBSET AllRecords,
                    reviewed : SUBSET AllRecords]
    BY <1>5 DEF RepairInv, UnderWayOK, RepairIdle
  <2>2. /\ repair' \in [at : {"hook", "activity"}, todo : SUBSET Legacy,
                        now : SUBSET AllRecords, reviewed : SUBSET AllRecords]
        /\ repair'.todo = repair.todo /\ repair'.reviewed = repair.reviewed
    BY <1>5, <2>1
  <2> QED BY <1>1, <1>2, <1>5, <2>2 DEF RepairInv, UnderWayOK
<1> QED BY <1>3, <1>4, <1>5

\* The repair starts with what the operator has reviewed, which has no twins.
LEMMA BeginRepairKeeps ==
    ASSUME RepairInv, BeginRepair
    PROVE  RepairInv'
<1>1. /\ record' = record /\ repaired' = repaired /\ Repairable = listed
      /\ repair' = [at |-> "hook", todo |-> Repairable, now |-> {}, reviewed |-> listed]
  BY DEF BeginRepair, Acknowledged
<1>2. \A m : Duplicates(m)' = Duplicates(m)
  BY <1>1 DEF Duplicates, Existing
<1>3. RecordsOK' /\ RepairedOK'
  BY <1>1, <1>2 DEF RepairInv, RecordsOK, RepairedOK
<1>4. Repairable \subseteq Legacy /\ \A m \in Repairable : Duplicates(m) = {}
  BY DEF Repairable, Existing, AllRecords, RepairInv, RecordsOK
<1>5. UnderWayOK'
  BY <1>1, <1>2, <1>4 DEF UnderWayOK, AllRecords
<1> QED BY <1>3, <1>5 DEF RepairInv

\* The hook that is set belongs to a memory the operator has reviewed.
LEMMA SetHookKeeps ==
    ASSUME RepairInv, NEW m \in AllRecords, SetHook(m)
    PROVE  RepairInv'
<1>1. /\ repair \in [at : {"hook", "activity"}, todo : SUBSET Legacy, now : SUBSET AllRecords,
                     reviewed : SUBSET AllRecords]
      /\ m \in repair.todo /\ repair.at = "hook"
      /\ record' = [record EXCEPT ![m].source = "source_complete_valid"]
      /\ repaired' = repaired \cup {[memory |-> m, among |-> repair.reviewed]}
      /\ repair' = [repair EXCEPT !.at = "activity", !.todo = repair.todo \ {m}, !.now = {m}]
  BY DEF SetHook, RepairInv, UnderWayOK, RepairIdle
<1>2. m \in Legacy /\ m # WrittenMemory
  BY <1>1, RepairAssumption
<1>3. \A n \in AllRecords : /\ record'[n].content = record[n].content
                            /\ record'[n].exists = record[n].exists
                            /\ n # m => record'[n] = record[n]
  BY <1>1 DEF RepairInv, RecordsOK, RecordRow
<1>4. \A n \in AllRecords : Duplicates(n)' = Duplicates(n)
  BY <1>3, TwinsStay
<1>5. record' \in [AllRecords -> RecordRow]
  BY <1>1 DEF RepairInv, RecordsOK, RecordRow, Sources
<1>6. RecordsOK'
  BY <1>2, <1>3, <1>5 DEF RepairInv, RecordsOK, AllRecords
<1>7. /\ repair' \in [at : {"hook", "activity"}, todo : SUBSET Legacy, now : SUBSET AllRecords,
                      reviewed : SUBSET AllRecords]
      /\ repair'.todo = repair.todo \ {m} /\ repair'.reviewed = repair.reviewed
  BY <1>1
<1>8. UnderWayOK'
  BY <1>1, <1>4, <1>7 DEF RepairInv, UnderWayOK, RepairIdle, AllRecords
<1>9. RepairedOK'
  BY <1>1, <1>2, <1>4 DEF RepairInv, RepairedOK, UnderWayOK, AllRecords
<1> QED BY <1>6, <1>8, <1>9 DEF RepairInv

\* A memory a turn writes may become a twin, and is the only one that may.
LEMMA WriteKeeps ==
    ASSUME RepairInv, NEW content \in Contents, WriteRecord(content)
    PROVE  RepairInv'
<1> DEFINE row == [source |-> "source_complete_valid", content |-> content,
                   fixture |-> FALSE, exists |-> TRUE]
<1>1. /\ record' = [record EXCEPT ![WrittenMemory] = row]
      /\ repair' = repair /\ repaired' = repaired
  BY DEF WriteRecord
<1>2. WrittenMemory \notin Legacy
  BY RepairAssumption
<1>3. row \in RecordRow
  BY DEF RecordRow, Sources
<1>4. RecordsOK'
  BY <1>1, <1>2, <1>3 DEF RepairInv, RecordsOK, AllRecords
<1>5. \A n \in Legacy : record'[n] = record[n]
  BY <1>1, <1>2 DEF RepairInv, RecordsOK, AllRecords
<1>6. ASSUME NEW n \in Legacy, Duplicates(n) \subseteq {WrittenMemory}
      PROVE  Duplicates(n)' \subseteq {WrittenMemory}
  BY <1>5, <1>6 DEF Duplicates, Existing, AllRecords
<1>7. UnderWayOK'
  BY <1>1, <1>6 DEF RepairInv, UnderWayOK, RepairIdle
<1>8. RepairedOK'
  BY <1>1, <1>6 DEF RepairInv, RepairedOK
<1> QED BY <1>4, <1>7, <1>8 DEF RepairInv

\* Every step of the repair and of the writing turn keeps the invariant.
LEMMA RepairStep ==
    ASSUME RepairInv, [RepairNext]_repairVars
    PROVE  RepairInv'
<1>1. CASE RepairDryRun \/ RepairCrash
  BY <1>1, QuietKeeps DEF RepairDryRun, RepairCrash
<1>2. CASE RecordRepair
  <2>1. repair.at # "idle"
    BY <1>2 DEF RecordRepair
  <2> QED BY <1>2, <2>1, QuietKeeps DEF RecordRepair
<1>3. CASE UNCHANGED repairVars
  BY <1>3, QuietKeeps DEF repairVars
<1> QED
  BY <1>1, <1>2, <1>3, BeginRepairKeeps, SetHookKeeps, WriteKeeps DEF RepairNext

\* Only reviewed memories without twins get a hook, whatever turn writes and
\* whatever dies beside the repair (repair_exact_source_messages).
THEOREM RepairInvariant ==
    ASSUME LegacyRows \subseteq [source : Sources, content : Contents, fixture : BOOLEAN],
           Contents # {}
    PROVE  RepairSpec => []RepairInv
<1>1. RepairInit => RepairInv
  BY RepairInvAtStart
<1>2. RepairInv /\ [RepairNext]_repairVars => RepairInv'
  BY RepairStep
<1> QED BY <1>1, <1>2, PTL DEF RepairSpec

\* No hook is set that the operator has not seen listed, whatever died before.
THEOREM HooksAreReviewed ==
    ASSUME LegacyRows \subseteq [source : Sources, content : Contents, fixture : BOOLEAN],
           Contents # {}
    PROVE  RepairSpec => []OnlyReviewed
<1>1. RepairInv => OnlyReviewed
  BY DEF RepairInv, RepairedOK, OnlyReviewed
<1> QED BY <1>1, RepairInvariant, PTL

\* Twins are left to a review, but for one that a turn has just written.
THEOREM TwinsAreKept ==
    ASSUME LegacyRows \subseteq [source : Sources, content : Contents, fixture : BOOLEAN],
           Contents # {}
    PROVE  RepairSpec => []TwinsAreLeft
<1>1. RepairInv => TwinsAreLeft
  BY DEF RepairInv, RepairedOK, TwinsAreLeft
<1> QED BY <1>1, RepairInvariant, PTL

-----------------------------------------------------------------------------
(* Each hook that was set is recorded, but for one per death. *)

\* The memories whose hook was set and not recorded.
Unrecorded == {r.memory : r \in repaired} \ activities

\* Those that no activity will record any more are no more than the deaths.
CountInv ==
    /\ repairCrashes \in Nat /\ IsFiniteSet(Unrecorded)
    /\ repair.at = "activity" =>
         /\ repair.now \subseteq Unrecorded \cup activities
         /\ \E m : repair.now = {m}
         /\ Cardinality(Unrecorded \ repair.now) <= repairCrashes
    /\ repair.at # "activity" => Cardinality(Unrecorded) <= repairCrashes

\* A set of which one element at most is left out has one element more at most.
LEMMA OneMore ==
    ASSUME NEW S, IsFiniteSet(S), NEW m, NEW n \in Nat, Cardinality(S \ {m}) <= n
    PROVE  Cardinality(S) <= n + 1
<1>1. Cardinality(S) \in Nat
  BY FS_CardinalityType
<1>2. Cardinality(S \ {m}) = IF m \in S THEN Cardinality(S) - 1 ELSE Cardinality(S)
  BY FS_RemoveElement
<1> QED BY <1>1, <1>2

\* The hook that is set now waits for its activity.
LEMMA SetHookCounts ==
    ASSUME RepairInv, CountInv, NEW m \in AllRecords, SetHook(m)
    PROVE  CountInv'
<1>1. /\ repair \in [at : {"hook", "activity"}, todo : SUBSET Legacy, now : SUBSET AllRecords,
                     reviewed : SUBSET AllRecords]
      /\ repair.at = "hook"
      /\ repaired' = repaired \cup {[memory |-> m, among |-> repair.reviewed]}
      /\ repair' = [repair EXCEPT !.at = "activity", !.todo = repair.todo \ {m}, !.now = {m}]
      /\ activities' = activities /\ repairCrashes' = repairCrashes
  BY DEF SetHook, RepairInv, UnderWayOK, RepairIdle
<1>2. repair'.at = "activity" /\ repair'.now = {m}
  BY <1>1
<1>3. Unrecorded' = Unrecorded \cup ({m} \ activities)
  <2> DEFINE hook == [memory |-> m, among |-> repair.reviewed]
  <2>1. repaired' = repaired \cup {hook} /\ hook.memory = m
    BY <1>1
  <2> HIDE DEF hook
  <2>2. {r.memory : r \in repaired'} = {r.memory : r \in repaired} \cup {m}
    BY <2>1
  <2> QED BY <1>1, <2>2 DEF Unrecorded
<1>4. IsFiniteSet(Unrecorded) /\ Cardinality(Unrecorded) <= repairCrashes
      /\ Cardinality(Unrecorded) \in Nat /\ repairCrashes \in Nat
  BY <1>1, FS_CardinalityType DEF CountInv
<1>5. IsFiniteSet(Unrecorded \cup {m})
  BY <1>4, FS_AddElement
<1>6. IsFiniteSet(Unrecorded')
  <2>1. Unrecorded' \in SUBSET (Unrecorded \cup {m})
    BY <1>3
  <2> QED BY <1>5, <2>1, FS_Subset
<1>7. Cardinality(Unrecorded' \ {m}) <= repairCrashes
  <2>1. Unrecorded' \ {m} = Unrecorded \ {m}
    BY <1>3
  <2>2. Unrecorded \ {m} \in SUBSET Unrecorded
    OBVIOUS
  <2>3. /\ Cardinality(Unrecorded \ {m}) <= Cardinality(Unrecorded)
        /\ Cardinality(Unrecorded \ {m}) \in Nat
    <3>1. IsFiniteSet(Unrecorded \ {m})
      BY <1>4, <2>2, FS_Subset
    <3>2. Cardinality(Unrecorded \ {m}) <= Cardinality(Unrecorded)
      BY <1>4, <2>2, FS_Subset
    <3> QED BY <3>1, <3>2, FS_CardinalityType
  <2> QED BY <1>4, <2>1, <2>3
<1>8. repair'.now \subseteq Unrecorded' \cup activities'
  BY <1>1, <1>2, <1>3
<1> QED BY <1>1, <1>2, <1>4, <1>6, <1>7, <1>8 DEF CountInv

\* The activity takes the memory off those that wait.
LEMMA RecordCounts ==
    ASSUME RepairInv, CountInv, RecordRepair
    PROVE  CountInv'
<1>1. /\ repair.at = "activity" /\ repaired' = repaired /\ repairCrashes' = repairCrashes
      /\ activities' = activities \cup repair.now
  BY DEF RecordRepair, ActivityOf
<1>2. repair'.at # "activity"
  BY <1>1 DEF RecordRepair, RepairIdle, RepairInv, UnderWayOK
<1>3. Unrecorded' = Unrecorded \ repair.now
  BY <1>1 DEF Unrecorded
<1>4. IsFiniteSet(Unrecorded')
  BY <1>3, FS_Difference DEF CountInv
<1> QED BY <1>1, <1>2, <1>3, <1>4 DEF CountInv

\* A death leaves one hook at most without its activity.
LEMMA CrashCounts ==
    ASSUME RepairInv, CountInv, RepairCrash
    PROVE  CountInv'
<1>1. /\ repaired' = repaired /\ activities' = activities
      /\ repairCrashes' = repairCrashes + 1 /\ repairCrashes \in Nat
      /\ repair'.at # "activity" /\ Unrecorded' = Unrecorded
  BY DEF RepairCrash, RepairIdle, CountInv, Unrecorded
<1>2. Cardinality(Unrecorded) <= repairCrashes + 1
  <2>1. CASE repair.at = "activity"
    <3>1. PICK m : repair.now = {m}
      BY <2>1 DEF CountInv
    <3>2. Cardinality(Unrecorded \ {m}) <= repairCrashes
      BY <2>1, <3>1 DEF CountInv
    <3> QED BY <3>2, OneMore DEF CountInv
  <2>2. CASE repair.at # "activity"
    <3>1. Cardinality(Unrecorded) \in Nat /\ Cardinality(Unrecorded) <= repairCrashes
      BY <2>2, FS_CardinalityType DEF CountInv
    <3> QED BY <1>1, <3>1
  <2> QED BY <2>1, <2>2
<1> QED BY <1>1, <1>2 DEF CountInv

\* Every step keeps the count.
LEMMA CountStep ==
    ASSUME RepairInv, CountInv, [RepairNext]_repairVars
    PROVE  CountInv'
<1>1. ASSUME repaired' = repaired, activities' = activities, repairCrashes' = repairCrashes,
             repair' = repair \/ (repair.at = "idle" /\ repair'.at = "hook")
      PROVE  CountInv'
  <2>1. Unrecorded' = Unrecorded
    BY <1>1 DEF Unrecorded
  <2> QED BY <1>1, <2>1 DEF CountInv
<1>2. CASE RepairDryRun \/ UNCHANGED repairVars \/ \E content \in Contents : WriteRecord(content)
  BY <1>1, <1>2 DEF RepairDryRun, repairVars, WriteRecord
<1>3. CASE BeginRepair
  BY <1>1, <1>3 DEF BeginRepair
<1> QED
  BY <1>2, <1>3, SetHookCounts, RecordCounts, CrashCounts DEF RepairNext

\* A repair sets the hooks that were reviewed, of memories without a twin, and
\* records each, but for one per death, for any memories, texts and sources
\* (repair_exact_source_messages).
THEOREM RepairsAreReviewed ==
    ASSUME LegacyRows \subseteq [source : Sources, content : Contents, fixture : BOOLEAN],
           Contents # {}
    PROVE  RepairSpec => []RepairIsReviewed
<1>1. RepairInit => CountInv
  <2> SUFFICES ASSUME RepairInit PROVE CountInv
    OBVIOUS
  <2>1. Unrecorded = {} /\ repair.at # "activity" /\ repairCrashes = 0
    BY DEF RepairInit, Unrecorded, RepairIdle
  <2> QED BY <2>1, FS_EmptySet DEF CountInv
<1>2. RepairInv /\ CountInv /\ [RepairNext]_repairVars => CountInv'
  BY CountStep
<1>3. CountInv => RepairsRecorded
  BY DEF CountInv, RepairsRecorded, Unrecorded
<1> QED
  BY <1>1, <1>2, <1>3, RepairInvariant, HooksAreReviewed, TwinsAreKept, PTL
     DEF RepairSpec, RepairIsReviewed

-----------------------------------------------------------------------------
(* The preferences *)

Asked == [PreferenceSet -> GoodValues \cup BadValues \cup {"unnamed"}]

UnderWay ==
    [at : {"find", "put"}, asked : Asked, next : [PreferenceSet -> GoodValues],
     i : 1..Len(Preferences), seen : GoodValues \cup {"unset"}]

\* What the stored values and the saves under way are: a save holds values that
\* its validation took, those it was asked for and the others.
SettingsOK ==
    /\ setting \in [PreferenceSet -> GoodValues \cup {"unset"}]
    /\ overlapped \in BOOLEAN

SavesOK ==
    /\ saving \in [Savers -> {SaveIdle} \cup UnderWay]
    /\ \A s \in Savers : saving[s].at # "idle" =>
         \A p \in PreferenceSet :
           saving[s].asked[p] # "unnamed" => saving[s].next[p] = saving[s].asked[p]

\* Without overlap one save at most is under way, and what it was not asked to
\* change it holds as it is stored, or as the environment has it.
AloneOK ==
    ~overlapped => \A s \in Savers : saving[s].at # "idle" =>
      /\ \A other \in Savers \ {s} : saving[other].at = "idle"
      /\ \A p \in PreferenceSet :
           saving[s].asked[p] = "unnamed" => saving[s].next[p] = Loaded[p]

PreferencesInv == SettingsOK /\ SavesOK /\ AloneOK

USE PreferencesAssumption

\* The first state satisfies the invariant.
LEMMA InvAtStart == PreferencesInit => PreferencesInv
<1> SUFFICES ASSUME PreferencesInit PROVE PreferencesInv
  OBVIOUS
<1>1. \A s \in Savers : saving[s] = SaveIdle /\ saving[s].at = "idle"
  BY DEF PreferencesInit, SaveIdle
<1>2. SettingsOK
  BY DEF PreferencesInit, SettingsOK
<1>3. saving \in [Savers -> {SaveIdle} \cup UnderWay]
  BY DEF PreferencesInit
<1> QED BY <1>1, <1>2, <1>3 DEF PreferencesInv, SavesOK, AloneOK

\* A save under way has a preference to write, and holds a good value for it.
LEMMA NamedPreference ==
    ASSUME NEW i \in 1..Len(Preferences)
    PROVE  Preferences[i] \in PreferenceSet
BY DEF PreferenceSet

\* What is loaded are good values.
LEMMA LoadedGood ==
    ASSUME SettingsOK
    PROVE  Loaded \in [PreferenceSet -> GoodValues]
BY DEF SettingsOK, Loaded

\* After a write a save goes on to the next preference or is done.
LEMMA AfterPutOK ==
    ASSUME NEW s \in Savers, SavesOK, saving[s].at = "put"
    PROVE  /\ saving[s] \in UnderWay
           /\ \/ AfterPut(s, saving[s].i) = SaveIdle
              \/ /\ AfterPut(s, saving[s].i) \in UnderWay
                 /\ AfterPut(s, saving[s].i).asked = saving[s].asked
                 /\ AfterPut(s, saving[s].i).next = saving[s].next
<1>1. saving[s] \in UnderWay
  BY DEF SavesOK, SaveIdle
<1>2. CASE saving[s].i = Len(Preferences)
  BY <1>1, <1>2 DEF AfterPut
<1>3. CASE saving[s].i # Len(Preferences)
  <2>1. saving[s].i + 1 \in 1..Len(Preferences)
    BY <1>1, <1>3 DEF UnderWay
  <2> QED BY <1>1, <1>3, <2>1 DEF AfterPut, UnderWay
<1> QED BY <1>1, <1>2, <1>3

\* A new save is refused or holds good values.
LEMMA BeginKeeps ==
    ASSUME PreferencesInv, NEW s \in Savers, NEW asked \in Asked, BeginSave(s, asked)
    PROVE  PreferencesInv'
<1> DEFINE next == [p \in PreferenceSet |-> NextValue(asked, p)]
           begun == [at |-> "find", asked |-> asked, next |-> next, i |-> 1, seen |-> "unset"]
<1>1. setting' = setting /\ overlapped' \in BOOLEAN /\ (~overlapped' => ~overlapped)
  BY DEF BeginSave, PreferencesInv, SettingsOK
<1>2. saving' = [saving EXCEPT ![s] = IF Accepted(next) THEN begun ELSE SaveIdle]
  BY DEF BeginSave
<1>3. \A p \in PreferenceSet :
        /\ asked[p] # "unnamed" => next[p] = asked[p]
        /\ asked[p] = "unnamed" => next[p] = Loaded[p]
  BY DEF NextValue
<1>4. 1 \in 1..Len(Preferences)
  OBVIOUS
<1>5. Accepted(next) => begun \in UnderWay
  BY <1>4 DEF Accepted, UnderWay, Asked
<1>6. saving' \in [Savers -> {SaveIdle} \cup UnderWay]
  BY <1>2, <1>5 DEF PreferencesInv, SavesOK
<1>7. \A t \in Savers : saving'[t] = IF t = s THEN (IF Accepted(next) THEN begun ELSE SaveIdle)
                                     ELSE saving[t]
  BY <1>2 DEF PreferencesInv, SavesOK
<1>8. SavesOK'
  <2> SUFFICES ASSUME NEW t \in Savers, saving'[t].at # "idle",
                      NEW p \in PreferenceSet, saving'[t].asked[p] # "unnamed"
               PROVE  saving'[t].next[p] = saving'[t].asked[p]
    BY <1>6 DEF SavesOK
  <2>1. CASE t = s /\ saving'[t] = begun
    BY <1>3, <2>1
  <2>2. CASE saving'[t] = saving[t]
    BY <2>2 DEF PreferencesInv, SavesOK
  <2>3. saving'[t] # SaveIdle
    BY DEF SaveIdle
  <2> QED BY <1>7, <2>1, <2>2, <2>3
<1>9. AloneOK'
  <2> SUFFICES ASSUME ~overlapped', NEW t \in Savers, saving'[t].at # "idle"
               PROVE  /\ \A other \in Savers \ {t} : saving'[other].at = "idle"
                      /\ \A p \in PreferenceSet :
                           saving'[t].asked[p] = "unnamed" => saving'[t].next[p] = Loaded'[p]
    BY DEF AloneOK
  <2>1. \A other \in Savers \ {s} : saving[other].at = "idle"
    BY DEF BeginSave
  <2>2. t = s /\ saving'[s] = begun
    BY <1>7, <2>1 DEF SaveIdle
  <2>3. Loaded' = Loaded
    BY <1>1 DEF Loaded
  <2>4. \A other \in Savers \ {t} : saving'[other].at = "idle"
    BY <1>7, <2>1, <2>2
  <2>5. saving'[t].asked = asked /\ saving'[t].next = next
    BY <2>2
  <2> HIDE DEF next, begun
  <2> QED BY <1>3, <2>3, <2>4, <2>5
<1> QED BY <1>1, <1>8, <1>9 DEF PreferencesInv, SettingsOK

\* Looking for a row changes only what the save has seen.
LEMMA FindKeeps ==
    ASSUME PreferencesInv, NEW s \in Savers, FindSetting(s)
    PROVE  PreferencesInv'
<1>1. saving[s] \in UnderWay
  BY DEF FindSetting, PreferencesInv, SavesOK, SaveIdle
<1> DEFINE found == [saving[s] EXCEPT !.at = "put",
                                      !.seen = setting[Preferences[saving[s].i]]]
<1>2. saving' = [saving EXCEPT ![s] = found] /\ setting' = setting /\ overlapped' = overlapped
  BY DEF FindSetting
<1>3. found \in UnderWay /\ found.asked = saving[s].asked /\ found.next = saving[s].next
  BY <1>1, NamedPreference DEF UnderWay, PreferencesInv, SettingsOK
<1>4. \A t \in Savers : saving'[t] = IF t = s THEN found ELSE saving[t]
  BY <1>2 DEF PreferencesInv, SavesOK
<1>5. SavesOK'
  BY <1>2, <1>3, <1>4 DEF PreferencesInv, SavesOK, FindSetting
<1>6. Loaded' = Loaded
  BY <1>2 DEF Loaded
<1>7. AloneOK'
  <2>1. \A t \in Savers : /\ saving'[t].at = "idle" <=> saving[t].at = "idle"
                          /\ saving'[t].asked = saving[t].asked
                          /\ saving'[t].next = saving[t].next
    <3>1. saving[s].at # "idle" /\ found.at = "put"
      BY <1>1 DEF UnderWay
    <3> HIDE DEF found
    <3> QED BY <1>3, <1>4, <3>1
  <2>2. \A p \in PreferenceSet : Loaded'[p] = Loaded[p]
    BY <1>6
  <2> QED BY <1>2, <2>1, <2>2 DEF PreferencesInv, AloneOK
<1> QED BY <1>2, <1>5, <1>7 DEF PreferencesInv, SettingsOK

\* A write stores a good value, and a save that is alone stores what it was
\* asked, or what was worth already.
LEMMA PutKeeps ==
    ASSUME PreferencesInv, NEW s \in Savers, PutSetting(s)
    PROVE  /\ PreferencesInv'
           /\ \A p \in PreferenceSet :
                setting'[p] # setting[p] =>
                  \/ overlapped
                  \/ saving[s].asked[p] = setting'[p]
                  \/ setting[p] = "unset" /\ setting'[p] = DefaultValue
<1> DEFINE q == Preferences[saving[s].i]
           value == saving[s].next[q]
<1>1. /\ saving[s].at = "put" /\ saving[s] \in UnderWay
      /\ overlapped' = overlapped
  BY AfterPutOK DEF PutSetting, PreferencesInv
<1>2. q \in PreferenceSet /\ value \in GoodValues
  BY <1>1, NamedPreference DEF UnderWay
<1>3. setting' = setting \/ setting' = [setting EXCEPT ![q] = value]
  BY DEF PutSetting
<1>4. SettingsOK'
  BY <1>1, <1>2, <1>3 DEF PreferencesInv, SettingsOK
<1>5. PICK after : /\ saving' = [saving EXCEPT ![s] = after]
                   /\ \/ after = SaveIdle
                      \/ /\ after \in UnderWay
                         /\ after.asked = saving[s].asked /\ after.next = saving[s].next
  BY <1>1, AfterPutOK DEF PutSetting, PreferencesInv
<1>6. \A t \in Savers : saving'[t] = IF t = s THEN after ELSE saving[t]
  BY <1>5 DEF PreferencesInv, SavesOK
<1>7. SavesOK'
  <2>1. saving' \in [Savers -> {SaveIdle} \cup UnderWay]
    BY <1>5 DEF PreferencesInv, SavesOK
  <2> QED BY <1>1, <1>5, <1>6, <2>1 DEF PreferencesInv, SavesOK, SaveIdle
<1>8. /\ value = saving[s].asked[q] \/ saving[s].asked[q] = "unnamed"
      /\ saving[s].asked[q] = "unnamed" /\ ~overlapped => value = Loaded[q]
  BY <1>1, <1>2 DEF PreferencesInv, SavesOK, AloneOK
<1>9. \A p \in PreferenceSet : p # q => setting'[p] = setting[p]
  BY <1>2, <1>3 DEF PreferencesInv, SettingsOK
<1>10. setting'[q] = setting[q] \/ setting'[q] = value
  BY <1>2, <1>3 DEF PreferencesInv, SettingsOK
<1>11. Loaded[q] = IF setting[q] = "unset" THEN DefaultValue ELSE setting[q]
  BY <1>2 DEF Loaded
<1>12. AloneOK'
  <2> SUFFICES ASSUME ~overlapped', NEW t \in Savers, saving'[t].at # "idle"
               PROVE  /\ \A other \in Savers \ {t} : saving'[other].at = "idle"
                      /\ \A p \in PreferenceSet :
                           saving'[t].asked[p] = "unnamed" => saving'[t].next[p] = Loaded'[p]
    BY DEF AloneOK
  <2>1. \A other \in Savers \ {s} : saving[other].at = "idle"
    BY <1>1 DEF PreferencesInv, AloneOK
  <2>2. t = s
    BY <1>6, <2>1
  <2>3. saving'[t].asked = saving[s].asked /\ saving'[t].next = saving[s].next
    BY <1>5, <1>6, <2>2 DEF SaveIdle
  <2>4. ASSUME NEW p \in PreferenceSet, saving[s].asked[p] = "unnamed"
        PROVE  saving[s].next[p] = Loaded'[p]
    <3>1. saving[s].next[p] = Loaded[p]
      BY <1>1, <2>4 DEF PreferencesInv, AloneOK
    <3>2. Loaded'[p] = IF setting'[p] = "unset" THEN DefaultValue ELSE setting'[p]
      BY DEF Loaded
    <3>3. Loaded[p] = IF setting[p] = "unset" THEN DefaultValue ELSE setting[p]
      BY DEF Loaded
    <3>4. value # "unset"
      BY <1>2, PreferencesAssumption
    <3> QED BY <1>9, <1>10, <3>1, <3>2, <3>3, <3>4
  <2> QED BY <1>6, <2>1, <2>2, <2>3, <2>4
<1>13. ASSUME NEW p \in PreferenceSet, setting'[p] # setting[p], ~overlapped
       PROVE  \/ saving[s].asked[p] = setting'[p]
              \/ setting[p] = "unset" /\ setting'[p] = DefaultValue
  BY <1>8, <1>9, <1>10, <1>11, <1>13
<1> QED BY <1>4, <1>7, <1>12, <1>13 DEF PreferencesInv

\* A death leaves the stored values.
LEMMA CrashKeeps ==
    ASSUME PreferencesInv, SaveCrash
    PROVE  PreferencesInv'
BY DEF PreferencesInv, SettingsOK, SavesOK, AloneOK, SaveCrash, SaveIdle

\* Every step of the preferences keeps the invariant.
LEMMA PreferencesStep ==
    ASSUME PreferencesInv, [PreferencesNext]_preferenceVars
    PROVE  PreferencesInv'
<1>1. CASE \E s \in Savers : FindSetting(s)
  BY <1>1, FindKeeps
<1>2. CASE \E s \in Savers : PutSetting(s)
  BY <1>2, PutKeeps
<1>3. CASE \E s \in Savers, asked \in Asked : BeginSave(s, asked)
  BY <1>3, BeginKeeps
<1>4. CASE SaveCrash
  BY <1>4, CrashKeeps
<1>5. CASE UNCHANGED preferenceVars
  BY <1>5 DEF preferenceVars, PreferencesInv, SettingsOK, SavesOK, AloneOK, Loaded
<1> QED BY <1>1, <1>2, <1>3, <1>4, <1>5 DEF PreferencesNext, Asked

\* Stored values and saves under way are good, whatever saves overlap or die
\* (load_runtime_preferences and save_runtime_preferences).
THEOREM PreferencesInvariant == PreferencesSpec => []PreferencesInv
<1>1. PreferencesInv /\ [PreferencesNext]_preferenceVars => PreferencesInv'
  BY PreferencesStep
<1> QED BY InvAtStart, <1>1, PTL DEF PreferencesSpec

\* Whatever the number of overlapping saves and of deaths, a turn loads values
\* that the validation of load_runtime_preferences takes.
THEOREM TurnsLoad == PreferencesSpec => []EveryTurnLoads
<1>1. PreferencesInv => EveryTurnLoads
  BY DEF PreferencesInv, SettingsOK, EveryTurnLoads
<1> QED BY <1>1, PreferencesInvariant, PTL

\* A save that overlaps no other changes only what it was asked to change, or
\* creates the row of what was worth already.
THEOREM ChangesAreNamed == PreferencesSpec => OnlyNamedChange
<1> DEFINE Change ==
      \A p \in PreferenceSet :
         setting'[p] # setting[p] =>
           \/ overlapped
           \/ \E s \in Savers : saving[s].at = "put" /\ saving[s].asked[p] = setting'[p]
           \/ setting[p] = "unset" /\ setting'[p] = DefaultValue
<1>1. PreferencesInv /\ [PreferencesNext]_preferenceVars => [Change]_preferenceVars
  <2> SUFFICES ASSUME PreferencesInv, PreferencesNext PROVE Change
    OBVIOUS
  <2>1. CASE \E s \in Savers : PutSetting(s)
    BY <2>1, PutKeeps DEF PutSetting
  <2>2. CASE setting' = setting
    BY <2>2
  <2> QED BY <2>1, <2>2 DEF PreferencesNext, FindSetting, BeginSave, SaveCrash
<1> QED BY <1>1, PreferencesInvariant, PTL DEF PreferencesSpec, OnlyNamedChange

-----------------------------------------------------------------------------
(* All preferences are stored, or none, unless a save was cut. *)

\* A save that is under way has stored what it went past, and a row it found
\* does not go away.
StoredSoFar ==
    \A s \in Savers : saving[s].at # "idle" =>
      /\ \A j \in 1..Len(Preferences) :
           j < saving[s].i => setting[Preferences[j]] # "unset"
      /\ saving[s].at = "put" /\ saving[s].seen # "unset" =>
           setting[Preferences[saving[s].i]] # "unset"

WholeInv == PreferencesInv /\ StoredSoFar /\ WholeUnlessCut

\* A write takes no stored preference away.
LEMMA PutIsMonotone ==
    ASSUME PreferencesInv, NEW s \in Savers, PutSetting(s)
    PROVE  /\ saving[s].at = "put" /\ saving[s] \in UnderWay
           /\ saving[s].next[Preferences[saving[s].i]] # "unset"
           /\ Preferences[saving[s].i] \in PreferenceSet
           /\ \A p \in PreferenceSet : setting[p] # "unset" => setting'[p] # "unset"
<1> DEFINE q == Preferences[saving[s].i]
           value == saving[s].next[q]
<1>1. saving[s].at = "put" /\ saving[s] \in UnderWay
  BY AfterPutOK DEF PutSetting, PreferencesInv
<1>2. q \in PreferenceSet /\ value \in GoodValues
  BY <1>1, NamedPreference DEF UnderWay
<1>3. value # "unset"
  BY <1>2, PreferencesAssumption
<1>4. setting' = setting \/ setting' = [setting EXCEPT ![q] = value]
  BY DEF PutSetting
<1>5. ASSUME NEW p \in PreferenceSet, setting[p] # "unset" PROVE setting'[p] # "unset"
  BY <1>2, <1>3, <1>4, <1>5 DEF PreferencesInv, SettingsOK
<1> QED BY <1>1, <1>2, <1>3, <1>5

\* A save that wrote its preference goes on, or ends when all are stored.
LEMMA StoredKeepsWhole ==
    ASSUME WholeInv, NEW s \in Savers, PutSetting(s), cutSave' = cutSave,
           saving[s].seen = "unset" \/ setting[Preferences[saving[s].i]] # "unset",
           saving[s].seen = saving[s].next[Preferences[saving[s].i]] => setting' = setting,
           saving[s].seen # saving[s].next[Preferences[saving[s].i]] =>
             setting' = [setting EXCEPT ![Preferences[saving[s].i]] =
                           saving[s].next[Preferences[saving[s].i]]],
           saving' = [saving EXCEPT ![s] = AfterPut(s, saving[s].i)]
    PROVE  StoredSoFar' /\ WholeUnlessCut'
<1> DEFINE i == saving[s].i
           q == Preferences[i]
<1>1. /\ saving[s].at = "put" /\ saving[s] \in UnderWay
      /\ saving[s].next[q] # "unset" /\ q \in PreferenceSet
      /\ \A p \in PreferenceSet : setting[p] # "unset" => setting'[p] # "unset"
  BY PutIsMonotone DEF WholeInv
<1>2. i \in 1..Len(Preferences)
  BY <1>1 DEF UnderWay
<1>3. setting'[q] # "unset"
  <2>1. CASE saving[s].seen = saving[s].next[q]
    BY <1>1, <2>1
  <2>2. CASE saving[s].seen # saving[s].next[q]
    BY <1>1, <2>2 DEF WholeInv, PreferencesInv, SettingsOK
  <2> QED BY <2>1, <2>2
<1>4. \A j \in 1..Len(Preferences) : j <= i => setting'[Preferences[j]] # "unset"
  <2> SUFFICES ASSUME NEW j \in 1..Len(Preferences), j <= i
               PROVE  setting'[Preferences[j]] # "unset"
    OBVIOUS
  <2>1. CASE j = i
    BY <1>3, <2>1
  <2>2. CASE j < i
    <3>1. setting[Preferences[j]] # "unset"
      BY <1>1, <2>2 DEF WholeInv, StoredSoFar
    <3> QED BY <1>1, <3>1, NamedPreference
  <2> QED BY <1>2, <2>1, <2>2
<1>5. \A t \in Savers : saving'[t] = IF t = s THEN AfterPut(s, i) ELSE saving[t]
  BY DEF WholeInv, PreferencesInv, SavesOK
<1>6. CASE i = Len(Preferences)
  <2>1. AfterPut(s, i) = SaveIdle
    BY <1>6 DEF AfterPut
  <2>2. \A p \in PreferenceSet : setting'[p] # "unset"
    BY <1>2, <1>4, <1>6 DEF PreferenceSet
  <2>3. StoredSoFar'
    <3> SUFFICES ASSUME NEW t \in Savers, saving'[t].at # "idle"
                 PROVE  /\ \A j \in 1..Len(Preferences) : setting'[Preferences[j]] # "unset"
                        /\ saving'[t].i \in 1..Len(Preferences)
      BY DEF StoredSoFar
    <3>1. saving'[t] = saving[t] /\ saving[t] \in UnderWay
      BY <1>5, <2>1 DEF SaveIdle, WholeInv, PreferencesInv, SavesOK
    <3> QED BY <2>2, <3>1, NamedPreference DEF UnderWay
  <2> QED BY <2>2, <2>3 DEF WholeUnlessCut
<1>7. CASE i # Len(Preferences)
  <2>1. AfterPut(s, i) = [saving[s] EXCEPT !.at = "find", !.i = i + 1]
    BY <1>7 DEF AfterPut
  <2>2. saving'[s].at = "find" /\ saving'[s].i = i + 1
    <3>1. saving'[s] = [saving[s] EXCEPT !.at = "find", !.i = i + 1]
      BY <1>5, <2>1
    <3> HIDE DEF i, q
    <3> QED BY <1>1, <3>1 DEF UnderWay
  <2>3. ~(\A t \in Savers : saving'[t].at = "idle")
    BY <2>2
  <2>4. StoredSoFar'
    <3> SUFFICES ASSUME NEW t \in Savers, saving'[t].at # "idle"
                 PROVE  /\ \A j \in 1..Len(Preferences) :
                             j < saving'[t].i => setting'[Preferences[j]] # "unset"
                        /\ saving'[t].at = "put" /\ saving'[t].seen # "unset" =>
                             setting'[Preferences[saving'[t].i]] # "unset"
      BY DEF StoredSoFar
    <3>1. CASE t = s
      BY <1>2, <1>4, <2>2, <3>1
    <3>2. CASE t # s
      <4>1. saving'[t] = saving[t] /\ saving[t] \in UnderWay
        BY <1>5, <3>2 DEF SaveIdle, WholeInv, PreferencesInv, SavesOK
      <4> QED BY <1>1, <4>1, NamedPreference DEF UnderWay, WholeInv, StoredSoFar
    <3> QED BY <3>1, <3>2
  <2> QED BY <2>3, <2>4 DEF WholeUnlessCut
<1> QED BY <1>6, <1>7

\* A write keeps the invariant, also when it finds its key taken.
LEMMA PutKeepsWhole ==
    ASSUME WholeInv, NEW s \in Savers, PutSetting(s)
    PROVE  StoredSoFar' /\ WholeUnlessCut'
<1>1. /\ saving[s].at = "put" /\ saving[s] \in UnderWay
      /\ \A p \in PreferenceSet : setting[p] # "unset" => setting'[p] # "unset"
  BY PutIsMonotone DEF WholeInv
<1>2. CASE saving' = [saving EXCEPT ![s] = SaveIdle] /\ cutSave' = TRUE
  <2>1. \A t \in Savers : saving'[t] = IF t = s THEN SaveIdle ELSE saving[t]
    BY <1>2 DEF WholeInv, PreferencesInv, SavesOK
  <2>2. StoredSoFar'
    <3> SUFFICES ASSUME NEW t \in Savers, saving'[t].at # "idle"
                 PROVE  /\ \A j \in 1..Len(Preferences) :
                             j < saving'[t].i => setting'[Preferences[j]] # "unset"
                        /\ saving'[t].at = "put" /\ saving'[t].seen # "unset" =>
                             setting'[Preferences[saving'[t].i]] # "unset"
      BY DEF StoredSoFar
    <3>1. saving'[t] = saving[t] /\ saving[t] \in UnderWay
      BY <2>1 DEF SaveIdle, WholeInv, PreferencesInv, SavesOK
    <3> QED BY <1>1, <3>1, NamedPreference DEF UnderWay, WholeInv, StoredSoFar
  <2> QED BY <1>2, <2>2 DEF WholeUnlessCut
<1>3. CASE ~(saving' = [saving EXCEPT ![s] = SaveIdle] /\ cutSave' = TRUE)
  <2>1. /\ cutSave' = cutSave
        /\ saving' = [saving EXCEPT ![s] = AfterPut(s, saving[s].i)]
        /\ setting' = IF saving[s].seen = saving[s].next[Preferences[saving[s].i]] THEN setting
                      ELSE [setting EXCEPT ![Preferences[saving[s].i]] =
                              saving[s].next[Preferences[saving[s].i]]]
    BY <1>3 DEF PutSetting
  <2>2. saving[s].seen = "unset" \/ setting[Preferences[saving[s].i]] # "unset"
    BY <1>1 DEF WholeInv, StoredSoFar
  <2> QED BY <2>1, <2>2, StoredKeepsWhole
<1> QED BY <1>2, <1>3

\* A new save has gone past nothing.
LEMMA BeginKeepsWhole ==
    ASSUME WholeInv, NEW s \in Savers, NEW asked \in Asked, BeginSave(s, asked)
    PROVE  StoredSoFar' /\ WholeUnlessCut'
<1> DEFINE begun == saving'[s]
<1>1. /\ setting' = setting /\ cutSave' = cutSave /\ saving[s].at = "idle"
      /\ begun = SaveIdle \/ (begun.at = "find" /\ begun.i = 1)
      /\ \A t \in Savers \ {s} : saving'[t] = saving[t]
  BY DEF BeginSave, WholeInv, PreferencesInv, SavesOK
<1>2. begun.at = "idle" \/ (begun.at = "find" /\ begun.i = 1)
  BY <1>1 DEF SaveIdle
<1>3. StoredSoFar'
  BY <1>1, <1>2 DEF WholeInv, StoredSoFar
<1>4. WholeUnlessCut'
  BY <1>1 DEF WholeInv, WholeUnlessCut
<1> QED BY <1>3, <1>4

\* A save that looks for a row sees what is stored.
LEMMA FindKeepsWhole ==
    ASSUME WholeInv, NEW s \in Savers, FindSetting(s)
    PROVE  StoredSoFar' /\ WholeUnlessCut'
<1>1. saving[s] \in UnderWay /\ saving[s].at = "find"
  BY DEF FindSetting, WholeInv, PreferencesInv, SavesOK, SaveIdle
<1>2. /\ setting' = setting
      /\ saving'[s].at = "put" /\ saving'[s].i = saving[s].i
      /\ saving'[s].seen = setting[Preferences[saving[s].i]]
      /\ \A t \in Savers \ {s} : saving'[t] = saving[t]
  BY <1>1 DEF FindSetting, WholeInv, PreferencesInv, SavesOK, UnderWay
<1>3. StoredSoFar'
  <2> SUFFICES ASSUME NEW t \in Savers, saving'[t].at # "idle"
               PROVE  /\ \A j \in 1..Len(Preferences) :
                           j < saving'[t].i => setting'[Preferences[j]] # "unset"
                      /\ saving'[t].at = "put" /\ saving'[t].seen # "unset" =>
                           setting'[Preferences[saving'[t].i]] # "unset"
    BY DEF StoredSoFar
  <2>1. CASE t = s
    BY <1>1, <1>2, <2>1 DEF WholeInv, StoredSoFar
  <2>2. CASE t # s
    BY <1>2, <2>2 DEF WholeInv, StoredSoFar
  <2> QED BY <2>1, <2>2
<1>4. WholeUnlessCut'
  BY <1>2 DEF WholeUnlessCut
<1> QED BY <1>3, <1>4

\* Every step of the preferences keeps what is whole.
LEMMA WholeStep ==
    ASSUME WholeInv, [PreferencesNext]_preferenceVars
    PROVE  WholeInv'
<1>1. PreferencesInv'
  BY PreferencesStep DEF WholeInv
<1>2. CASE \E s \in Savers : FindSetting(s)
  BY <1>1, <1>2, FindKeepsWhole DEF WholeInv
<1>3. CASE \E s \in Savers : PutSetting(s)
  BY <1>1, <1>3, PutKeepsWhole DEF WholeInv
<1>4. CASE \E s \in Savers, asked \in Asked : BeginSave(s, asked)
  BY <1>1, <1>4, BeginKeepsWhole DEF WholeInv
<1>5. CASE SaveCrash
  <2>1. cutSave' /\ \A s \in Savers : saving'[s].at = "idle"
    BY <1>5 DEF SaveCrash, SaveIdle
  <2> QED BY <1>1, <2>1 DEF WholeInv, StoredSoFar, WholeUnlessCut
<1>6. CASE UNCHANGED preferenceVars
  BY <1>1, <1>6 DEF preferenceVars, WholeInv, StoredSoFar, WholeUnlessCut
<1> QED BY <1>2, <1>3, <1>4, <1>5, <1>6 DEF PreferencesNext, Asked

\* What is stored is valid, and all of it or nothing unless a save was cut, for
\* any number of overlapping saves and of deaths (save_runtime_preferences).
THEOREM PreferencesAreSound == PreferencesSpec => []PreferencesSound
<1>1. PreferencesInit => WholeInv
  <2>1. PreferencesInit => StoredSoFar /\ WholeUnlessCut
    BY DEF PreferencesInit, StoredSoFar, WholeUnlessCut, SaveIdle
  <2> QED BY <2>1, InvAtStart DEF WholeInv
<1>2. WholeInv /\ [PreferencesNext]_preferenceVars => WholeInv'
  BY WholeStep
<1>3. WholeInv => WholeUnlessCut
  BY DEF WholeInv
<1> QED BY <1>1, <1>2, <1>3, TurnsLoad, PTL DEF PreferencesSpec, PreferencesSound

=============================================================================
