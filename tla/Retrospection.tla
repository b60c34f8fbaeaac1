--------------------------- MODULE Retrospection ----------------------------
(***************************************************************************)
(* A metacognition step of a running turn (mind/metacognition.py): it reads*)
(* the rows of the newest turn that was completed and had started before   *)
(* the asking one, has a provider review them, lets it repair once a review*)
(* that does not parse, and records a trace of what came.  Turns of a      *)
(* session may overlap; a turn commits its answer, its response trace, its *)
(* completion and the event of its completion one after the other          *)
(* (api/chat_native_turn.py).                                              *)
(***************************************************************************)
EXTENDS Naturals, FiniteSets

CONSTANTS MaxReviewTurns, MaxReviews

VARIABLES
    past,      \* turn -> [status, rows, before: the turns completed when it started]
    started,   \* turns that have started, numbered as they start
    review,    \* the step under way
    reviews,   \* steps begun
    stepRows   \* [traces, answers, calls]: rows of the steps, and what the provider did

retroVars == <<past, started, review, reviews, stepRows>>

ReviewTurns == 1..MaxReviewTurns
ReviewIdle == [at |-> "idle"]
RowKinds == {"question", "answer", "response", "event"}

-----------------------------------------------------------------------------
(* Turns *)

StartTurn(t) ==
    /\ t = started + 1
    /\ started' = t
    /\ past' = [past EXCEPT ![t] = [status |-> "running", rows |-> {"question"}, before |->
                                      {u \in ReviewTurns : past[u].status = "completed"}]]
    /\ UNCHANGED <<review, reviews, stepRows>>

Commit(t, row) ==
    /\ past' = [past EXCEPT ![t].rows = @ \cup {row}]
    /\ UNCHANGED <<started, review, reviews, stepRows>>

\* The answer's message, then the trace of the response it is taken from.
StoreTurnAnswer(t) ==
    past[t].status = "running" /\ "answer" \notin past[t].rows /\ Commit(t, "answer")
StoreResponse(t) ==
    past[t].status = "running" /\ "answer" \in past[t].rows /\ Commit(t, "response")

EndTurn(t, status) ==
    /\ past' = [past EXCEPT ![t].status = status]
    /\ UNCHANGED <<started, review, reviews, stepRows>>
CompleteTurn(t) ==
    past[t].status = "running" /\ "response" \in past[t].rows /\ EndTurn(t, "completed")
Fail(t) == past[t].status = "running" /\ EndTurn(t, "failed")
Announce(t) == past[t].status = "completed" /\ Commit(t, "event")

-----------------------------------------------------------------------------
(* The step *)

\* A bug: any turn that started before is taken.
ReviewableFaultAny(asker) ==
    {t \in ReviewTurns : past[t].status # "none" /\ t < asker}
\* Turns of the session that are completed and started before the asking turn.
Reviewable(asker) ==
    {t \in ReviewTurns : past[t].status = "completed" /\ t < asker}

\* A bug: the oldest is taken.
NewestFaultOldest(turns) == CHOOSE t \in turns : \A u \in turns : t <= u
Newest(turns) == CHOOSE t \in turns : \A u \in turns : t >= u

\* _build_retrospection_pack: the turn is chosen, then its rows are read kind by kind.
BeginReview(asker) ==
    /\ review.at = "idle" /\ reviews < MaxReviews /\ past[asker].status = "running"
    /\ reviews' = reviews + 1
    /\ review' = IF Reviewable(asker) = {}
                 THEN [at |-> "ask", asker |-> asker, of |-> {}, unread |-> {}, pack |-> {}]
                 ELSE [at |-> "read", asker |-> asker, of |-> {Newest(Reviewable(asker))},
                       unread |-> RowKinds, pack |-> {}]
    /\ UNCHANGED <<past, started, stepRows>>

ReadRows(kind) ==
    /\ review.at = "read" /\ kind \in review.unread
    /\ review' = [review EXCEPT !.unread = @ \ {kind},
                    !.pack = @ \cup {r \in {kind} : \E t \in review.of : r \in past[t].rows},
                    !.at = IF review.unread = {kind} THEN "ask" ELSE "read"]
    /\ UNCHANGED <<past, started, reviews, stepRows>>

\* _add_trace: what the provider said is recorded, usable or not.
Record(from) ==
    /\ review' = ReviewIdle
    /\ stepRows' = [from EXCEPT !.traces = @ + 1]
    /\ UNCHANGED <<past, started, reviews>>

\* The provider is not configured or fails: the step fails without a trace.
ProviderFails ==
    /\ review.at = "ask"
    /\ review' = ReviewIdle
    /\ stepRows' = [stepRows EXCEPT !.calls = 0]
    /\ UNCHANGED <<past, started, reviews>>

Called == [stepRows EXCEPT !.calls = IF review.at = "ask" THEN 1 ELSE @ + 1,
                           !.answers = IF review.at = "ask" THEN @ + 1 ELSE @]

ReviewParses == review.at \in {"ask", "repair"} /\ Record(Called)

\* A bug: a review that still does not parse is sent again.
GivesUpFaultNever == FALSE
\* After one repair, the review is given up.
GivesUp == review.at = "repair"

ReviewMalformed ==
    /\ review.at \in {"ask", "repair"}
    /\ \/ GivesUp /\ Record(Called)
       \/ /\ ~GivesUp
          /\ review' = [review EXCEPT !.at = "repair"]
          /\ stepRows' = Called
          /\ UNCHANGED <<past, started, reviews>>

\* The repair fails: the malformed review is recorded.
RepairFails == review.at = "repair" /\ Record(Called)

-----------------------------------------------------------------------------

RetroInit ==
    /\ past = [t \in ReviewTurns |->
                 [status |-> "none", rows |-> {}, before |-> {}]]
    /\ started = 0 /\ review = ReviewIdle /\ reviews = 0
    /\ stepRows = [traces |-> 0, answers |-> 0, calls |-> 0]

RetroNext ==
    \/ \E t \in ReviewTurns :
         \/ StartTurn(t) \/ StoreTurnAnswer(t) \/ StoreResponse(t) \/ CompleteTurn(t) \/ Fail(t)
         \/ Announce(t) \/ BeginReview(t)
    \/ \E kind \in RowKinds : ReadRows(kind)
    \/ ProviderFails \/ ReviewParses \/ ReviewMalformed \/ RepairFails

RetroSpec == RetroInit /\ [][RetroNext]_retroVars

-----------------------------------------------------------------------------
(* Properties *)

\* A pack holds the question, the answer and the response of its (native) turn,
\* though turns overlap and the rows are read one kind after the other: a review never
\* takes a turn under way for what was said.
PackIsWhole ==
    review.at \in {"ask", "repair"} /\ review.of # {} =>
      {"question", "answer", "response"} \subseteq review.pack

\* The turn under review is no older than any turn that was completed when the
\* asking turn started, and a pack is missing only when there was none.
NothingNewerSkipped ==
    review.at # "idle" =>
      \A t \in past[review.asker].before :
        \E u \in review.of : u >= t

\* handle_metacognition_step: every review the provider gave leaves one trace,
\* repaired or not, and costs two calls at most.
EveryReviewTraced ==
    /\ stepRows.calls <= 2
    /\ stepRows.traces = stepRows.answers - (IF review.at = "repair" THEN 1 ELSE 0)

\* A review is of the right turn, of all of it, and leaves one trace.
ReviewIsWhole == PackIsWhole /\ NothingNewerSkipped /\ EveryReviewTraced

=============================================================================
