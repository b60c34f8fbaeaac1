--------------------------- MODULE AnswerControl ----------------------------
(***************************************************************************)
(* A native turn from its request to its stored answer: the model and tool *)
(* loop of the provider adapter (llm/minimax_client.py), the obligations a *)
(* final answer must meet (runtime/answer_obligations.py) and one bounded  *)
(* correction (api/chat_native_turn.py), answered at once or as a stream.  *)
(*                                                                         *)
(* The text of a model message is a sequence of blocks.  A block is plain, *)
(* ends with the private final marker, or is nothing but the marker.       *)
(***************************************************************************)
EXTENDS AnswerDuties

CONSTANTS
    Texts,          \* texts the model may end with, <<>> if none
    NoteTexts,      \* texts it may write beside tool calls
    BaseDuties,     \* obligations the context may bring: conflict, source
    MaxRetries,     \* incomplete_final_max_retries
    MaxCalls        \* bound: tool calls of the turn

ASSUME AnswerAssumption ==
    /\ Texts \cup NoteTexts \subseteq Seq({"plain", "ended", "bare"})
    /\ MaxRetries \in Nat /\ MaxCalls \in Nat

VARIABLES
    setting,    \* [stream, active]: the transport, answer_obligations_mode = active
    base,       \* the obligations compiled before the request
    at,         \* what the request thread does next
    first,      \* the rejected draft, if there is one
    draft,      \* the result under way: messages, executed calls, retries
    queue,      \* tool uses of the last message that have not run
    verdict,    \* the accepted text and the obligations it was judged on
    log,        \* the turn's events that are a text, a tool call or its failure
    live,       \* positions of the events the stream has shown
    pending,    \* pending_runtime_events
    seen,       \* semantic_content_event_seen
    stored      \* the assistant message and what the turn adds to the history

answerVars == <<setting, base, at, first, draft, queue, verdict, log, live, pending, seen,
                stored>>

NoDraft == [raw |-> <<>>, calls |-> <<>>, retries |-> 0]
Nothing == [text |-> <<>>, passed |-> {}]
NotStored == [text |-> <<>>, history |-> <<>>]

Corrected == first.raw # <<>>
Calls == first.calls \o draft.calls
Ended == at \in {"completed", "failed"}

-----------------------------------------------------------------------------
(* The private final marker *)

\* strip_native_final_marker of one block, and of the blocks of a message: a
\* block that is nothing but the marker is left as it is.
StripBlock(block) == IF block = "ended" THEN "plain" ELSE block
StripBlocks(text) == [i \in DOMAIN text |-> StripBlock(text[i])]

\* strip_native_final_marker of the joined text: it ends with the marker and
\* something stands before it.
Marked(text) ==
    /\ text # <<>>
    /\ Last(text) = "ended" \/ (Last(text) = "bare" /\ Len(text) > 1)

Public(text) ==
    CASE ~Marked(text) -> text
      [] Marked(text) /\ Last(text) = "ended" -> Append(Front(text), "plain")
      [] OTHER -> Front(text)

-----------------------------------------------------------------------------
(* Obligations *)

\* A bug: the calls of the rejected draft are forgotten.
JudgedCallsFaultLast == draft.calls

\* _merge_answer_recovery_results: a correction answers for the calls of both drafts.
JudgedCalls == first.calls \o draft.calls

Manifest == {Duty(about, 0) : about \in base} \cup ToolDuties(JudgedCalls)
Finality == Duty("finality", 0)

-----------------------------------------------------------------------------
(* The event log and the stream *)

Event(type, text) == [type |-> type, text |-> text]
Positions(events) == [i \in DOMAIN events |-> Len(log) + i]

\* Events of the first request reach the log and the stream as they come; those
\* of the correction are collected by generate_chat_with_tools and dropped.
Streams == setting.stream /\ ~Corrected

\* A bug: what the stream says is shown before the tool events that wait.
RecordFaultLate(tools, events) ==
    /\ log' = log \o tools \o (IF Streams THEN events ELSE <<>>)
    /\ IF Streams /\ events # <<>>
       THEN live' = live \o Positions(tools \o events) \o pending /\ pending' = <<>>
       ELSE pending' = (IF setting.stream THEN pending \o Positions(tools) ELSE pending)
            /\ UNCHANGED live

\* A bug: the waiting events are cleared and not shown.
RecordFaultCleared(tools, events) ==
    /\ log' = log \o tools \o (IF Streams THEN events ELSE <<>>)
    /\ IF Streams /\ events # <<>>
       THEN live' = live \o [i \in DOMAIN events |-> Len(log) + Len(tools) + i] /\ pending' = <<>>
       ELSE pending' = (IF setting.stream THEN pending \o Positions(tools) ELSE pending)
            /\ UNCHANGED live

\* Events of the tool runner wait in the list of the stream; before an event of
\* the provider's stream they are flushed.
Record(tools, events) ==
    /\ log' = log \o tools \o (IF Streams THEN events ELSE <<>>)
    /\ IF Streams /\ events # <<>>
       THEN live' = live \o pending \o Positions(tools \o events) /\ pending' = <<>>
       ELSE pending' = (IF setting.stream THEN pending \o Positions(tools) ELSE pending)
            /\ UNCHANGED live

\* record_failed_native_turn and the terminal error of the stream.
FailTurn ==
    /\ at' = "failed"
    /\ log' = Append(log, Event("failed", <<>>))
    /\ live' = IF setting.stream THEN Append(live, Len(log) + 1) ELSE live
    /\ UNCHANGED <<setting, base, first, draft, queue, verdict, pending, seen, stored>>

-----------------------------------------------------------------------------
(* The model and tool loop: stream_chat_with_tools *)

Said(text, uses) == [role |-> "assistant", text |-> text, uses |-> uses]

Ids(uses) == [i \in DOMAIN uses |-> uses[i].id]

\* What the stream shows of the texts of a message: notes beside tool calls, and
\* an answer only where no obligation has to be checked first.
ShownType(uses) ==
    IF uses # <<>> THEN {"note"} ELSE IF setting.active THEN {} ELSE {"answer"}

TextEvents(text, uses) ==
    IF ShownType(uses) = {} THEN <<>>
    ELSE [i \in DOMAIN text |->
            Event(CHOOSE type \in ShownType(uses) : TRUE, <<StripBlock(text[i])>>)]

\* A bug: one continuation too many.
MayRetryFaultOne == draft.retries <= MaxRetries

MayRetry == draft.retries < MaxRetries

\* The model ends without text or tool call: once more, after a message that
\* only thought.
OnlyThinks ==
    /\ at = "request" /\ MayRetry
    /\ draft' = [draft EXCEPT !.retries = @ + 1]
    /\ seen' = (seen \/ Streams)
    /\ UNCHANGED <<setting, base, at, first, queue, verdict, log, live, pending, stored>>

\* The request fails, or the model ends empty a last time.
ProviderFails == at = "request" /\ FailTurn

\* Tool uses of one message; their ids are fresh.
Uses == {[i \in 1..Len(ops) |-> [id |-> Len(Calls) + i, op |-> ops[i]]] :
           ops \in UNION {[1..n -> Ops] : n \in 0..(MaxCalls - Len(Calls))}}

\* The model says something, calls tools, or both.
Speaks(text, uses) ==
    /\ at = "request"
    /\ IF uses = <<>> THEN text \in Texts \ {<<>>} ELSE text \in NoteTexts
    /\ draft' = [draft EXCEPT !.raw = Append(@, Said(text, Ids(uses)))]
    /\ queue' = uses
    /\ at' = IF uses = <<>> THEN "judge" ELSE "tool"
    /\ Record(<<>>, TextEvents(text, uses))
    /\ seen' = (seen \/ (Streams /\ TextEvents(text, uses) # <<>>))
    /\ UNCHANGED <<setting, base, first, verdict, stored>>

\* run: the tool call is recorded as started ...
StartTool ==
    /\ at = "tool"
    /\ Record(<<Event("started", <<Head(queue).id>>)>>, <<>>)
    /\ at' = "running"
    /\ UNCHANGED <<setting, base, first, draft, queue, verdict, seen, stored>>

\* ... and, when the shell has answered, as completed; then its result is shown.
FinishTool(result) ==
    LET call == [id |-> Head(queue).id, op |-> Head(queue).op, result |-> result] IN
    /\ at = "running"
    /\ draft' = [draft EXCEPT !.calls = Append(@, call)]
    /\ queue' = Tail(queue)
    /\ at' = IF Tail(queue) = <<>> THEN "request" ELSE "tool"
    /\ Record(<<Event("completed", <<call.id>>)>>, <<Event("returned", <<call.id>>)>>)
    /\ UNCHANGED <<setting, base, first, verdict, seen, stored>>

-----------------------------------------------------------------------------
(* Judging a draft: _enforce_native_answer_obligations *)

FinalText == Last(draft.raw).text

\* The second draft may lack the marker if the judge finds it conclusive.
Fallback == Corrected /\ ~Marked(FinalText) /\ FinalText # <<"bare">>

\* A bug: the fallback is not judged on being final.
DutiesFaultNoFinality == Manifest

Duties == Manifest \cup (IF Fallback THEN {Finality} ELSE {})

Accept(passed) ==
    /\ verdict' = [text |-> Public(FinalText), passed |-> passed]
    /\ at' = "accepted"
    /\ UNCHANGED <<setting, base, first, draft, queue, log, live, pending, seen, stored>>

\* A bug: a rejected draft is not remembered, every rejection is the first.
RejectFaultForgotten ==
    /\ draft' = NoDraft /\ at' = "request"
    /\ UNCHANGED <<setting, base, first, queue, verdict, log, live, pending, seen, stored>>

\* The first rejection asks for one correction; the second fails the turn.
Reject ==
    IF Corrected THEN FailTurn
    ELSE /\ first' = draft /\ draft' = NoDraft
         /\ at' = "request"
         /\ UNCHANGED <<setting, base, queue, verdict, log, live, pending, seen, stored>>

\* Obligations are enforced in the active mode only.
Unjudged ==
    /\ at = "judge" /\ ~setting.active
    /\ verdict' = [text |-> FinalText, passed |-> {}]
    /\ at' = "accepted"
    /\ UNCHANGED <<setting, base, first, draft, queue, log, live, pending, seen, stored>>

\* A draft without the marker is not shown to the judge; one it sees is accepted
\* when every hard obligation passed.
Judge ==
    /\ at = "judge" /\ setting.active
    /\ IF ~(Marked(FinalText) \/ Fallback) THEN Reject
       ELSE \E passed \in SUBSET Duties : IF passed = Duties THEN Accept(passed) ELSE Reject

\* The validator cannot be asked or is not understood: the turn fails.
JudgeFails ==
    /\ at = "judge" /\ setting.active /\ Duties # {}
    /\ Marked(FinalText) \/ Fallback
    /\ FailTurn

-----------------------------------------------------------------------------
(* Storing the answer *)

Returned(ids) == [role |-> "user", text |-> <<>>, uses |-> ids]
Correction == [role |-> "user", text |-> <<"plain">>, uses |-> <<>>]

\* provider_history_from_raw_messages: every message and the results of its calls.
FromRaw(raw, calls) ==
    FlattenSeq([i \in DOMAIN raw |->
        LET answered == SelectSeq(raw[i].uses, LAMBDA id : \E k \in DOMAIN calls : calls[k].id = id) IN
        <<raw[i]>> \o (IF answered = <<>> THEN <<>> ELSE <<Returned(answered)>>)])

\* A bug: the results of both drafts are looked up among those of the correction.
TailFaultCalls ==
    FromRaw(first.raw, draft.calls) \o <<Correction>> \o FromRaw(draft.raw, draft.calls)

\* The provider_history_tail of a corrected turn.
MergedTail ==
    FromRaw(first.raw, first.calls) \o <<Correction>> \o FromRaw(draft.raw, draft.calls)

Cleaned(history) == [i \in DOMAIN history |-> [history[i] EXCEPT !.text = StripBlocks(@)]]

\* _accepted_native_result strips the last message, or the whole merged tail.
AcceptedRaw ==
    IF setting.active
    THEN Append(Front(draft.raw), [Last(draft.raw) EXCEPT !.text = StripBlocks(@)])
    ELSE draft.raw
AddedHistory ==
    IF Corrected THEN Cleaned(MergedTail) ELSE FromRaw(AcceptedRaw, draft.calls)

\* The accepted answer of a stream is recorded and shown at once ...
ShowAnswer ==
    /\ at = "accepted" /\ setting.stream /\ setting.active
    /\ log' = Append(log, Event("answer", verdict.text))
    /\ live' = Append(live, Len(log) + 1)
    /\ seen' = TRUE
    /\ at' = "store"
    /\ UNCHANGED <<setting, base, first, draft, queue, verdict, pending, stored>>

\* A bug: rejected drafts are answers like any other.
ContentTypeFaultRejected(message, rejected) == IF message.uses # <<>> THEN "note" ELSE "answer"

\* record_response_content_events tells notes and rejected drafts from the answer.
ContentType(message, rejected) ==
    IF message.uses # <<>> \/ rejected THEN "note" ELSE "answer"

ContentEvents ==
    LET Of(raw, rejected) ==
            FlattenSeq([i \in DOMAIN raw |->
                [k \in DOMAIN raw[i].text |->
                    Event(ContentType(raw[i], rejected), <<raw[i].text[k]>>)]]) IN
    Of(first.raw, TRUE) \o Of(AcceptedRaw, FALSE)

Unrecorded == ~setting.stream \/ ~seen

\* ... and complete_native_turn stores it, with the texts no stream recorded.
Complete ==
    /\ at = (IF setting.stream /\ setting.active THEN "store" ELSE "accepted")
    /\ stored' = [text |-> verdict.text, history |-> AddedHistory]
    /\ log' = log \o (IF Unrecorded THEN ContentEvents ELSE <<>>)
    /\ live' = live \o (IF setting.stream /\ Unrecorded THEN Positions(ContentEvents) ELSE <<>>)
    /\ at' = "completed"
    /\ UNCHANGED <<setting, base, first, draft, queue, verdict, pending, seen>>

-----------------------------------------------------------------------------

AnswerInit ==
    /\ setting \in [stream : BOOLEAN, active : BOOLEAN] /\ base \in SUBSET BaseDuties
    /\ at = "request" /\ first = NoDraft /\ draft = NoDraft /\ queue = <<>>
    /\ verdict = Nothing /\ log = <<>> /\ live = <<>> /\ pending = <<>> /\ seen = FALSE
    /\ stored = NotStored

AnswerNext ==
    \/ OnlyThinks \/ ProviderFails
    \/ \E text \in Texts \cup NoteTexts, uses \in Uses : Speaks(text, uses)
    \/ StartTool
    \/ \E result \in Results : FinishTool(result)
    \/ Unjudged \/ Judge \/ JudgeFails \/ ShowAnswer \/ Complete

\* The request thread goes on, and the provider answers or reports an error.
AnswerSpec == AnswerInit /\ [][AnswerNext]_answerVars /\ WF_answerVars(AnswerNext)

-----------------------------------------------------------------------------
(* Properties *)

\* What the variables range over.
AnswerTypeOK ==
    /\ setting \in [stream : BOOLEAN, active : BOOLEAN] /\ base \subseteq BaseDuties
    /\ at \in {"request", "tool", "running", "judge", "accepted", "store", "completed", "failed"}
    /\ draft.retries \in 0..MaxRetries /\ seen \in BOOLEAN
    /\ at \in {"tool", "running"} <=> queue # <<>>
    /\ ToSet(live) \cup ToSet(pending) \subseteq DOMAIN log

\* A completed turn never answers over a failed action that was not judged: for
\* every call that failed, in the rejected draft or in the corrected one, the
\* obligation not to imply success passed on the text that is stored; and so did
\* what an inspection found, unless the same one succeeded later.
NoFailureUnjudged ==
    at = "completed" /\ setting.active =>
        \A k \in DOMAIN Calls :
            /\ Calls[k].result # "ok" => Duty("action", Calls[k].id) \in verdict.passed
            /\ Calls[k].op \in Inspections =>
                 \/ Duty("capability", Calls[k].id) \in verdict.passed
                 \/ \E j \in (k + 1)..Len(Calls) :
                      Calls[j].op = Calls[k].op /\ Calls[j].result = "ok"

\* Nothing is recorded as an answer but the accepted draft, and all of it is
\* recorded exactly once, whichever of the stream and the completion does it.
AnswerRecordedOnce ==
    LET answers == SelectSeq(log, LAMBDA e : e.type = "answer")
        texts == FlattenSeq([i \in DOMAIN answers |-> StripBlocks(answers[i].text)]) IN
    /\ at = "completed" =>
         SelectSeq(texts, LAMBDA b : b = "plain")
            = SelectSeq(StripBlocks(stored.text), LAMBDA b : b = "plain")
    /\ setting.active /\ at \notin {"store", "completed"} => answers = <<>>

\* What an active turn stores is the last text of the model without the marker it
\* ended with; only a correction may lack the marker, if the judge found it
\* conclusive.
OnlyFinalIsStored ==
    at = "completed" /\ setting.active =>
        /\ stored.text = Public(FinalText)
        /\ Marked(FinalText) \/ (Corrected /\ Finality \in verdict.passed)

\* The provider history keeps every call of the turn with its result in the next
\* message, across a correction too: a request with an unanswered tool use is
\* refused by the provider for ever.
CallsInHistory ==
    LET h == stored.history IN
    at = "completed" =>
        /\ \A k \in DOMAIN Calls : \E i \in DOMAIN h :
             h[i].role = "assistant" /\ Calls[k].id \in ToSet(h[i].uses)
        /\ \A i \in DOMAIN h : h[i].role = "assistant" /\ h[i].uses # <<>> =>
             i < Len(h) /\ h[i + 1] = Returned(h[i].uses)

\* The live stream shows events in the order of the log, though tool events wait
\* in a list for the next event of the provider.
LiveInOrder == \A i, j \in DOMAIN live : i < j => live[i] < live[j]

\* A stream that ended without a correction has shown every text and tool event.
\* Tool events of a correction are never flushed: a client gets them by replay.
SeenLive ==
    Ended /\ setting.stream /\ ~Corrected => ToSet(live) = DOMAIN log

\* The final marker is in no public text and not in the history (decisions.md).
MarkerIsPrivate ==
    setting.active =>
    /\ \A i \in DOMAIN log : log[i].type \in {"note", "answer"} =>
         ToSet(log[i].text) \subseteq {"plain"}
    /\ ToSet(stored.text) \subseteq {"plain"}
    /\ \A i \in DOMAIN stored.history : ToSet(stored.history[i].text) \subseteq {"plain"}

\* The retries of an empty answer and the correction do not feed one another: a
\* model that stops calling tools brings the turn to an end.
TurnEnds == <>Ended

\* Only an answer that was judged on all it owes, and found final, completes a turn.
AnswerIsJudged == AnswerTypeOK /\ NoFailureUnjudged /\ OnlyFinalIsStored

\* The four records of a turn agree: the event log, the live stream, the stored
\* answer and the provider history.
TurnIsRecorded == AnswerRecordedOnce /\ CallsInHistory /\ LiveInOrder /\ SeenLive

=============================================================================
