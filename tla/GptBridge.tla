----------------------------- MODULE GptBridge ------------------------------
(***************************************************************************)
(* The GPT bridge (plugins/gpt_bridge/router.py): an external model opens  *)
(* a turn with /gpt/bootstrap, runs shell commands with /gpt/action and    *)
(* hands in its answer with /gpt/finalize.  Each is a request of its own:  *)
(* the caller may repeat one, send two at once or go away, and the process *)
(* may die between two commits of a handler.                               *)
(***************************************************************************)
EXTENDS AnswerDuties

CONSTANTS
    Handlers,           \* requests served at the same time
    BridgeOps,          \* shell operations of the actions
    BridgeModes,        \* answer_obligations_mode: off, shadow, active
    BridgeBase,         \* obligations the context may bring
    MaxBridged,           \* bound: turns bootstrapped
    MaxActions,         \* bound: actions begun, in all turns
    MaxDeaths,          \* bound: deaths of the process
    MaxSpent            \* bound: actions, deaths and finalizations of started turns, in all

ASSUME BridgeAssumption == {MaxBridged, MaxActions, MaxDeaths, MaxSpent} \subseteq Nat

VARIABLES
    mode,       \* answer_obligations_mode
    turns,      \* the turns of the session, in the order they were opened:
                \* [status, base, asked, calls, verdicts], asked being the
                \* provider_messages of the llm.request trace
    rows,       \* the Message rows
    bridgeHistory, \* provider_history_json of the session
    serving,    \* what each request does
    told,       \* per turn, the drafts a caller was told to show
    corrections,\* per turn, the recoverable rejections (409) a caller got
    overlapped, \* turns of which two finalizations ran at once
    raced,      \* turns with an action recorded after a finalization read them
    died,       \* turns a death of the process met in a handler
    openAt,     \* per turn, the turns open when its request was built
    spent       \* actions, finalizations and deaths so far

bridgeVars == <<mode, turns, rows, bridgeHistory, serving, told, corrections, overlapped, raced,
                died, openAt, spent>>
ghosts == <<told, corrections, overlapped, raced, died, openAt, spent>>

Line(t, role, text) == [turn |-> t, role |-> role, text |-> text]
Left == spent.actions + spent.finalizes + spent.deaths < MaxSpent
Idle == [at |-> "idle"]
TurnIds == DOMAIN turns
NewTurn == [status |-> "started", base |-> {}, asked |-> <<>>, calls |-> <<>>, verdicts |-> <<>>]

AnswerRows(t) == {i \in DOMAIN rows : rows[i].turn = t /\ rows[i].role = "assistant"}
Finalizing(t) ==
    {h \in Handlers : serving[h].at \in {"judge", "rejected", "store", "history", "complete"}
                      /\ serving[h].turn = t}

Goes(h, at) == serving' = [serving EXCEPT ![h].at = at]
Returns(h) == serving' = [serving EXCEPT ![h] = Idle]

-----------------------------------------------------------------------------
(* /gpt/bootstrap *)

\* create_turn and the user's message ...
BeginTurn(h) ==
    LET t == Len(turns) + 1 IN
    /\ serving[h] = Idle /\ t <= MaxBridged
    /\ turns' = Append(turns, NewTurn)
    /\ rows' = Append(rows, Line(t, "user", 0))
    /\ serving' = [serving EXCEPT ![h] = [at |-> "bootstrap", turn |-> t]]
    /\ told' = Append(told, {}) /\ corrections' = Append(corrections, 0)
    /\ openAt' = Append(openAt, {})
    /\ UNCHANGED <<mode, bridgeHistory, overlapped, raced, died, spent>>

\* _provider_messages_for_turn: the stored history with the message of the turn,
\* or, without a history, all messages of the session.
ProviderMessages(t) ==
    IF bridgeHistory # <<>> THEN Append(bridgeHistory, Line(t, "user", 0)) ELSE rows

\* ... then the context is built and the request traced.
AskTurn(h) ==
    LET t == serving[h].turn IN
    /\ serving[h].at = "bootstrap"
    /\ \E base \in SUBSET BridgeBase :
         turns' = [turns EXCEPT ![t].asked = ProviderMessages(t),
                                ![t].base = IF mode = "off" THEN {} ELSE base]
    /\ openAt' = [openAt EXCEPT ![t] = {u \in TurnIds \ {t} : turns[u].status = "started"}]
    /\ Returns(h)
    /\ UNCHANGED <<mode, rows, bridgeHistory, told, corrections, overlapped, raced, died, spent>>

\* _resolve_system_prompt: without a prompt the turn fails.
PromptFails(h) ==
    /\ serving[h].at = "bootstrap"
    /\ turns' = [turns EXCEPT ![serving[h].turn].status = "failed"]
    /\ Returns(h)
    /\ UNCHANGED <<mode, rows, bridgeHistory, ghosts>>

-----------------------------------------------------------------------------
(* /gpt/action *)

\* A bug: a turn is taken as open before its request is traced.
KnownFaultAll == TurnIds

\* Turns whose bootstrap has answered: the caller knows their ids.
Known == {t \in TurnIds : turns[t].asked # <<>>}

\* _require_active_turn, then the shell runs the command outside any session.
BeginAction(h, t) ==
    /\ serving[h] = Idle /\ Left /\ spent.actions < MaxActions
    /\ turns[t].status = "started"
    /\ \E op \in BridgeOps :
         serving' = [serving EXCEPT ![h] =
                        [at |-> "acting", turn |-> t, op |-> op, id |-> spent.actions + 1]]
    /\ spent' = [spent EXCEPT !.actions = @ + 1]
    /\ UNCHANGED <<mode, turns, rows, bridgeHistory, told, corrections, overlapped, raced, died,
                   openAt>>

\* The call is recorded, whatever became of the turn meanwhile.
FinishAction(h) ==
    LET t == serving[h].turn IN
    /\ serving[h].at = "acting"
    /\ \E result \in Results :
         turns' = [turns EXCEPT ![t].calls =
                     Append(@, [id |-> serving[h].id, op |-> serving[h].op, result |-> result])]
    /\ raced' = IF Finalizing(t) # {} \/ turns[t].status # "started" THEN raced \cup {t} ELSE raced
    /\ Returns(h)
    /\ UNCHANGED <<mode, rows, bridgeHistory, told, corrections, overlapped, died, openAt, spent>>

-----------------------------------------------------------------------------
(* /gpt/finalize *)

\* A bug: the first answer of the turn, not the newest.
StoredFaultFirst(t) == rows[Min(AnswerRows(t))].text

\* latest_message_for_turn.
Stored(t) == rows[Max(AnswerRows(t))].text

\* A turn already finalized answers with what was stored ...
AlreadyFinalized(h, t) ==
    /\ serving[h] = Idle
    /\ turns[t].status = "completed" /\ AnswerRows(t) # {}
    /\ told' = [told EXCEPT ![t] = @ \cup {Stored(t)}]
    /\ UNCHANGED <<mode, turns, rows, bridgeHistory, serving, corrections, overlapped, raced, died,
                   openAt, spent>>

\* A bug: the manifest of the bootstrap is judged, without what the actions did.
BridgeDutiesFaultBootstrap(t) == turns[t].base

\* augment_with_tool_evidence over every mind.tool_call trace of the turn.
BridgeDuties(t) == turns[t].base \cup ToolDuties(turns[t].calls)

\* A bug: a turn is finalized whether it is active or not.
MayFinalizeFaultAny(t) == TRUE

MayFinalize(t) == turns[t].status = "started"

\* ... one that is neither finalized nor active is refused; the rest is judged.
\* No two drafts are the same.
BeginFinalize(h, t) ==
    /\ serving[h] = Idle /\ Left
    /\ MayFinalize(t)
    /\ serving' = [serving EXCEPT ![h] =
                      [at |-> "judge", turn |-> t, text |-> spent.finalizes + 1, on |-> BridgeDuties(t)]]
    /\ overlapped' = IF Finalizing(t) # {} THEN overlapped \cup {t} ELSE overlapped
    /\ spent' = [spent EXCEPT !.finalizes = @ + 1]
    /\ UNCHANGED <<mode, turns, rows, bridgeHistory, told, corrections, raced, died, openAt>>

Judged(h) == mode # "off" /\ serving[h].on # {}

\* _record_gpt_answer_validation: how a draft was judged and whether it goes on.
Records(h, judged, accepted) ==
    turns' = [turns EXCEPT ![serving[h].turn].verdicts =
                Append(@, [judged |-> judged, accepted |-> accepted])]

\* The provider is not configured: 503, in the shadow mode too, and no trace.
NoValidator(h) ==
    /\ serving[h].at = "judge" /\ Judged(h)
    /\ Returns(h)
    /\ UNCHANGED <<mode, turns, rows, bridgeHistory, ghosts>>

\* The validator fails: 503 in the active mode, and the trace says not accepted.
ValidatorFails(h) ==
    /\ serving[h].at = "judge" /\ Judged(h)
    /\ Records(h, "unknown", mode # "active")
    /\ IF mode = "active" THEN Returns(h) ELSE Goes(h, "store")
    /\ UNCHANGED <<mode, rows, bridgeHistory, ghosts>>

\* Nothing to judge, or every hard obligation passed.
DraftPasses(h) ==
    /\ serving[h].at = "judge"
    /\ Records(h, "pass", TRUE)
    /\ Goes(h, "store")
    /\ UNCHANGED <<mode, rows, bridgeHistory, ghosts>>

\* A hard obligation did not pass: only the active mode rejects.
DraftFails(h) ==
    /\ serving[h].at = "judge" /\ Judged(h)
    /\ Records(h, "fail", mode # "active")
    /\ Goes(h, IF mode = "active" THEN "rejected" ELSE "store")
    /\ UNCHANGED <<mode, rows, bridgeHistory, ghosts>>

\* A bug: the rejections of a turn are not counted.
RejectionsFaultNone(t) == 0

\* _gpt_answer_rejection_count, this one included.
Rejections(t) ==
    Cardinality({k \in DOMAIN turns[t].verdicts : ~turns[t].verdicts[k].accepted})

\* The first rejection asks for a correction (409), the next fails the turn (422).
RejectDraft(h) ==
    LET t == serving[h].turn IN
    /\ serving[h].at = "rejected"
    /\ IF Rejections(t) > 1
       THEN turns' = [turns EXCEPT ![t].status = "failed"] /\ UNCHANGED corrections
       ELSE corrections' = [corrections EXCEPT ![t] = @ + 1] /\ UNCHANGED turns
    /\ Returns(h)
    /\ UNCHANGED <<mode, rows, bridgeHistory, told, overlapped, raced, died, openAt, spent>>

\* The answer becomes a row of its turn, with its traces and events ...
StoreBridgeAnswer(h) ==
    /\ serving[h].at = "store"
    /\ rows' = Append(rows, Line(serving[h].turn, "assistant", serving[h].text))
    /\ Goes(h, "history")
    /\ UNCHANGED <<mode, turns, bridgeHistory, ghosts>>

\* A bug: the answer is added to the history as it is now.
AnsweredHistoryFaultNow(t, text) == Append(bridgeHistory, Line(t, "assistant", text))

\* _update_provider_history_from_bootstrap: what the request held, and the answer.
AnsweredHistory(t, text) == Append(turns[t].asked, Line(t, "assistant", text))

WriteBridgeHistory(h) ==
    /\ serving[h].at = "history"
    /\ bridgeHistory' = AnsweredHistory(serving[h].turn, serving[h].text)
    /\ Goes(h, "complete")
    /\ UNCHANGED <<mode, turns, rows, ghosts>>

\* ... and complete_turn ends the turn, whatever its status is by now.
CompleteBridgeTurn(h) ==
    LET t == serving[h].turn IN
    /\ serving[h].at = "complete"
    /\ turns' = [turns EXCEPT ![t].status = "completed"]
    /\ told' = [told EXCEPT ![t] = @ \cup {serving[h].text}]
    /\ Returns(h)
    /\ UNCHANGED <<mode, rows, bridgeHistory, corrections, overlapped, raced, died, openAt, spent>>

\* The process dies: the requests are gone, what was committed stays.
BridgeCrash ==
    /\ Left /\ spent.deaths < MaxDeaths /\ \E h \in Handlers : serving[h] # Idle
    /\ died' = died \cup {serving[h].turn : h \in {h \in Handlers : serving[h] # Idle}}
    /\ serving' = [h \in Handlers |-> Idle]
    /\ spent' = [spent EXCEPT !.deaths = @ + 1]
    /\ UNCHANGED <<mode, turns, rows, bridgeHistory, told, corrections, overlapped, raced, openAt>>

-----------------------------------------------------------------------------

BridgeInit ==
    /\ mode \in BridgeModes /\ turns = <<>> /\ rows = <<>> /\ bridgeHistory = <<>>
    /\ serving = [h \in Handlers |-> Idle]
    /\ told = <<>> /\ corrections = <<>> /\ overlapped = {} /\ raced = {} /\ died = {}
    /\ openAt = <<>> /\ spent = [actions |-> 0, finalizes |-> 0, deaths |-> 0]

BridgeNext ==
    \/ \E h \in Handlers :
         \/ BeginTurn(h) \/ AskTurn(h) \/ PromptFails(h)
         \/ \E t \in Known :
              BeginAction(h, t) \/ AlreadyFinalized(h, t) \/ BeginFinalize(h, t)
         \/ FinishAction(h) \/ NoValidator(h) \/ ValidatorFails(h) \/ DraftPasses(h)
         \/ DraftFails(h) \/ RejectDraft(h) \/ StoreBridgeAnswer(h) \/ WriteBridgeHistory(h)
         \/ CompleteBridgeTurn(h)
    \/ BridgeCrash

BridgeSpec == BridgeInit /\ [][BridgeNext]_bridgeVars

-----------------------------------------------------------------------------
(* Properties *)

\* What the variables range over.
BridgeTypeOK ==
    /\ mode \in BridgeModes
    /\ \A t \in TurnIds :
         /\ turns[t].status \in {"started", "completed", "failed"}
         /\ turns[t].status = "completed" => turns[t].asked # <<>>
         /\ turns[t].base \subseteq BridgeBase
    /\ \A h \in Handlers : serving[h] # Idle => serving[h].turn \in TurnIds
    /\ overlapped \cup raced \cup died \subseteq TurnIds

\* Unless two finalizations overlap or one dies half-way, a turn has one answer if
\* it completed and none if it failed.
OutcomeAgrees ==
    \A t \in TurnIds \ (overlapped \cup died) :
        /\ turns[t].status = "completed" => Cardinality(AnswerRows(t)) = 1
        /\ turns[t].status = "failed" => AnswerRows(t) = {}

\* Repeating a finalization is safe: a caller is told to show an answer that is
\* stored, and all callers of a turn the same one, even when the first request
\* died after storing its draft and the next came with another.
ToldIsStored ==
    \A t \in TurnIds :
        /\ told[t] \subseteq {rows[i].text : i \in AnswerRows(t)}
        /\ t \notin overlapped => Cardinality(told[t]) <= 1

\* An answer of the active mode was accepted on what every failed action of its
\* turn obliged it to, unless the action was still running when it was handed in:
\* the last verdict was a pass, on the duties the turn has by now.
FailClosed ==
    mode = "active" =>
        \A t \in TurnIds \ overlapped :
            /\ turns[t].status = "completed" => Last(turns[t].verdicts).judged = "pass"
            /\ \A h \in Finalizing(t) : t \notin raced =>
                 /\ turns[t].base \subseteq serving[h].on
                 /\ \A k \in DOMAIN turns[t].calls :
                      turns[t].calls[k].result # "ok" =>
                        Duty("action", turns[t].calls[k].id) \in serving[h].on

\* A caller is asked at most once to correct its answer, though two of its
\* finalizations are rejected at once.
OneCorrection == \A t \in TurnIds : corrections[t] <= 1

\* Where no turn is opened before the last has ended, the history holds every
\* completed exchange, once and in order, also of a finalization that was
\* repeated after a death.
HistoryWhole ==
    LET h == bridgeHistory
        Done(t) == turns[t].status = "completed" IN
    /\ overlapped = {}
    /\ \A t \in TurnIds : openAt[t] = {} /\ turns[t].status # "started"
    =>
    /\ \A t \in TurnIds : Done(t) =>
         {Line(t, "user", 0), Line(t, "assistant", Stored(t))} \subseteq ToSet(h)
    /\ \A i, j \in DOMAIN h : i < j /\ Done(h[i].turn) /\ Done(h[j].turn) =>
         \/ h[i].turn < h[j].turn
         \/ h[i].turn = h[j].turn /\ h[i].role = "user" /\ h[j].role = "assistant"

\* A turn fails for its answers only when two of them failed (gpt_bridge README:
\* "A first hard-obligation failure at finalize returns recoverable HTTP 409").
SecondFailureFails ==
    \A t \in Known : turns[t].status = "failed" =>
        Len(SelectSeq(turns[t].verdicts, LAMBDA v : v.judged = "fail")) >= 2

\* What the rows of a bridged turn say of its answer agrees with what callers were
\* told and with the history the next turn is opened with.
AnswersAgree == BridgeTypeOK /\ OutcomeAgrees /\ ToldIsStored /\ HistoryWhole

\* A draft is accepted on all that its turn owes, after one correction at most.
DraftsAreJudged == FailClosed /\ OneCorrection

=============================================================================
