-------------------------- MODULE ProviderHistory ---------------------------
(***************************************************************************)
(* The canonical provider history of one chat session and the compacted    *)
(* view the model gets of it.                                              *)
(*                                                                         *)
(* A turn reads the history, appends the user's message, sends the request *)
(* (or a derived one: a summary of the oldest turns and the exact rest)    *)
(* and, when the model has answered, writes request and answer back as the *)
(* new history.  No lock serialises the turns of a session.  Completed     *)
(* turns schedule compaction jobs, run by the worker or by an API request. *)
(*                                                                         *)
(* Every step is one transaction or one model call.  Token counts are      *)
(* abstracted: a threshold may be reached or not, and the partition plan   *)
(* may compact any proper prefix of the turns.                             *)
(***************************************************************************)
EXTENDS Integers, SequencesExt

CONSTANTS
    MaxTurns,   \* bound: turns of the session
    Runners,    \* threads that run compaction jobs
    Overlap     \* may a turn start while an older one is still handled?

ASSUME MaxTurnsNat == MaxTurns \in Nat
ASSUME OverlapBoolean == Overlap \in BOOLEAN

Turns == 1..MaxTurns

VARIABLES
    turn,       \* status of each turn
    handler,    \* what the request thread of each turn does next
    messages,   \* visible messages of the session, in the order they are stored
    request,    \* per turn, the canonical request (kept in its llm.request trace)
    view,       \* per turn, what the model got: messages summarised, exact rest
    history,    \* sessions.provider_history_json
    scheduled,  \* snapshots (digests) that have a compaction job
    pending,    \* those whose job is pending
    runner,     \* what each runner is doing
    artifacts   \* history_compactions; the generation is the position

vars == <<turn, handler, messages, request, view, history, scheduled, pending,
          runner, artifacts>>
turnVars == <<turn, handler, messages, request, view, history>>
jobVars == <<scheduled, pending, runner, artifacts>>

\* Fault: the message is linked to the turn before.
OfTurnBefore(t) == [turn |-> t - 1, role |-> "user"]

User(t) == [turn |-> t, role |-> "user"]
Answer(t) == [turn |-> t, role |-> "assistant"]
Message == [turn : Turns, role : {"user", "assistant"}]

\* A digest is modelled by what it is taken of.
NoJob == [at |-> "rest", snapshot |-> <<>>, target |-> <<>>, legacy |-> <<>>,
          sources |-> <<>>, summed |-> {}, previous |-> 0]

-----------------------------------------------------------------------------
\* build_chronology_source_map

\* Some turns in the order they started: the i-th is the one i - 1 of them precede.
InOrder(some) ==
    [i \in 1..Cardinality(some) |->
        CHOOSE t \in some : Cardinality({u \in some : u < t}) = i - 1]

\* list_turns_for_session(status = "completed").
Completed == InOrder({t \in Turns : turn[t] = "completed"})

Before(i) == Front(request[Completed[i]])
After(i) == IF i < Len(Completed) THEN Before(i + 1) ELSE history

\* The history when the turn began is a prefix of the history when the next one
\* began, and what was added begins with the turn's user message.  What is mapped
\* before turn i is then Before(i), so the boundary check cannot fail.  With no
\* completed turn, only the empty history is fully mapped.
Maps(i) == IsPrefix(request[Completed[i]], After(i))

MapComplete ==
    /\ history = <<>> <=> Completed = <<>>
    /\ \A i \in DOMAIN Completed : Maps(i)

\* The slice of the history a completed turn added.
Unit(i) == SubSeq(After(i), Len(Before(i)) + 1, Len(After(i)))

LegacyPrefix == IF Completed = <<>> THEN <<>> ELSE Before(1)

Units(n) == [i \in 1..n |-> Unit(i)]

-----------------------------------------------------------------------------
\* Compaction artifacts

\* get_latest_history_compaction: the newest active generation, 0: none.
Latest ==
    LET active == {g \in DOMAIN artifacts : artifacts[g].active}
    IN  IF active = {} THEN 0 ELSE CHOOSE g \in active : \A k \in active : k <= g

\* _validate_artifact: the covered turns are the oldest ones of the map, and their
\* slices and the legacy prefix have the digests the summary was made from.
Valid(artifact) ==
    /\ Len(artifact.covered) <= Len(Completed)
    /\ artifact.covered = SubSeq(Completed, 1, Len(artifact.covered))
    /\ artifact.sources = Units(Len(artifact.covered))
    /\ artifact.legacy = LegacyPrefix

-----------------------------------------------------------------------------
\* Turns

Go(t, at) == handler' = [handler EXCEPT ![t] = at]

\* prepare_native_turn: the turn and its user message.
StartTurn(t) ==
    /\ turn[t] = "none"
    /\ \A u \in 1..(t - 1) : turn[u] # "none" /\ (Overlap \/ handler[u] = "over")
    /\ turn' = [turn EXCEPT ![t] = "started"]
    /\ messages' = Append(messages, User(t))
    /\ Go(t, "started")
    /\ UNCHANGED <<request, view, history, jobVars>>

\* provider_messages_for_turn: the stored history and the current message, or all
\* visible messages while no history is stored.
ReadHistory(t) ==
    /\ handler[t] = "started"
    /\ request' = [request EXCEPT ![t] =
                      IF history # <<>> THEN Append(history, User(t)) ELSE messages]
    /\ Go(t, "read")
    /\ UNCHANGED <<turn, messages, view, history, jobVars>>

\* Fault: the tail starts one turn late.
LateTail(n) == FlattenSeq([i \in 2..(Len(Completed) - n) |-> Unit(n + i)])

\* The exact part of a derived request: the slices after the covered turns.
ExactTail(n) == FlattenSeq([i \in 1..(Len(Completed) - n) |-> Unit(n + i)])

\* route_history_for_model: a valid artifact replaces the turns it covers, anything
\* else falls back to the canonical request.
Route(t) ==
    /\ handler[t] = "read"
    /\ view' = [view EXCEPT ![t] =
         IF MapComplete /\ Latest # 0 /\ Valid(artifacts[Latest])
         THEN [summed |-> artifacts[Latest].summed,
               exact |-> Append(ExactTail(Len(artifacts[Latest].covered)), Last(request[t]))]
         ELSE [summed |-> {}, exact |-> request[t]]]
    /\ Go(t, "routed")
    /\ UNCHANGED <<turn, messages, request, history, jobVars>>

\* complete_native_turn stores the answer ...
StoreAnswer(t) ==
    /\ handler[t] = "routed"
    /\ messages' = Append(messages, Answer(t))
    /\ Go(t, "answered")
    /\ UNCHANGED <<turn, request, view, history, jobVars>>

\* Fault: the request the model got, which may be derived, is written back.
FromView(t) == Append(view[t].exact, Answer(t))

\* updated_provider_history: the canonical request and the answer.
Updated(t) == Append(request[t], Answer(t))

\* ... overwrites the history ...
WriteHistory(t) ==
    /\ handler[t] = "answered"
    /\ history' = Updated(t)
    /\ Go(t, "written")
    /\ UNCHANGED <<turn, messages, request, view, jobVars>>

\* ... completes the turn ...
CompleteTurn(t) ==
    /\ handler[t] = "written"
    /\ turn' = [turn EXCEPT ![t] = "completed"]
    /\ Go(t, "completed")
    /\ UNCHANGED <<messages, request, view, history, jobVars>>

\* ... and schedules a compaction of the snapshot when the map is complete and the
\* threshold is reached, unless the snapshot had a job.
Schedule(t) ==
    /\ handler[t] = "completed"
    /\ \/ /\ MapComplete
          /\ history \notin scheduled
          /\ scheduled' = scheduled \cup {history}
          /\ pending' = {history}
       \/ UNCHANGED <<scheduled, pending>>
    /\ Go(t, "over")
    /\ UNCHANGED <<turn, messages, request, view, history, runner, artifacts>>

\* record_failed_native_turn
FailTurn(t) ==
    /\ handler[t] = "routed"
    /\ turn' = [turn EXCEPT ![t] = "failed"]
    /\ Go(t, "over")
    /\ UNCHANGED <<messages, request, view, history, jobVars>>

\* The thread stops between two transactions: the process dies, an exception is
\* raised, or the client of the stream goes away.
StopTurn(t) ==
    /\ handler[t] \notin {"none", "over"}
    /\ Go(t, "over")
    /\ UNCHANGED <<turn, messages, request, view, history, jobVars>>

-----------------------------------------------------------------------------
\* Compaction jobs

\* The status is read as pending ...
TakeJob(r) ==
    /\ runner[r].at = "rest"
    /\ \E s \in pending :
         runner' = [runner EXCEPT ![r] = [NoJob EXCEPT !.at = "claim", !.snapshot = s]]
    /\ UNCHANGED <<turnVars, scheduled, pending, artifacts>>

\* ... and overwritten, even when another runner was faster.
ClaimJob(r) ==
    /\ runner[r].at = "claim"
    /\ pending' = pending \ {runner[r].snapshot}
    /\ runner' = [runner EXCEPT ![r].at = "plan"]
    /\ UNCHANGED <<turnVars, scheduled, artifacts>>

\* The previous artifact a new summary may be built on: it must be valid and cover
\* a prefix of the turns to compact, else the summary is built from scratch.
Previous(target) ==
    IF Latest # 0 /\ Valid(artifacts[Latest]) /\ IsPrefix(artifacts[Latest].covered, target)
    THEN Latest ELSE 0

\* Fault: the delta is counted from the previous artifact, valid or not.
DeltaOfLatest(target) ==
    [g |-> Previous(target), from |-> IF Latest = 0 THEN 0 ELSE Len(artifacts[Latest].covered)]

\* The previous artifact and how many turns its summary stands for.
Base(target) ==
    [g |-> Previous(target),
     from |-> IF Previous(target) = 0 THEN 0 ELSE Len(artifacts[Previous(target)].covered)]

\* Fault: a summary made from scratch forgets the legacy prefix.
WithoutLegacy(target, base) ==
    (IF base.g = 0 THEN {} ELSE artifacts[base.g].summed)
        \cup UNION {ToSet(Unit(i)) : i \in (base.from + 1)..Len(target)}

\* What the prompt of the new summary holds: the previous summary or the legacy
\* prefix, and the slices of the turns since.
Prompt(target, base) ==
    (IF base.g = 0 THEN ToSet(LegacyPrefix) ELSE artifacts[base.g].summed)
        \cup UNION {ToSet(Unit(i)) : i \in (base.from + 1)..Len(target)}

\* generate_history_compaction, first transaction.  The other outcomes (map not
\* complete, snapshot stale, nothing to compact, summary up to date) end the job.
Plan(r) ==
    /\ runner[r].at = "plan"
    /\ MapComplete
    /\ history = runner[r].snapshot
    /\ \E n \in 1..(Len(Completed) - 1) :
         LET target == SubSeq(Completed, 1, n)
             base == Base(target) IN
         /\ base.from < n
         /\ runner' = [runner EXCEPT ![r].at = "model", ![r].target = target,
                                     ![r].summed = Prompt(target, base)]
    /\ UNCHANGED <<turnVars, scheduled, pending, artifacts>>

\* The history is still the snapshot the summary was made from.
SameSnapshot(r) == MapComplete /\ history = runner[r].snapshot

\* The model has answered; second transaction: the snapshot is compared again, the
\* sources are read, and create_history_compaction reads the newest generation.
Recheck(r) ==
    /\ runner[r].at = "model"
    /\ SameSnapshot(r)
    /\ SubSeq(Completed, 1, Len(runner[r].target)) = runner[r].target
    /\ runner' = [runner EXCEPT ![r].at = "commit", ![r].legacy = LegacyPrefix,
                                ![r].sources = Units(Len(runner[r].target)),
                                ![r].previous = Len(artifacts)]
    /\ UNCHANGED <<turnVars, scheduled, pending, artifacts>>

\* Fault: the previous generation stays active.
AlsoActive(artifact) == artifact

Superseded(artifact) == [artifact EXCEPT !.active = FALSE]

\* The commit: the unique constraint admits one row per generation.
CommitArtifact(r) ==
    /\ runner[r].at = "commit"
    /\ runner[r].previous = Len(artifacts)
    /\ artifacts' = Append([g \in DOMAIN artifacts |-> IF g = Len(artifacts)
                                THEN Superseded(artifacts[g]) ELSE artifacts[g]],
                           [covered |-> runner[r].target, sources |-> runner[r].sources,
                            legacy |-> runner[r].legacy, summed |-> runner[r].summed,
                            active |-> TRUE])
    /\ runner' = [runner EXCEPT ![r] = NoJob]
    /\ UNCHANGED <<turnVars, scheduled, pending>>

\* The job ends without an artifact: one of the checks says so, the model call
\* fails, the commit is refused, or the process dies.
EndJob(r) ==
    /\ runner[r].at # "rest"
    /\ runner' = [runner EXCEPT ![r] = NoJob]
    /\ UNCHANGED <<turnVars, scheduled, pending, artifacts>>

-----------------------------------------------------------------------------

Init ==
    /\ turn = [t \in Turns |-> "none"]
    /\ handler = [t \in Turns |-> "none"]
    /\ messages = <<>>
    /\ request = [t \in Turns |-> <<>>]
    /\ view = [t \in Turns |-> [summed |-> {}, exact |-> <<>>]]
    /\ history = <<>>
    /\ scheduled = {}
    /\ pending = {}
    /\ runner = [r \in Runners |-> NoJob]
    /\ artifacts = <<>>

TurnNext ==
    \E t \in Turns : \/ StartTurn(t) \/ ReadHistory(t) \/ Route(t) \/ StoreAnswer(t)
                     \/ WriteHistory(t) \/ CompleteTurn(t) \/ Schedule(t)
                     \/ FailTurn(t) \/ StopTurn(t)

JobNext ==
    \E r \in Runners : \/ TakeJob(r) \/ ClaimJob(r) \/ Plan(r) \/ Recheck(r)
                       \/ CommitArtifact(r) \/ EndJob(r)

Next == TurnNext \/ JobNext

Spec == Init /\ [][Next]_vars

-----------------------------------------------------------------------------
\* Properties

\* What the variables range over.
TypeOK ==
    /\ turn \in [Turns -> {"none", "started", "completed", "failed"}]
    /\ handler \in [Turns -> {"none", "started", "read", "routed", "answered",
                              "written", "completed", "over"}]
    /\ messages \in Seq(Message) /\ history \in Seq(Message)
    /\ request \in [Turns -> Seq(Message)]
    /\ pending \subseteq scheduled /\ \A s \in scheduled : s \in Seq(Message)
    /\ \A r \in Runners : runner[r].at \in {"rest", "claim", "plan", "model", "commit"}

\* memory-roadmap.md: provider_history_json is authoritative and append-only.
HistoryAppendOnly == [][IsPrefix(history, history')]_history

\* Every completed turn keeps its question and, next to it, its answer in the
\* history, whatever later turns fail, stop half-way or get a derived view.
ExchangesKept ==
    \A t \in Turns : turn[t] = "completed" =>
        \E i \in 1..(Len(history) - 1) :
            history[i] = User(t) /\ history[i + 1] = Answer(t)

\* Once a turn has completed the source map can always be built, so a turn that
\* fails, or stops between two of its transactions, never turns compaction off.
MapStaysComplete == Completed # <<>> => MapComplete

\* What the model gets is the whole canonical request: each message is either in
\* the exact part or stands summarised, and none is given twice.
ViewIsWhole ==
    \A t \in Turns : handler[t] = "routed" =>
        /\ ToSet(view[t].exact) \cup view[t].summed = ToSet(request[t])
        /\ ToSet(view[t].exact) \cap view[t].summed = {}

\* A summary the router accepts was made from exactly the messages it replaces,
\* through any chain of summaries of summaries, changes of the history and
\* concurrent jobs.
SummaryIsFaithful ==
    \A g \in DOMAIN artifacts : MapComplete /\ Valid(artifacts[g]) =>
        artifacts[g].summed = ToSet(LegacyPrefix) \cup
            UNION {ToSet(Unit(i)) : i \in DOMAIN artifacts[g].covered}

\* A summary the router accepts leaves nothing out of what it replaces, whatever
\* turns complete, late or twice read, while the summary is being made.
NothingDropped ==
    \A g \in DOMAIN artifacts : MapComplete /\ Valid(artifacts[g]) =>
        ToSet(LegacyPrefix) \cup UNION {ToSet(Unit(i)) : i \in DOMAIN artifacts[g].covered}
            \subseteq artifacts[g].summed

\* The newest generation is the active one, and the only one, even when the same
\* job runs in two threads.
NewestIsActive ==
    \A g \in DOMAIN artifacts : artifacts[g].active <=> g = Len(artifacts)

\* The canonical history is the conversation: no completed exchange leaves it, and
\* the map from turns to it can always be built.
HistoryKept == TypeOK /\ ExchangesKept /\ MapStaysComplete

\* The derived view is the conversation too: whole, made of summaries of exactly
\* what they replace, of which one generation counts.
ViewIsFaithful == ViewIsWhole /\ SummaryIsFaithful /\ NewestIsActive

=============================================================================
