------------------------- MODULE SessionMaintenance -------------------------
(***************************************************************************)
(* Background maintenance of one chat session: the turns that feed it, the *)
(* maintenance_jobs table, and the threads that schedule and run jobs.     *)
(*                                                                         *)
(* A completed turn schedules an idle job.  The worker, a single thread,   *)
(* first reconciles (it schedules a repair job when the session's summary  *)
(* is missing or stale), then runs the pending jobs one after another.     *)
(* API requests reconcile, run one job, or summarise the session (session  *)
(* summarize, from a turn of another session), beside the worker.          *)
(*                                                                         *)
(* Every step is one database transaction or one model call.  Time is      *)
(* abstracted: the due time of a pending job passes at some moment.        *)
(***************************************************************************)
EXTENDS Integers, FiniteSets

CONSTANTS
    Callers,       \* API request threads that do maintenance beside the worker
    MaxTurns,      \* bound: turns of the session
    MaxAttempts,   \* summary_reconcile_max_attempts
    MaxCrashes,    \* bound: process restarts
    Overlap        \* may a turn start while an older one is still handled?

ASSUME CallersFinite == IsFiniteSet(Callers) /\ "worker" \notin Callers
ASSUME BoundsNat == MaxTurns \in Nat /\ MaxAttempts \in Nat \ {0} /\ MaxCrashes \in Nat
ASSUME OverlapBoolean == Overlap \in BOOLEAN

Turns == 1..MaxTurns
MaxMessages == 2 * MaxTurns
Actors == {"worker"} \cup Callers

\* Idempotency keys: kind:session:turn and kind:session:message:attempt:n.
IdleKeys == [kind : {"idle"}, turn : Turns]
RepairKeys == [kind : {"repair"}, target : 1..MaxMessages, attempt : 1..MaxAttempts]
Keys == IdleKeys \cup RepairKeys

\* "none": the table has no row under the key.
JobStatus == {"none", "pending", "running", "completed", "failed", "skipped", "superseded"}

VARIABLES
    turn,      \* status of each turn: none, started, completed or failed
    handler,   \* what the request thread of each turn does next
    messages,  \* visible messages, numbered in the order they are stored
    summary,   \* last message the session summary covers, or NoSummary
    jobs,      \* the maintenance_jobs table
    ripe,      \* pending jobs whose due time has passed
    actor,     \* what the worker and each caller are doing
    crashes

vars == <<turn, handler, messages, summary, jobs, ripe, actor, crashes>>

\* A session without a summary row; an empty session may have one that covers 0.
NoSummary == -1

Handler == [at : {"none", "started", "model", "answered", "completed", "insert", "over"},
            pending : SUBSET IdleKeys]

\* key: the job at hand (none when a caller summarises); seen: pending jobs read
\* before an insert; due: the worker's batch; upto: last message of the transcript
\* read; outcome: the status the job will get.
Actor == [at : {"rest", "insert", "list", "batch", "start", "claim", "check",
                "read", "model", "finish"},
          key : SUBSET Keys, seen : SUBSET RepairKeys, due : SUBSET Keys,
          upto : 0..MaxMessages, outcome : {"completed", "failed", "skipped"}]

Resting == [at |-> "rest", key |-> {}, seen |-> {}, due |-> {}, upto |-> 0,
            outcome |-> "completed"]

Live == {t \in Turns : turn[t] # "none"}

\* latest_turn_for_session: the turn that started last.
IsLatest(t) == t \in Live /\ \A u \in Live : u <= t
LatestCompleted == \E t \in Live : IsLatest(t) /\ turn[t] = "completed"

\* Fault: jobs that run or failed count as waiting.
UnfinishedOf(kind) == {k \in Keys : k.kind = kind /\ jobs[k] \notin {"none", "completed"}}

PendingOf(kind) == {k \in Keys : k.kind = kind /\ jobs[k] = "pending"}

\* Fault: the new job supersedes itself.
SelfSuperseding(key, seen) ==
    [k \in Keys |-> IF k \in seen \cup {key} THEN "superseded" ELSE jobs[k]]

\* schedule_session_maintenance_job, second half: the row is inserted and the
\* pending rows read before are marked superseded in the same commit.
Inserted(key, seen) ==
    [k \in Keys |-> IF k = key THEN "pending"
                    ELSE IF k \in seen THEN "superseded" ELSE jobs[k]]

-----------------------------------------------------------------------------
\* Turns

\* prepare_native_turn stores the turn ...
StartTurn(t) ==
    /\ turn[t] = "none"
    /\ \A u \in 1..(t - 1) : turn[u] # "none"
    /\ Overlap \/ \A u \in 1..(t - 1) : handler[u].at = "over"
    /\ turn' = [turn EXCEPT ![t] = "started"]
    /\ handler' = [handler EXCEPT ![t].at = "started"]
    /\ UNCHANGED <<messages, summary, jobs, ripe, actor, crashes>>

\* ... and then the user's message.
StoreQuestion(t) ==
    /\ handler[t].at = "started"
    /\ handler' = [handler EXCEPT ![t].at = "model"]
    /\ messages' = messages + 1
    /\ UNCHANGED <<turn, summary, jobs, ripe, actor, crashes>>

\* complete_native_turn stores the answer ...
StoreAnswer(t) ==
    /\ handler[t].at = "model"
    /\ handler' = [handler EXCEPT ![t].at = "answered"]
    /\ messages' = messages + 1
    /\ UNCHANGED <<turn, summary, jobs, ripe, actor, crashes>>

\* ... then completes the turn ...
CompleteTurn(t) ==
    /\ handler[t].at = "answered"
    /\ turn' = [turn EXCEPT ![t] = "completed"]
    /\ handler' = [handler EXCEPT ![t].at = "completed"]
    /\ UNCHANGED <<messages, summary, jobs, ripe, actor, crashes>>

\* ... then schedules idle maintenance: it reads the pending idle jobs ...
ReadPendingIdle(t) ==
    /\ handler[t].at = "completed"
    /\ handler' = [handler EXCEPT ![t] = [at |-> "insert", pending |-> PendingOf("idle")]]
    /\ UNCHANGED <<turn, messages, summary, jobs, ripe, actor, crashes>>

\* ... and commits its own job, superseding those it read.
InsertIdle(t) ==
    /\ handler[t].at = "insert"
    /\ jobs' = Inserted([kind |-> "idle", turn |-> t], handler[t].pending)
    /\ handler' = [handler EXCEPT ![t] = [at |-> "over", pending |-> {}]]
    /\ UNCHANGED <<turn, messages, summary, ripe, actor, crashes>>

\* record_failed_native_turn: provider errors and incomplete answers.
FailTurn(t) ==
    /\ handler[t].at = "model"
    /\ turn' = [turn EXCEPT ![t] = "failed"]
    /\ handler' = [handler EXCEPT ![t].at = "over"]
    /\ UNCHANGED <<messages, summary, jobs, ripe, actor, crashes>>

\* The client of a stream goes away, or an exception that is not the provider's
\* is raised: nobody completes the turn.
AbandonTurn(t) ==
    /\ handler[t].at \in {"started", "model"}
    /\ handler' = [handler EXCEPT ![t].at = "over"]
    /\ UNCHANGED <<turn, messages, summary, jobs, ripe, actor, crashes>>

-----------------------------------------------------------------------------
\* Reconciliation

IsRepairOf(k, m) == k.kind = "repair" /\ k.target = m
Matching(m) == {k \in RepairKeys : IsRepairOf(k, m) /\ jobs[k] # "none"}

\* Faults: a repair that runs, or one that waits, is not looked at.
BlockingIdle == {"pending", "completed"}
BlockingStarted == {"running", "completed"}

\* A repair in one of these statuses stands in for a new one.
Blocking == {"pending", "running", "completed"}

\* schedule_summary_repairs for this session: a completed, non-empty session whose
\* summary is missing or stale gets the next attempt for its last message, unless
\* one is pending, running or completed, or the attempts are used up.
Repairable(k) ==
    /\ IsRepairOf(k, messages)
    /\ summary # messages
    /\ LatestCompleted
    /\ \A j \in Matching(messages) : jobs[j] \notin Blocking
    /\ k.attempt = Cardinality(Matching(messages)) + 1

AfterReconcile(a) == IF a = "worker" THEN [Resting EXCEPT !.at = "list"] ELSE Resting

Reconcile(a) ==
    /\ actor[a].at = "rest"
    /\ \/ \E k \in RepairKeys :
            /\ Repairable(k)
            /\ actor' = [actor EXCEPT ![a] =
                 [Resting EXCEPT !.at = "insert", !.key = {k}, !.seen = PendingOf("repair")]]
       \/ /\ ~ \E k \in RepairKeys : Repairable(k)
          /\ a = "worker"
          /\ actor' = [actor EXCEPT ![a] = AfterReconcile(a)]
    /\ UNCHANGED <<turn, handler, messages, summary, jobs, ripe, crashes>>

\* The commit of the repair job.  When another thread has inserted the same key
\* since, the unique constraint refuses the whole commit and the batch (or the
\* request) ends with the error.
InsertRepair(a) ==
    /\ actor[a].at = "insert"
    /\ \E k \in actor[a].key :
         \/ /\ jobs[k] = "none"
            /\ jobs' = Inserted(k, actor[a].seen)
            /\ actor' = [actor EXCEPT ![a] = AfterReconcile(a)]
         \/ /\ jobs[k] # "none"
            /\ actor' = [actor EXCEPT ![a] = Resting]
            /\ UNCHANGED jobs
    /\ UNCHANGED <<turn, handler, messages, summary, ripe, crashes>>

-----------------------------------------------------------------------------
\* Running jobs

\* The due time of a pending job passes.
Ripen(k) ==
    /\ jobs[k] = "pending"
    /\ ripe' = ripe \cup {k}
    /\ UNCHANGED <<turn, handler, messages, summary, jobs, actor, crashes>>

\* list_due_maintenance_jobs: the worker's batch.
ListDue ==
    /\ actor["worker"].at = "list"
    /\ actor' = [actor EXCEPT !["worker"].at = "batch",
                              !["worker"].due = {k \in ripe : jobs[k] = "pending"}]
    /\ UNCHANGED <<turn, handler, messages, summary, jobs, ripe, crashes>>

\* run_due_maintenance_jobs takes the next job of the batch, or ends the round.
TakeNext ==
    /\ actor["worker"].at = "batch"
    /\ \/ \E k \in actor["worker"].due :
            actor' = [actor EXCEPT !["worker"].at = "start", !["worker"].key = {k},
                                   !["worker"].due = @ \ {k}]
       \/ actor["worker"].due = {} /\ actor' = [actor EXCEPT !["worker"] = Resting]
    /\ UNCHANGED <<turn, handler, messages, summary, jobs, ripe, crashes>>

\* POST /api/maintenance/jobs/{job_id}/run.
RequestRun(c) ==
    /\ actor[c].at = "rest"
    /\ \E k \in Keys :
         /\ jobs[k] # "none"
         /\ actor' = [actor EXCEPT ![c].at = "start", ![c].key = {k}]
    /\ UNCHANGED <<turn, handler, messages, summary, jobs, ripe, crashes>>

\* session summarize, called by the model in a turn of another session.
RequestSummary(c) ==
    /\ actor[c].at = "rest"
    /\ actor' = [actor EXCEPT ![c].at = "read"]
    /\ UNCHANGED <<turn, handler, messages, summary, jobs, ripe, crashes>>

\* What an actor does when it is through with a job.
Through(a) ==
    IF a = "worker" THEN [Resting EXCEPT !.at = "batch", !.due = actor[a].due] ELSE Resting

\* The statuses from which start_maintenance_job starts a job.
Startable == {"pending"}

\* start_maintenance_job, first half: the status is read.
ReadStatus(a) ==
    /\ actor[a].at = "start"
    /\ \E k \in actor[a].key :
         actor' = [actor EXCEPT ![a] = IF jobs[k] \in Startable
                                       THEN [@ EXCEPT !.at = "claim"] ELSE Through(a)]
    /\ UNCHANGED <<turn, handler, messages, summary, jobs, ripe, crashes>>

\* Second half: UPDATE ... SET status = 'running' WHERE id = ..., whatever the
\* status has become since.
Claim(a) ==
    /\ actor[a].at = "claim"
    /\ \E k \in actor[a].key : jobs' = [jobs EXCEPT ![k] = "running"]
    /\ actor' = [actor EXCEPT ![a].at = "check"]
    /\ UNCHANGED <<turn, handler, messages, summary, ripe, crashes>>

\* verify_session_still_idle and the checks of run_summary_repair.
IsCurrent(k) ==
    \/ k.kind = "idle" /\ IsLatest(k.turn) /\ turn[k.turn] = "completed"
    \/ k.kind = "repair" /\ LatestCompleted /\ k.target = messages

\* Fault: a job no longer current is reported under a status it cannot end with.
SupersededAs(k) == "superseded"

\* A job that is no longer current ends: an idle job as skipped, a repair, which
\* reports ok, as completed.
SkippedAs(k) == IF k.kind = "idle" THEN "skipped" ELSE "completed"

CheckJob(a) ==
    /\ actor[a].at = "check"
    /\ \E k \in actor[a].key :
         actor' = [actor EXCEPT ![a] = IF IsCurrent(k) THEN [@ EXCEPT !.at = "read"]
                     ELSE [@ EXCEPT !.at = "finish", !.outcome = SkippedAs(k)]]
    /\ UNCHANGED <<turn, handler, messages, summary, jobs, ripe, crashes>>

\* Fault: what the model call returned is not looked at.
AlwaysOk(a, outcome) ==
    IF actor[a].key = {} THEN Resting
    ELSE [actor[a] EXCEPT !.at = "finish", !.outcome = "completed"]

\* Fault: an error of the model call leaves run_maintenance_job.
EscapesOnError(a, outcome) ==
    IF actor[a].key = {} \/ outcome = "failed" THEN Resting
    ELSE [actor[a] EXCEPT !.at = "finish", !.outcome = outcome]

\* A caller that summarises has no job to finish.
Summarised(a, outcome) ==
    IF actor[a].key = {} THEN Resting
    ELSE [actor[a] EXCEPT !.at = "finish", !.outcome = outcome]

\* handle_session_summarize reads the transcript; an up-to-date summary is kept.
ReadTranscript(a) ==
    /\ actor[a].at = "read"
    /\ actor' = [actor EXCEPT ![a] = IF summary = messages THEN Summarised(a, "completed")
                     ELSE [@ EXCEPT !.at = "model", !.upto = messages]]
    /\ UNCHANGED <<turn, handler, messages, summary, jobs, ripe, crashes>>

\* The model answers and the summary row is overwritten with the transcript read
\* before the call ...
WriteSummary(a) ==
    /\ actor[a].at = "model"
    /\ summary' = actor[a].upto
    /\ actor' = [actor EXCEPT ![a] = Summarised(a, "completed")]
    /\ UNCHANGED <<turn, handler, messages, jobs, ripe, crashes>>

\* ... or the call fails, or its answer is not JSON even after one repair.  No
\* call is made for an empty session.
FailSummary(a) ==
    /\ actor[a].at = "model"
    /\ actor[a].upto > 0
    /\ actor' = [actor EXCEPT ![a] = Summarised(a, "failed")]
    /\ UNCHANGED <<turn, handler, messages, summary, jobs, ripe, crashes>>

\* _finish_job.  An idle job that went through also reviews memory, which may
\* fail; complete_maintenance_job overwrites whatever status the row has.
Finish(a) ==
    /\ actor[a].at = "finish"
    /\ \E k \in actor[a].key, outcome \in {actor[a].outcome, "failed"} :
         /\ outcome = actor[a].outcome \/ (k.kind = "idle" /\ actor[a].outcome = "completed")
         /\ jobs' = [jobs EXCEPT ![k] = outcome]
    /\ actor' = [actor EXCEPT ![a] = Through(a)]
    /\ UNCHANGED <<turn, handler, messages, summary, ripe, crashes>>

\* The process dies and is started again: threads are gone, rows stay.
Crash ==
    /\ crashes < MaxCrashes
    /\ crashes' = crashes + 1
    /\ handler' = [t \in Turns |-> IF turn[t] = "none" THEN handler[t]
                                   ELSE [at |-> "over", pending |-> {}]]
    /\ actor' = [a \in Actors |-> Resting]
    /\ UNCHANGED <<turn, messages, summary, jobs, ripe>>

-----------------------------------------------------------------------------

Init ==
    /\ turn = [t \in Turns |-> "none"]
    /\ handler = [t \in Turns |-> [at |-> "none", pending |-> {}]]
    /\ messages = 0
    /\ summary = NoSummary
    /\ jobs = [k \in Keys |-> "none"]
    /\ ripe = {}
    /\ actor = [a \in Actors |-> Resting]
    /\ crashes = 0

TurnNext ==
    \E t \in Turns : \/ StartTurn(t) \/ StoreQuestion(t) \/ StoreAnswer(t)
                     \/ CompleteTurn(t) \/ ReadPendingIdle(t) \/ InsertIdle(t)
                     \/ FailTurn(t) \/ AbandonTurn(t)

DueTimes == \E k \in Keys : Ripen(k)

\* What an actor does on its own once it has begun.
Proceed(a) ==
    \/ InsertRepair(a) \/ ReadStatus(a) \/ Claim(a) \/ CheckJob(a)
    \/ ReadTranscript(a) \/ WriteSummary(a) \/ FailSummary(a) \/ Finish(a)

WorkerNext == Reconcile("worker") \/ ListDue \/ TakeNext \/ Proceed("worker")

CallerNext ==
    \E c \in Callers : Reconcile(c) \/ RequestRun(c) \/ RequestSummary(c) \/ Proceed(c)

Next == TurnNext \/ DueTimes \/ WorkerNext \/ CallerNext \/ Crash

Spec == Init /\ [][Next]_vars

\* Due times pass, the worker's loop goes round for ever, and the thread of a turn
\* that has its answer goes on to the end, as does a request once made.  Nobody has to make one.
FairSpec ==
    /\ Spec
    /\ WF_vars(DueTimes)
    /\ WF_vars(WorkerNext)
    /\ \A c \in Callers : WF_vars(Proceed(c))
    /\ \A t \in Turns : WF_vars(CompleteTurn(t) \/ ReadPendingIdle(t) \/ InsertIdle(t))

-----------------------------------------------------------------------------
\* Properties

\* What the variables range over.
TypeOK ==
    /\ turn \in [Turns -> {"none", "started", "completed", "failed"}]
    /\ handler \in [Turns -> Handler]
    /\ messages \in 0..MaxMessages
    /\ summary \in {NoSummary} \cup 0..MaxMessages
    /\ jobs \in [Keys -> JobStatus]
    /\ ripe \subseteq Keys
    /\ actor \in [Actors -> Actor]
    /\ crashes \in 0..MaxCrashes

\* Where a repair job may go from each status.
Lifecycle ==
    {<<"none", "pending">>, <<"pending", "running">>, <<"pending", "superseded">>,
     <<"running", "completed">>, <<"running", "failed">>}

\* A repair job is run at most once, and a job that ended keeps the status it
\* ended with, even though start_maintenance_job and complete_maintenance_job
\* overwrite the status without looking at it again.
RepairLifecycle ==
    [][\A k \in RepairKeys : jobs'[k] # jobs[k] => <<jobs[k], jobs'[k]>> \in Lifecycle]_vars

\* schedule_summary_repairs retries only what failed: while the next attempt for
\* the same last message exists, the one before it ended as failed.
RetriesFollowFailures ==
    \A k, j \in RepairKeys :
        (k.target = j.target /\ k.attempt = j.attempt + 1 /\ jobs[k] # "none")
            => jobs[j] = "failed"

\* The weaker form that survives a second thread: the next attempt is scheduled
\* only when the one before it has been run.
RetriesFollowRuns ==
    \A k, j \in RepairKeys :
        (k.target = j.target /\ k.attempt = j.attempt + 1 /\ jobs[k] # "none")
            => jobs[j] \notin {"none", "pending", "superseded"}

\* A repair job counted as completed, which keeps the reconciler from scheduling
\* another one, has done its work: when its target is still the last message of
\* the session and the latest turn is completed, the summary covers the session.
CompletedMeansCurrent ==
    \A k \in RepairKeys :
        (jobs[k] = "completed" /\ k.target = messages /\ LatestCompleted)
            => summary = messages

\* The idle job of the latest turn is never marked superseded: only a newer turn
\* may replace it.
NewestIdleJobKept ==
    \A t \in Turns : IsLatest(t) => jobs[[kind |-> "idle", turn |-> t]] # "superseded"

\* A job that runs gets another status again: every way through run_maintenance_job
\* ends in _finish_job.
EveryRunEnds == \A k \in Keys : jobs[k] = "running" ~> jobs[k] # "running"

AttemptsUsedUp ==
    messages > 0 /\ \A k \in RepairKeys : k.target = messages => jobs[k] = "failed"

\* A repair of the last message that no thread is running any more.
Stranded ==
    \E k \in RepairKeys : /\ k.target = messages /\ jobs[k] = "running"
                          /\ \A a \in Actors : k \notin actor[a].key

\* A session whose latest turn stays completed gets a summary of its last message,
\* unless every attempt of the repair has failed.
StaleSessionsRepaired ==
    <>[]LatestCompleted => []<>(summary = messages \/ AttemptsUsedUp)

\* The weaker form that survives a crash: only a repair that was running when the
\* process died may stand in the way, and a crash at any other step costs nothing.
RepairedUnlessStranded ==
    <>[]LatestCompleted => []<>(summary = messages \/ AttemptsUsedUp \/ Stranded)

\* The job table of one worker, at any crash: retries follow failures, what counts as
\* completed has done its work, and no old turn takes the place of a newer one.
JobsAreSound ==
    TypeOK /\ RetriesFollowFailures /\ CompletedMeansCurrent /\ NewestIdleJobKept

=============================================================================
