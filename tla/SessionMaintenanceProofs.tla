---------------------- MODULE SessionMaintenanceProofs ----------------------
(***************************************************************************)
(* Proofs about the maintenance jobs of a session, for any number of turns,*)
(* attempts and crashes: first what holds whoever runs jobs beside the     *)
(* worker and however turns overlap, then what the worker alone keeps when *)
(* turns follow one another.                                               *)
(***************************************************************************)
EXTENDS SessionMaintenance, FiniteSetTheorems, TLAPS

\* Turns that may still store their question, and their answer.
Unasked == {t \in Turns : handler[t].at \in {"none", "started"}}
Unanswered == {t \in Turns : handler[t].at \in {"none", "started", "model"}}
MessagesFit == messages + Cardinality(Unasked) + Cardinality(Unanswered) <= MaxMessages

\* No thread handles a turn that has not started.
NoneEarly == \A t \in Turns : turn[t] = "none" => handler[t].at = "none"

\* Repairs that are in the table, or that an actor is about to put there.
Announced(a) == IF actor[a].at = "insert" THEN actor[a].key ELSE {}
Stands(k) == jobs[k] # "none" \/ \E a \in Actors : k \in Announced(a)

Earlier(k) == {j \in RepairKeys : j.target = k.target /\ j.attempt < k.attempt}

\* What an actor holds is in the table, unless it is about to insert it.
HeldExist ==
    \A a \in Actors :
        /\ actor[a].at = "insert" => \E k \in RepairKeys : actor[a].key = {k}
        /\ actor[a].at # "insert" => \A k \in actor[a].key : jobs[k] # "none"
        /\ \A k \in actor[a].due : jobs[k] # "none"

\* Attempts of one target are made in order, each after the last one was run.
AttemptsInOrder ==
    \A k \in RepairKeys : Stands(k) =>
        /\ k.target <= messages
        /\ \A j \in Earlier(k) : jobs[j] \notin {"none", "pending", "superseded"}

\* Only repairs of a message that is no longer the last one are superseded.
SupersededAreOld ==
    \A k \in RepairKeys : jobs[k] = "superseded" => k.target < messages

\* What an actor will supersede is older than what it inserts, and was not retried.
SeenAreOld ==
    \A a \in Actors : actor[a].at = "insert" =>
        \A j \in actor[a].seen :
            /\ jobs[j] # "none"
            /\ \A k \in actor[a].key : j.target < k.target
            /\ \A i \in RepairKeys : j \in Earlier(i) => ~Stands(i)

RunsInv ==
    /\ TypeOK /\ MessagesFit /\ NoneEarly /\ HeldExist
    /\ AttemptsInOrder /\ SupersededAreOld /\ SeenAreOld

-----------------------------------------------------------------------------
\* One worker, turns one after the other.

Worker == actor["worker"]
HeldRepairs == Worker.key \cap RepairKeys
IdleKey(t) == [kind |-> "idle", turn |-> t]

\* A turn is handled until the next one starts, and schedules its job last.
TurnsInOrder ==
    \A t \in Turns :
        /\ turn[t] = "none" <=> handler[t].at = "none"
        /\ handler[t].at \in {"started", "model", "answered"} => turn[t] = "started"
        /\ handler[t].at \in {"completed", "insert"} => turn[t] = "completed"
        /\ handler[t].at \notin {"none", "over"} => IsLatest(t)
        /\ turn[t] # "none" => \A u \in Turns : u < t => turn[u] # "none"
        /\ jobs[IdleKey(t)] # "none" => handler[t].at = "over"
        /\ \A k \in handler[t].pending : k.turn < t

\* The row of the repair the worker is at has the status its step calls for.
WorkerHolds ==
    /\ \A j, k \in Worker.key : j = k
    /\ Worker.at = "claim" => \A k \in HeldRepairs : jobs[k] = "pending"
    /\ Worker.at \in {"check", "read", "model", "finish"} =>
         \A k \in HeldRepairs : jobs[k] = "running"
    /\ Worker.at = "finish" /\ HeldRepairs # {} => Worker.outcome \in {"completed", "failed"}
    /\ Worker.at = "insert" =>
         /\ \A k \in Worker.key : jobs[k] = "none"
         /\ \A j \in Worker.seen : jobs[j] = "pending"

NoneSkipped == \A k \in RepairKeys : jobs[k] # "skipped"

RetriesAfterFailures ==
    \A k \in RepairKeys : Stands(k) => \A j \in Earlier(k) : jobs[j] = "failed"

\* Repairs are for messages stored before the turn that is being answered.
TargetsAreOld ==
    \A k \in RepairKeys : Stands(k) =>
        \A t \in Turns : handler[t].at \in {"model", "answered"} => k.target < messages

\* What the worker is about to write covers what the repairs in the table are for.
WorkerIsCurrent ==
    /\ Worker.at = "finish" /\ Worker.outcome = "completed" =>
         \A k \in HeldRepairs : k.target = messages /\ LatestCompleted => summary = messages
    /\ Worker.at = "model" =>
         /\ Worker.upto <= messages
         /\ \A k \in RepairKeys : jobs[k] # "none" => k.target <= Worker.upto

WorkerInv ==
    /\ RunsInv /\ TurnsInOrder /\ NewestIdleJobKept
    /\ WorkerHolds /\ NoneSkipped /\ RetriesAfterFailures
    /\ TargetsAreOld /\ WorkerIsCurrent /\ CompletedMeansCurrent

-----------------------------------------------------------------------------
\* Keys

\* An idle key is no repair key.
LEMMA KindsDiffer ==
    /\ IdleKeys \cap RepairKeys = {}
    /\ \A k \in Keys : k \in IdleKeys <=> k.kind = "idle"
    /\ \A k \in Keys : k \in RepairKeys <=> k.kind = "repair"
BY DEF Keys, IdleKeys, RepairKeys

\* How many numbers there are up to n.
LEMMA CountTo == \A n \in Nat : IsFiniteSet(1..n) /\ Cardinality(1..n) = n
<1> SUFFICES ASSUME NEW n \in Nat PROVE IsFiniteSet(1..n) /\ Cardinality(1..n) = n
  OBVIOUS
<1>1. 1 \in Int /\ n \in Int
  OBVIOUS
<1>2. IsFiniteSet(1..n) /\ Cardinality(1..n) = IF 1 > n THEN 0 ELSE n - 1 + 1
  BY <1>1, FS_Interval
<1> QED BY <1>2

\* The attempts before one are as many as its number says.
LEMMA EarlierCount ==
    ASSUME NEW k \in RepairKeys
    PROVE  IsFiniteSet(Earlier(k)) /\ Cardinality(Earlier(k)) = k.attempt - 1
<1> DEFINE n == k.attempt - 1
           f == [i \in 1..n |-> [kind |-> "repair", target |-> k.target, attempt |-> i]]
<1>1. /\ MaxAttempts \in Nat /\ MaxTurns \in Nat
      /\ k.attempt \in 1..MaxAttempts /\ k.target \in 1..MaxMessages
      /\ n \in Nat
  BY BoundsNat DEF RepairKeys
<1>2. \A i \in 1..n : f[i] \in Earlier(k)
  BY <1>1 DEF Earlier, RepairKeys
<1>3. f \in [1..n -> Earlier(k)]
  BY <1>2
<1>4. \A i, j \in 1..n : f[i] = f[j] => i = j
  <2> TAKE i, j \in 1..n
  <2>1. f[i].attempt = i /\ f[j].attempt = j
    OBVIOUS
  <2> QED BY <2>1
<1>5. \A j \in Earlier(k) : \E i \in 1..n : f[i] = j
  <2> TAKE j \in Earlier(k)
  <2>1. j \in RepairKeys /\ j.target = k.target /\ j.attempt < k.attempt
    BY DEF Earlier
  <2>2. j.attempt \in 1..n
    BY <1>1, <2>1 DEF RepairKeys
  <2>3. j = [kind |-> "repair", target |-> k.target, attempt |-> j.attempt]
    BY <2>1 DEF RepairKeys
  <2> QED BY <2>2, <2>3
<1>6. ExistsBijection(1..n, Earlier(k))
  BY <1>3, <1>4, <1>5 DEF ExistsBijection, Bijection, Injection, Surjection, IsInjective
<1>7. IsFiniteSet(1..n) /\ Cardinality(1..n) = n
  BY <1>1, CountTo
<1> QED BY <1>6, <1>7, FS_Bijection

\* The next attempt after the matching ones has no row, and all before it have one.
LEMMA NextAttempt ==
    ASSUME TypeOK,
           \A i \in RepairKeys : jobs[i] # "none" => \A j \in Earlier(i) : jobs[j] # "none",
           NEW k \in RepairKeys,
           k.attempt = Cardinality(Matching(k.target)) + 1
    PROVE  jobs[k] = "none" /\ Earlier(k) = Matching(k.target)
<1> DEFINE M == Matching(k.target)
<1>1. /\ MaxAttempts \in Nat /\ k.attempt \in Nat
      /\ \A i \in RepairKeys : i.attempt \in Nat /\ i.kind = "repair"
  BY BoundsNat DEF RepairKeys
<1>2. M = {i \in RepairKeys : i.target = k.target /\ jobs[i] # "none"}
  BY <1>1 DEF Matching, IsRepairOf
<1>3. IsFiniteSet(Earlier(k)) /\ Cardinality(Earlier(k)) = k.attempt - 1
  BY EarlierCount
<1>4. k \notin Earlier(k)
  BY <1>1 DEF Earlier
<1>5. ASSUME k \in M PROVE FALSE
  <2>1. Earlier(k) \cup {k} \subseteq M
    BY <1>2, <1>5 DEF Earlier
  <2>2. \A i \in M : i.attempt \in 1..MaxAttempts
    BY <1>2 DEF RepairKeys
  <2>3. IsFiniteSet(M)
    <3> DEFINE g == [i \in M |-> i.attempt]
    <3>1. g \in [M -> 1..MaxAttempts]
      BY <2>2
    <3>2. \A i, j \in M : g[i] = g[j] => i = j
      BY <1>2 DEF RepairKeys
    <3>3. g \in Injection(M, 1..MaxAttempts)
      BY <3>1, <3>2 DEF Injection, IsInjective
    <3>4. IsFiniteSet(1..MaxAttempts)
      BY <1>1, FS_Interval
    <3> QED BY <3>3, <3>4, FS_Injection
  <2>4. Cardinality(Earlier(k) \cup {k}) = k.attempt
    <3>1. Cardinality(Earlier(k) \cup {k}) = Cardinality(Earlier(k)) + 1
      BY <1>3, <1>4, FS_AddElement
    <3> QED BY <3>1, <1>1, <1>3
  <2>5. k.attempt <= Cardinality(M) /\ Cardinality(M) \in Nat
    BY <2>1, <2>3, <2>4, FS_Subset, FS_CardinalityType
  <2> QED BY <2>5, <1>1
<1>6. M \subseteq Earlier(k)
  <2> SUFFICES ASSUME NEW i \in M PROVE i \in Earlier(k)
    OBVIOUS
  <2>1. i \in RepairKeys /\ i.target = k.target /\ jobs[i] # "none"
    BY <1>2
  <2>2. ~(k \in Earlier(i))
    BY <1>2, <1>5, <2>1
  <2>3. i # k
    BY <1>5
  <2>4. i.attempt # k.attempt
    BY <2>1, <2>3 DEF RepairKeys
  <2> QED BY <2>1, <2>2, <2>4, <1>1 DEF Earlier
<1>7. Cardinality(M) = Cardinality(Earlier(k))
  <2>1. Cardinality(M) \in Nat
    BY <1>3, <1>6, FS_Subset, FS_CardinalityType
  <2> QED BY <2>1, <1>1, <1>3
<1>8. M = Earlier(k)
  BY <1>3, <1>6, <1>7, FS_Subset
<1> QED BY <1>2, <1>5, <1>8

-----------------------------------------------------------------------------
\* Types.  No turn stores more than its question and its answer.

LEMMA SetsFinite ==
    /\ IsFiniteSet(Unasked) /\ IsFiniteSet(Unanswered)
    /\ Cardinality(Unasked) \in Nat /\ Cardinality(Unanswered) \in Nat
<1>1. IsFiniteSet(Turns)
  BY BoundsNat, CountTo DEF Turns
<1>2. Unasked \in SUBSET Turns /\ Unanswered \in SUBSET Turns
  BY DEF Unasked, Unanswered
<1>3. IsFiniteSet(Unasked) /\ IsFiniteSet(Unanswered)
  BY <1>1, <1>2, FS_Subset
<1> QED BY <1>3, FS_CardinalityType

\* A step that stores no message and in which turns only go forward.
LEMMA FitKept ==
    ASSUME TypeOK, MessagesFit, messages' = messages,
           Unasked' \subseteq Unasked, Unanswered' \subseteq Unanswered
    PROVE  MessagesFit' /\ messages' \in 0..MaxMessages
<1>1. /\ Cardinality(Unasked') <= Cardinality(Unasked)
      /\ Cardinality(Unanswered') <= Cardinality(Unanswered)
      /\ Cardinality(Unasked') \in Nat /\ Cardinality(Unanswered') \in Nat
  BY SetsFinite, FS_Subset, FS_CardinalityType
<1>2. messages \in Nat /\ MaxMessages \in Nat
  BY BoundsNat DEF TypeOK, MaxMessages
<1>3. Cardinality(Unasked)' = Cardinality(Unasked')
      /\ Cardinality(Unanswered)' = Cardinality(Unanswered')
  OBVIOUS
<1> QED BY <1>1, <1>2, <1>3, SetsFinite DEF MessagesFit, TypeOK, MaxMessages

LEMMA FitStep ==
    ASSUME TypeOK, MessagesFit, NoneEarly, [Next]_vars
    PROVE  MessagesFit' /\ messages' \in 0..MaxMessages /\ messages <= messages'
<1>0. messages \in Nat /\ MaxMessages \in Nat
  BY BoundsNat DEF TypeOK, MaxMessages
<1>1. ASSUME NEW t \in Turns, StoreQuestion(t)
      PROVE  MessagesFit' /\ messages' \in 0..MaxMessages /\ messages <= messages'
  <2>1. messages' = messages + 1 /\ Unanswered' = Unanswered
        /\ Unasked' = Unasked \ {t} /\ t \in Unasked
    BY <1>1 DEF StoreQuestion, Unasked, Unanswered, TypeOK, Handler
  <2>2. Cardinality(Unasked') = Cardinality(Unasked) - 1 /\ Cardinality(Unasked') \in Nat
    BY <2>1, SetsFinite, FS_RemoveElement, FS_CardinalityType
  <2>3. messages' + Cardinality(Unasked') + Cardinality(Unanswered') <= MaxMessages
    BY <1>0, <2>1, <2>2, SetsFinite DEF MessagesFit
  <2>4. MessagesFit'
    BY <2>3 DEF MessagesFit, MaxMessages
  <2> QED BY <1>0, <2>1, <2>2, <2>3, <2>4, SetsFinite
<1>2. ASSUME NEW t \in Turns, StoreAnswer(t)
      PROVE  MessagesFit' /\ messages' \in 0..MaxMessages /\ messages <= messages'
  <2>1. messages' = messages + 1 /\ Unasked' = Unasked
        /\ Unanswered' = Unanswered \ {t} /\ t \in Unanswered
    BY <1>2 DEF StoreAnswer, Unasked, Unanswered, TypeOK, Handler
  <2>2. Cardinality(Unanswered') = Cardinality(Unanswered) - 1
        /\ Cardinality(Unanswered') \in Nat
    BY <2>1, SetsFinite, FS_RemoveElement, FS_CardinalityType
  <2>3. messages' + Cardinality(Unasked') + Cardinality(Unanswered') <= MaxMessages
    BY <1>0, <2>1, <2>2, SetsFinite DEF MessagesFit
  <2>4. MessagesFit'
    BY <2>3 DEF MessagesFit, MaxMessages
  <2> QED BY <1>0, <2>1, <2>2, <2>3, <2>4, SetsFinite
<1>3. ASSUME messages' = messages,
             \A t \in Turns :
                 /\ handler'[t].at \in {"none", "started"} => handler[t].at \in {"none", "started"}
                 /\ handler'[t].at \in {"none", "started", "model"}
                      => handler[t].at \in {"none", "started", "model"}
      PROVE  MessagesFit' /\ messages' \in 0..MaxMessages /\ messages <= messages'
  <2>1. Unasked' \subseteq Unasked /\ Unanswered' \subseteq Unanswered
    BY <1>3 DEF Unasked, Unanswered
  <2> QED BY <1>0, <1>3, <2>1, FitKept
<1>4. ASSUME NEW t \in Turns,
             StartTurn(t) \/ CompleteTurn(t) \/ ReadPendingIdle(t) \/ InsertIdle(t)
               \/ FailTurn(t) \/ AbandonTurn(t)
      PROVE  MessagesFit' /\ messages' \in 0..MaxMessages /\ messages <= messages'
  <2>1. messages' = messages
    BY <1>4 DEF StartTurn, CompleteTurn, ReadPendingIdle, InsertIdle, FailTurn, AbandonTurn
  <2>2. CASE StartTurn(t)
    BY <1>3, <2>1, <2>2 DEF StartTurn, TypeOK, Handler, NoneEarly
  <2>3. CASE ~StartTurn(t)
    BY <1>3, <1>4, <2>1, <2>3
    DEF CompleteTurn, ReadPendingIdle, InsertIdle, FailTurn, AbandonTurn, TypeOK, Handler
  <2> QED BY <2>2, <2>3
<1>5. CASE handler' = handler /\ messages' = messages
  BY <1>3, <1>5
<1>6. CASE Crash
  BY <1>3, <1>6 DEF Crash, TypeOK
<1>7. CASE DueTimes \/ WorkerNext \/ CallerNext \/ UNCHANGED vars
  <2>1. handler' = handler /\ messages' = messages
    BY <1>7 DEF DueTimes, WorkerNext, CallerNext, Proceed, vars, Ripen, Reconcile, ListDue,
                TakeNext, InsertRepair, ReadStatus, Claim, CheckJob, ReadTranscript, WriteSummary,
                FailSummary, Finish, RequestRun, RequestSummary
  <2> QED BY <1>5, <2>1
<1> QED BY <1>1, <1>2, <1>4, <1>6, <1>7 DEF Next, TurnNext

\* Every step keeps the types.
LEMMA TypeStep ==
    ASSUME TypeOK, MessagesFit, NoneEarly, [Next]_vars PROVE TypeOK'
<1>1. messages' \in 0..MaxMessages
  BY FitStep
<1>2. ASSUME NEW t \in Turns, StartTurn(t) \/ StoreQuestion(t) \/ StoreAnswer(t)
                 \/ CompleteTurn(t) \/ FailTurn(t) \/ AbandonTurn(t)
      PROVE  TypeOK'
  <2>1. PICK at \in {"started", "model", "answered", "completed", "over"} :
           handler' = [handler EXCEPT ![t].at = at]
    BY <1>2 DEF StartTurn, StoreQuestion, StoreAnswer, CompleteTurn, FailTurn, AbandonTurn
  <2>2. handler[t] \in Handler /\ [handler[t] EXCEPT !.at = at] \in Handler
    BY DEF TypeOK, Handler
  <2>3. handler' \in [Turns -> Handler]
    BY <2>1, <2>2 DEF TypeOK
  <2>4. turn' \in [Turns -> {"none", "started", "completed", "failed"}]
    BY <1>2 DEF StartTurn, StoreQuestion, StoreAnswer, CompleteTurn, FailTurn, AbandonTurn, TypeOK
  <2>5. UNCHANGED <<summary, jobs, ripe, actor, crashes>>
    BY <1>2 DEF StartTurn, StoreQuestion, StoreAnswer, CompleteTurn, FailTurn, AbandonTurn
  <2> QED BY <1>1, <2>3, <2>4, <2>5 DEF TypeOK
<1>3. ASSUME NEW t \in Turns, ReadPendingIdle(t) PROVE TypeOK'
  <2>1. PendingOf("idle") \subseteq IdleKeys
    BY KindsDiffer DEF PendingOf
  <2>2. [at |-> "insert", pending |-> PendingOf("idle")] \in Handler
    BY <2>1 DEF Handler
  <2> QED BY <1>1, <1>3, <2>2 DEF TypeOK, ReadPendingIdle
<1>4. ASSUME NEW k \in Keys, NEW seen PROVE Inserted(k, seen) \in [Keys -> JobStatus]
  BY DEF Inserted, TypeOK, JobStatus
<1>5. ASSUME NEW t \in Turns, InsertIdle(t) PROVE TypeOK'
  <2>1. [kind |-> "idle", turn |-> t] \in Keys
    BY DEF Keys, IdleKeys
  <2>2. [at |-> "over", pending |-> {}] \in Handler
    BY DEF Handler
  <2>3. jobs' \in [Keys -> JobStatus]
    BY <1>4, <1>5, <2>1 DEF InsertIdle
  <2>4. handler' \in [Turns -> Handler]
    BY <1>5, <2>2 DEF TypeOK, InsertIdle
  <2> QED BY <1>1, <1>5, <2>3, <2>4 DEF TypeOK, InsertIdle
<1>6. ASSUME NEW k \in Keys, Ripen(k) PROVE TypeOK'
  BY <1>6 DEF TypeOK, Ripen
<1>7. ASSUME NEW a \in Actors, NEW new \in Actor, actor' = [actor EXCEPT ![a] = new],
             UNCHANGED <<turn, handler, messages, summary, jobs, ripe, crashes>>
      PROVE  TypeOK'
  BY <1>7 DEF TypeOK
<1>8. Resting \in Actor /\ \A a \in Actors : Through(a) \in Actor /\ AfterReconcile(a) \in Actor
  <2>1. Resting \in Actor
    BY BoundsNat DEF Resting, Actor, MaxMessages
  <2>2. \A a \in Actors : AfterReconcile(a) \in Actor
    BY <2>1 DEF AfterReconcile, Actor
  <2>3. \A a \in Actors : Through(a) \in Actor
    BY <2>1 DEF Through, Actor, TypeOK
  <2> QED BY <2>1, <2>2, <2>3
<1>9. ASSUME NEW a \in Actors, NEW outcome \in {"completed", "failed", "skipped"}
      PROVE  Summarised(a, outcome) \in Actor
  BY <1>8 DEF Summarised, Actor, TypeOK
<1>10. ASSUME NEW a \in Actors, Reconcile(a) PROVE TypeOK'
  <2>1. PendingOf("repair") \subseteq RepairKeys /\ RepairKeys \subseteq Keys
    BY KindsDiffer DEF PendingOf, Keys
  <2>2. \A k \in RepairKeys : [Resting EXCEPT !.at = "insert", !.key = {k},
                                              !.seen = PendingOf("repair")] \in Actor
    BY <1>8, <2>1 DEF Actor
  <2> QED BY <1>7, <1>8, <1>10, <2>2 DEF Reconcile
<1>11. ASSUME NEW a \in Actors, InsertRepair(a) PROVE TypeOK'
  <2>1. PICK k \in actor[a].key :
           \/ jobs' = Inserted(k, actor[a].seen)
              /\ actor' = [actor EXCEPT ![a] = AfterReconcile(a)]
           \/ jobs' = jobs /\ actor' = [actor EXCEPT ![a] = Resting]
    BY <1>11 DEF InsertRepair
  <2>2. k \in Keys
    BY <2>1 DEF TypeOK, Actor
  <2>3. jobs' \in [Keys -> JobStatus] /\ actor' \in [Actors -> Actor]
    BY <1>4, <1>8, <2>1, <2>2 DEF TypeOK
  <2> QED BY <1>1, <1>11, <2>3 DEF TypeOK, InsertRepair
<1>12. ListDue => TypeOK'
  <2> DEFINE new == [actor["worker"] EXCEPT !.at = "batch", !.due = {k \in ripe : jobs[k] = "pending"}]
  <2>1. "worker" \in Actors /\ new \in Actor
    BY DEF TypeOK, Actor, Actors
  <2>2. ListDue => actor' = [actor EXCEPT !["worker"] = new]
    BY DEF ListDue
  <2> QED BY <1>7, <2>1, <2>2 DEF ListDue
<1>13. TakeNext => TypeOK'
  <2> SUFFICES ASSUME TakeNext PROVE TypeOK'
    OBVIOUS
  <2> DEFINE new(k) == [actor["worker"] EXCEPT !.at = "start", !.key = {k}, !.due = @ \ {k}]
  <2>1. "worker" \in Actors /\ \A k \in actor["worker"].due : new(k) \in Actor
    BY DEF TypeOK, Actor, Actors
  <2>2. CASE \E k \in actor["worker"].due : actor' = [actor EXCEPT !["worker"] = new(k)]
    BY <1>7, <2>1, <2>2 DEF TakeNext
  <2>3. CASE actor' = [actor EXCEPT !["worker"] = Resting]
    BY <1>7, <1>8, <2>1, <2>3 DEF TakeNext
  <2> QED BY <2>2, <2>3 DEF TakeNext
<1>14. ASSUME NEW c \in Callers, RequestRun(c) \/ RequestSummary(c) PROVE TypeOK'
  <2> DEFINE new(k) == [actor[c] EXCEPT !.at = "start", !.key = {k}]
             read == [actor[c] EXCEPT !.at = "read"]
  <2>1. c \in Actors /\ read \in Actor /\ \A k \in Keys : new(k) \in Actor
    BY DEF TypeOK, Actor, Actors
  <2>2. \/ \E k \in Keys : actor' = [actor EXCEPT ![c] = new(k)]
        \/ actor' = [actor EXCEPT ![c] = read]
    BY <1>14 DEF RequestRun, RequestSummary
  <2> QED BY <1>7, <1>14, <2>1, <2>2 DEF RequestRun, RequestSummary
<1>15. ASSUME NEW a \in Actors, ReadStatus(a) PROVE TypeOK'
  <2>1. [actor[a] EXCEPT !.at = "claim"] \in Actor
    BY DEF TypeOK, Actor
  <2> QED BY <1>7, <1>8, <1>15, <2>1 DEF ReadStatus
<1>16. ASSUME NEW a \in Actors, Claim(a) PROVE TypeOK'
  <2>1. [actor[a] EXCEPT !.at = "check"] \in Actor
    BY DEF TypeOK, Actor
  <2>2. actor' \in [Actors -> Actor] /\ jobs' \in [Keys -> JobStatus]
    BY <1>16, <2>1 DEF Claim, TypeOK, JobStatus
  <2> QED BY <1>1, <1>16, <2>2 DEF Claim, TypeOK
<1>17. ASSUME NEW a \in Actors, CheckJob(a) PROVE TypeOK'
  <2>1. \A k : /\ [actor[a] EXCEPT !.at = "read"] \in Actor
               /\ [actor[a] EXCEPT !.at = "finish", !.outcome = SkippedAs(k)] \in Actor
    BY DEF TypeOK, Actor, SkippedAs
  <2> QED BY <1>7, <1>17, <2>1 DEF CheckJob
<1>18. ASSUME NEW a \in Actors, ReadTranscript(a) PROVE TypeOK'
  <2>1. [actor[a] EXCEPT !.at = "model", !.upto = messages] \in Actor
    BY DEF TypeOK, Actor
  <2> QED BY <1>7, <1>9, <1>18, <2>1 DEF ReadTranscript
<1>19. ASSUME NEW a \in Actors, WriteSummary(a) PROVE TypeOK'
  <2>1. actor[a].upto \in 0..MaxMessages /\ Summarised(a, "completed") \in Actor
    BY <1>9 DEF TypeOK, Actor
  <2> QED BY <1>1, <1>19, <2>1 DEF WriteSummary, TypeOK
<1>20. ASSUME NEW a \in Actors, FailSummary(a) PROVE TypeOK'
  BY <1>7, <1>9, <1>20 DEF FailSummary
<1>21. ASSUME NEW a \in Actors, Finish(a) PROVE TypeOK'
  <2>1. Through(a) \in Actor /\ actor[a].outcome \in {"completed", "failed", "skipped"}
    BY <1>8 DEF TypeOK, Actor
  <2>2. PICK k \in actor[a].key, outcome \in {actor[a].outcome, "failed"} :
           jobs' = [jobs EXCEPT ![k] = outcome]
    BY <1>21 DEF Finish
  <2>3. jobs' \in [Keys -> JobStatus]
    BY <2>1, <2>2 DEF TypeOK, JobStatus
  <2> QED BY <1>1, <1>21, <2>1, <2>3 DEF Finish, TypeOK
<1>22. Crash => TypeOK'
  <2>1. [at |-> "over", pending |-> {}] \in Handler
    BY DEF Handler
  <2> QED BY <1>1, <1>8, <2>1, BoundsNat DEF Crash, TypeOK
<1>23. UNCHANGED vars => TypeOK'
  BY DEF vars, TypeOK
<1>24. "worker" \in Actors /\ \A c \in Callers : c \in Actors
  BY DEF Actors
<1> QED
  BY <1>2, <1>3, <1>5, <1>6, <1>10, <1>11, <1>12, <1>13, <1>14, <1>15, <1>16, <1>17, <1>18,
     <1>19, <1>20, <1>21, <1>22, <1>23, <1>24
  DEF Next, TurnNext, DueTimes, WorkerNext, CallerNext, Proceed

-----------------------------------------------------------------------------
\* Whoever runs jobs: attempts follow runs.

\* An actor that will insert nothing and holds only what is in the table.
Harmless(r) == r.at # "insert" /\ \A k \in r.key \cup r.due : jobs[k] # "none"

\* A step that schedules no repair.
LEMMA QuietStep ==
    ASSUME RunsInv, TypeOK', messages <= messages',
           \A k \in Keys : jobs[k] # "none" => jobs'[k] # "none",
           \A k \in RepairKeys :
               jobs'[k] # jobs[k] =>
                   jobs[k] # "none" /\ jobs'[k] \notin {"none", "pending", "superseded"},
           \A b \in Actors : actor'[b] = actor[b] \/ Harmless(actor'[b])
    PROVE  HeldExist' /\ AttemptsInOrder' /\ SupersededAreOld' /\ SeenAreOld'
<1>1. /\ RepairKeys \subseteq Keys /\ messages \in Nat /\ messages' \in Nat
      /\ \A k \in RepairKeys : k.target \in Nat
  BY BoundsNat DEF Keys, RunsInv, TypeOK, RepairKeys, MaxMessages
<1>2. \A b \in Actors : actor[b].due \subseteq Keys /\ actor[b].key \subseteq Keys
                        /\ actor[b].seen \subseteq RepairKeys
  BY DEF RunsInv, TypeOK, Actor
<1>3. HeldExist'
  <2> SUFFICES ASSUME NEW b \in Actors
               PROVE  /\ actor'[b].at = "insert" => \E k \in RepairKeys : actor'[b].key = {k}
                      /\ actor'[b].at # "insert" => \A k \in actor'[b].key : jobs'[k] # "none"
                      /\ \A k \in actor'[b].due : jobs'[k] # "none"
    BY DEF HeldExist
  <2>1. CASE actor'[b] = actor[b]
    BY <1>2, <2>1 DEF HeldExist, RunsInv
  <2>2. CASE Harmless(actor'[b])
    <3>1. actor'[b].key \subseteq Keys /\ actor'[b].due \subseteq Keys
      BY DEF TypeOK, Actor
    <3> QED BY <2>2, <3>1 DEF Harmless
  <2> QED BY <2>1, <2>2
<1>4. \A k \in RepairKeys : Stands(k)' => Stands(k)
  <2> SUFFICES ASSUME NEW k \in RepairKeys, Stands(k)' PROVE Stands(k)
    OBVIOUS
  <2>1. CASE jobs'[k] # "none"
    BY <2>1 DEF Stands
  <2>2. CASE \E b \in Actors : k \in Announced(b)'
    <3>1. PICK b \in Actors : actor'[b].at = "insert" /\ k \in actor'[b].key
      BY <2>2 DEF Announced
    <3>2. actor'[b] = actor[b]
      BY <3>1 DEF Harmless
    <3> QED BY <3>1, <3>2 DEF Stands, Announced
  <2> QED BY <2>1, <2>2 DEF Stands
<1>5. AttemptsInOrder'
  <2> SUFFICES ASSUME NEW k \in RepairKeys, Stands(k)'
               PROVE  /\ k.target <= messages'
                      /\ \A j \in Earlier(k) : jobs'[j] \notin {"none", "pending", "superseded"}
    BY DEF AttemptsInOrder, Earlier
  <2>1. /\ k.target <= messages
        /\ \A j \in Earlier(k) : jobs[j] \notin {"none", "pending", "superseded"}
    BY <1>4 DEF AttemptsInOrder, RunsInv
  <2>2. k.target <= messages'
    BY <1>1, <2>1
  <2> QED BY <2>1, <2>2 DEF Earlier
<1>6. SupersededAreOld'
  <2> SUFFICES ASSUME NEW k \in RepairKeys, jobs'[k] = "superseded" PROVE k.target < messages'
    BY DEF SupersededAreOld
  <2>1. k.target < messages
    BY DEF SupersededAreOld, RunsInv
  <2> QED BY <1>1, <2>1
<1>7. SeenAreOld'
  BY <1>1, <1>2, <1>4 DEF SeenAreOld, Harmless, RunsInv, Earlier
<1> QED BY <1>3, <1>5, <1>6, <1>7

\* The reconciler announces the next attempt for the last message.
LEMMA AnnounceStep ==
    ASSUME RunsInv, NEW a \in Actors, NEW k \in RepairKeys, Repairable(k),
           actor' = [actor EXCEPT ![a] =
               [Resting EXCEPT !.at = "insert", !.key = {k}, !.seen = PendingOf("repair")]],
           UNCHANGED <<jobs, messages>>
    PROVE  /\ HeldExist' /\ AttemptsInOrder' /\ SupersededAreOld' /\ SeenAreOld'
           /\ jobs[k] = "none" /\ Earlier(k) = Matching(messages)
           /\ k.target = messages
           /\ \A i \in RepairKeys : Stands(i)' => Stands(i) \/ i = k
           /\ \A j \in PendingOf("repair") : j \in RepairKeys /\ jobs[j] = "pending"
           /\ \A j \in Earlier(k) : jobs[j] \notin Blocking \cup {"none", "superseded"}
<1>1. RepairKeys \subseteq Keys /\ messages \in Nat /\ \A i \in RepairKeys : i.target \in Nat
  BY BoundsNat DEF Keys, RunsInv, TypeOK, RepairKeys, MaxMessages
<1>2. k.target = messages /\ \A j \in Matching(messages) : jobs[j] \notin Blocking
  BY DEF Repairable, IsRepairOf
<1>3. jobs[k] = "none" /\ Earlier(k) = Matching(messages)
  <2>1. \A i \in RepairKeys : jobs[i] # "none" => \A j \in Earlier(i) : jobs[j] # "none"
    BY DEF RunsInv, AttemptsInOrder, Stands
  <2>2. k.attempt = Cardinality(Matching(k.target)) + 1
    BY <1>2 DEF Repairable
  <2> QED BY <1>2, <2>1, <2>2, NextAttempt DEF RunsInv
<1>4. \A j \in Earlier(k) : jobs[j] \notin Blocking \cup {"none", "superseded"}
  <2> SUFFICES ASSUME NEW j \in Earlier(k) PROVE jobs[j] \notin Blocking \cup {"none", "superseded"}
    OBVIOUS
  <2>1. j \in RepairKeys /\ j.target = messages /\ jobs[j] # "none" /\ jobs[j] \notin Blocking
    BY <1>2, <1>3 DEF Matching, Earlier
  <2>2. jobs[j] # "superseded"
    BY <1>1, <2>1 DEF RunsInv, SupersededAreOld
  <2> QED BY <2>1, <2>2
<1>5. \A j \in PendingOf("repair") : j \in RepairKeys /\ jobs[j] = "pending"
  BY KindsDiffer DEF PendingOf
<1>6. \A j \in RepairKeys : jobs[j] # "none" => j.target <= messages
  BY DEF RunsInv, AttemptsInOrder, Stands
<1>7. \A j \in PendingOf("repair") : j.target < k.target
  <2> SUFFICES ASSUME NEW j \in PendingOf("repair") PROVE j.target < k.target
    OBVIOUS
  <2>1. j \in RepairKeys /\ j.kind = "repair" /\ jobs[j] = "pending" /\ j.target <= messages
    BY <1>5, <1>6 DEF RepairKeys
  <2>2. j.target # messages
    BY <1>2, <2>1 DEF Matching, IsRepairOf, Blocking
  <2> QED BY <1>1, <1>2, <2>1, <2>2
<1>8. /\ actor'[a].at = "insert" /\ actor'[a].key = {k} /\ actor'[a].seen = PendingOf("repair")
      /\ actor'[a].due = {}
      /\ \A b \in Actors : b # a => actor'[b] = actor[b]
  BY DEF Resting, RunsInv, TypeOK
<1>9. \A i \in RepairKeys : Stands(i)' => Stands(i) \/ i = k
  BY <1>8 DEF Stands, Announced
<1>10. HeldExist'
  BY <1>8 DEF HeldExist, RunsInv
<1>11. AttemptsInOrder'
  BY <1>1, <1>2, <1>4, <1>9 DEF AttemptsInOrder, RunsInv, Blocking
<1>12. SupersededAreOld'
  BY DEF SupersededAreOld, RunsInv
<1>13. SeenAreOld'
  <2> SUFFICES ASSUME NEW b \in Actors, actor'[b].at = "insert", NEW j \in actor'[b].seen
               PROVE  /\ jobs[j] # "none"
                      /\ \A i \in actor'[b].key : j.target < i.target
                      /\ \A i \in RepairKeys : j \in Earlier(i) => ~Stands(i)'
    BY DEF SeenAreOld, Earlier
  <2>1. CASE b = a
    <3>1. j \in RepairKeys /\ jobs[j] = "pending" /\ j.target < k.target
      BY <1>5, <1>7, <1>8, <2>1
    <3>2. \A i \in RepairKeys : j \in Earlier(i) => ~Stands(i) /\ i # k
      BY <1>1, <3>1 DEF RunsInv, AttemptsInOrder, Earlier
    <3> QED BY <1>8, <1>9, <2>1, <3>1, <3>2
  <2>2. CASE b # a
    <3>1. /\ actor[b].at = "insert" /\ j \in actor[b].seen /\ jobs[j] # "none"
          /\ \A i \in actor[b].key : j.target < i.target
          /\ \A i \in RepairKeys : j \in Earlier(i) => ~Stands(i)
      BY <1>8, <2>2 DEF RunsInv, SeenAreOld
    <3>2. PICK i \in RepairKeys : actor[b].key = {i}
      BY <3>1 DEF RunsInv, HeldExist
    <3>3. Stands(i) /\ i.target <= messages /\ j.target < i.target
      BY <3>1, <3>2 DEF Stands, Announced, RunsInv, AttemptsInOrder
    <3>4. j \in RepairKeys
      BY <3>1 DEF RunsInv, TypeOK, Actor
    <3>5. j \notin Earlier(k)
      BY <1>1, <1>2, <3>3, <3>4 DEF Earlier
    <3> QED BY <1>8, <1>9, <2>2, <3>1, <3>5
  <2> QED BY <2>1, <2>2
<1> QED BY <1>2, <1>3, <1>4, <1>5, <1>9, <1>10, <1>11, <1>12, <1>13

\* The row is inserted, and the older ones read before are superseded.
LEMMA InsertStep ==
    ASSUME RunsInv, NEW a \in Actors, NEW k \in actor[a].key, actor[a].at = "insert",
           jobs[k] = "none", jobs' = Inserted(k, actor[a].seen),
           actor' = [actor EXCEPT ![a] = AfterReconcile(a)], UNCHANGED messages
    PROVE  /\ HeldExist' /\ AttemptsInOrder' /\ SupersededAreOld' /\ SeenAreOld'
           /\ k \in RepairKeys /\ actor[a].key = {k}
           /\ \A i \in RepairKeys : Stands(i)' => Stands(i)
           /\ \A i \in RepairKeys : Stands(i) => \A j \in Earlier(i) : jobs'[j] = jobs[j]
<1>1. RepairKeys \subseteq Keys /\ messages \in Nat /\ \A i \in RepairKeys : i.target \in Nat
  BY BoundsNat DEF Keys, RunsInv, TypeOK, RepairKeys, MaxMessages
<1>2. k \in RepairKeys /\ actor[a].key = {k}
  BY DEF RunsInv, HeldExist
<1>3. /\ actor[a].seen \subseteq RepairKeys
      /\ \A b \in Actors : actor[b].due \subseteq Keys /\ actor[b].key \subseteq Keys
                           /\ actor[b].seen \subseteq RepairKeys
  BY DEF RunsInv, TypeOK, Actor
<1>4. /\ \A i \in Keys : jobs'[i] = IF i = k THEN "pending"
                                    ELSE IF i \in actor[a].seen THEN "superseded" ELSE jobs[i]
      /\ \A i \in Keys : jobs[i] # "none" => jobs'[i] # "none"
  BY DEF Inserted
<1>5. /\ actor'[a].at # "insert" /\ actor'[a].key = {} /\ actor'[a].due = {}
      /\ \A b \in Actors : b # a => actor'[b] = actor[b]
  BY DEF AfterReconcile, Resting, RunsInv, TypeOK
<1>6. Stands(k)
  BY DEF Stands, Announced
<1>7. \A i \in RepairKeys : Stands(i)' => Stands(i)
  <2> SUFFICES ASSUME NEW i \in RepairKeys, Stands(i)', ~Stands(i) PROVE FALSE
    OBVIOUS
  <2>1. i # k /\ jobs[i] = "none" /\ \A b \in Actors : i \notin Announced(b)
    BY <1>6 DEF Stands
  <2>2. i \notin actor[a].seen
    BY <2>1 DEF RunsInv, SeenAreOld
  <2>3. jobs'[i] = "none"
    BY <1>1, <1>4, <2>1, <2>2
  <2>4. PICK b \in Actors : i \in Announced(b)'
    BY <2>3 DEF Stands
  <2> QED BY <1>5, <2>1, <2>4 DEF Announced
<1>8. \A i \in RepairKeys : Stands(i) => \A j \in Earlier(i) : jobs'[j] = jobs[j]
  <2> SUFFICES ASSUME NEW i \in RepairKeys, Stands(i), NEW j \in Earlier(i)
               PROVE  jobs'[j] = jobs[j]
    OBVIOUS
  <2>1. j \in RepairKeys /\ jobs[j] # "none"
    BY DEF RunsInv, AttemptsInOrder, Earlier
  <2>2. j \notin actor[a].seen
    BY DEF RunsInv, SeenAreOld
  <2> QED BY <1>1, <1>4, <2>1, <2>2
<1>9. HeldExist'
  BY <1>3, <1>4, <1>5 DEF HeldExist, RunsInv
<1>10. AttemptsInOrder'
  BY <1>7, <1>8 DEF AttemptsInOrder, RunsInv
<1>11. SupersededAreOld'
  <2> SUFFICES ASSUME NEW i \in RepairKeys, jobs'[i] = "superseded" PROVE i.target < messages
    BY DEF SupersededAreOld
  <2>1. CASE i \in actor[a].seen
    <3>1. i.target < k.target /\ k.target <= messages
      BY <1>2, <1>6, <2>1 DEF RunsInv, SeenAreOld, AttemptsInOrder
    <3> QED BY <1>1, <1>2, <3>1
  <2>2. CASE i \notin actor[a].seen
    BY <1>1, <1>4, <2>2 DEF RunsInv, SupersededAreOld
  <2> QED BY <2>1, <2>2
<1>12. SeenAreOld'
  <2> SUFFICES ASSUME NEW b \in Actors, actor'[b].at = "insert", NEW j \in actor'[b].seen
               PROVE  /\ jobs'[j] # "none"
                      /\ \A i \in actor'[b].key : j.target < i.target
                      /\ \A i \in RepairKeys : j \in Earlier(i) => ~Stands(i)'
    BY DEF SeenAreOld, Earlier
  <2>1. b # a /\ actor'[b] = actor[b]
    BY <1>5
  <2>2. /\ jobs[j] # "none" /\ j \in RepairKeys
        /\ \A i \in actor[b].key : j.target < i.target
        /\ \A i \in RepairKeys : j \in Earlier(i) => ~Stands(i)
    BY <1>3, <2>1 DEF RunsInv, SeenAreOld
  <2> QED BY <1>1, <1>4, <1>7, <2>1, <2>2
<1> QED BY <1>2, <1>7, <1>8, <1>9, <1>10, <1>11, <1>12

-----------------------------------------------------------------------------

\* Threads never handle a turn before it starts.
LEMMA EarlyStep == ASSUME TypeOK, NoneEarly, [Next]_vars PROVE NoneEarly'
<1>1. CASE turn' = turn /\ handler' = handler
  BY <1>1 DEF NoneEarly
<1>2. ASSUME NEW t \in Turns, turn'[t] # "none",
             \A u \in Turns : u # t => turn'[u] = turn[u] /\ handler'[u] = handler[u]
      PROVE  NoneEarly'
  BY <1>2 DEF NoneEarly
<1>3. ASSUME NEW t \in Turns,
             \/ StartTurn(t) \/ StoreQuestion(t) \/ StoreAnswer(t) \/ CompleteTurn(t)
             \/ ReadPendingIdle(t) \/ InsertIdle(t) \/ FailTurn(t) \/ AbandonTurn(t)
      PROVE  NoneEarly'
  <2>1. turn'[t] # "none"
    BY <1>3 DEF TypeOK, NoneEarly, StartTurn, StoreQuestion, StoreAnswer, CompleteTurn,
                ReadPendingIdle, InsertIdle, FailTurn, AbandonTurn
  <2>2. \A u \in Turns : u # t => turn'[u] = turn[u] /\ handler'[u] = handler[u]
    BY <1>3 DEF TypeOK, StartTurn, StoreQuestion, StoreAnswer, CompleteTurn,
                ReadPendingIdle, InsertIdle, FailTurn, AbandonTurn
  <2> QED BY <1>2, <2>1, <2>2
<1>4. CASE Crash
  BY <1>4 DEF Crash, NoneEarly, TypeOK
<1>5. CASE DueTimes \/ WorkerNext \/ CallerNext \/ UNCHANGED vars
  <2>1. turn' = turn /\ handler' = handler
    BY <1>5 DEF DueTimes, WorkerNext, CallerNext, Proceed, vars, Ripen, Reconcile, ListDue,
                TakeNext, InsertRepair, ReadStatus, Claim, CheckJob, ReadTranscript, WriteSummary,
                FailSummary, Finish, RequestRun, RequestSummary
  <2> QED BY <1>1, <2>1
<1> QED BY <1>3, <1>4, <1>5 DEF Next, TurnNext

\* What the next step of a run of a job may do to what an actor holds.
LEMMA HoldStep ==
    ASSUME TypeOK, NEW a \in Actors
    PROVE  /\ \A outcome : Summarised(a, outcome).at # "insert"
                /\ Summarised(a, outcome).key \subseteq actor[a].key
                /\ Summarised(a, outcome).due \subseteq actor[a].due
           /\ Through(a).at # "insert" /\ Through(a).key = {}
                /\ Through(a).due \subseteq actor[a].due
           /\ AfterReconcile(a).at # "insert" /\ AfterReconcile(a).key = {}
                /\ AfterReconcile(a).due = {}
           /\ Resting.at # "insert" /\ Resting.key = {} /\ Resting.due = {}
BY DEF Summarised, Through, AfterReconcile, Resting, TypeOK, Actor

LEMMA RunsStep == ASSUME RunsInv, [Next]_vars PROVE RunsInv'
<1>0. /\ TypeOK /\ TypeOK' /\ MessagesFit' /\ NoneEarly'
      /\ messages <= messages'
  BY FitStep, TypeStep, EarlyStep DEF RunsInv
<1>1. RepairKeys \subseteq Keys
  BY DEF Keys
<1> DEFINE Kept == HeldExist' /\ AttemptsInOrder' /\ SupersededAreOld' /\ SeenAreOld'
<1>2. ASSUME jobs' = jobs, \A b \in Actors : actor'[b] = actor[b] \/ Harmless(actor'[b])
      PROVE  Kept
  BY <1>0, <1>1, <1>2, QuietStep
<1>3. ASSUME NEW a \in Actors, NEW new, jobs' = jobs, actor' = [actor EXCEPT ![a] = new],
             Harmless(new)
      PROVE  Kept
  <2>1. \A b \in Actors : actor'[b] = actor[b] \/ Harmless(actor'[b])
    BY <1>0, <1>3 DEF TypeOK
  <2> QED BY <1>2, <1>3, <2>1
<1>4. \A a \in Actors : /\ \A k \in actor[a].due : jobs[k] # "none"
                        /\ actor[a].at # "insert" => \A k \in actor[a].key : jobs[k] # "none"
  BY DEF RunsInv, HeldExist
<1>5. ASSUME NEW a \in Actors
      PROVE  /\ Harmless(Through(a)) /\ Harmless(AfterReconcile(a)) /\ Harmless(Resting)
             /\ actor[a].at # "insert" => \A outcome : Harmless(Summarised(a, outcome))
  BY <1>0, <1>4, HoldStep DEF Harmless
<1>6. ASSUME NEW a \in Actors, actor[a].at # "insert", NEW at \in {"claim", "check", "read"},
             jobs' = jobs, actor' = [actor EXCEPT ![a] = [actor[a] EXCEPT !.at = at]]
      PROVE  Kept
  <2>1. Harmless([actor[a] EXCEPT !.at = at])
    BY <1>0, <1>4, <1>6 DEF Harmless, TypeOK, Actor
  <2> QED BY <1>3, <1>6, <2>1
<1>7. ASSUME NEW t \in Turns, InsertIdle(t) PROVE Kept
  <2>1. [kind |-> "idle", turn |-> t] \in IdleKeys /\ handler[t].pending \subseteq IdleKeys
    BY <1>0 DEF IdleKeys, TypeOK, Handler
  <2>2. /\ \A k \in Keys : jobs[k] # "none" => jobs'[k] # "none"
        /\ \A k \in RepairKeys : jobs'[k] = jobs[k]
    BY <1>1, <1>7, <2>1, KindsDiffer DEF InsertIdle, Inserted
  <2> QED BY <1>0, <1>7, <2>2, QuietStep DEF InsertIdle
<1>8. ASSUME NEW t \in Turns,
             \/ StartTurn(t) \/ StoreQuestion(t) \/ StoreAnswer(t) \/ CompleteTurn(t)
             \/ ReadPendingIdle(t) \/ FailTurn(t) \/ AbandonTurn(t)
      PROVE  Kept
  <2>1. jobs' = jobs /\ actor' = actor
    BY <1>8 DEF StartTurn, StoreQuestion, StoreAnswer, CompleteTurn, ReadPendingIdle, FailTurn,
                AbandonTurn
  <2> QED BY <1>2, <2>1
<1>9. ASSUME NEW a \in Actors, Reconcile(a) PROVE Kept
  <2>1. CASE \E k \in RepairKeys : Repairable(k) /\ actor' = [actor EXCEPT ![a] =
               [Resting EXCEPT !.at = "insert", !.key = {k}, !.seen = PendingOf("repair")]]
    BY <1>9, <2>1, AnnounceStep DEF Reconcile
  <2>2. CASE actor' = [actor EXCEPT ![a] = AfterReconcile(a)]
    BY <1>3, <1>5, <1>9, <2>2 DEF Reconcile
  <2> QED BY <1>9, <2>1, <2>2 DEF Reconcile
<1>10. ASSUME NEW a \in Actors, InsertRepair(a) PROVE Kept
  <2>1. CASE actor' = [actor EXCEPT ![a] = Resting] /\ jobs' = jobs
    BY <1>3, <1>5, <2>1
  <2>2. CASE \E k \in actor[a].key : /\ jobs[k] = "none" /\ jobs' = Inserted(k, actor[a].seen)
                                     /\ actor' = [actor EXCEPT ![a] = AfterReconcile(a)]
    BY <1>10, <2>2, InsertStep DEF InsertRepair
  <2> QED BY <1>10, <2>1, <2>2 DEF InsertRepair
<1>11. ASSUME ListDue PROVE Kept
  <2> DEFINE due == {k \in ripe : jobs[k] = "pending"}
             new == [actor["worker"] EXCEPT !.at = "batch", !.due = due]
  <2>1. "worker" \in Actors /\ actor' = [actor EXCEPT !["worker"] = new]
    BY <1>11 DEF ListDue, Actors
  <2>2. /\ new.at = "batch" /\ new.key = actor["worker"].key
        /\ \A k \in new.due : jobs[k] = "pending"
    <3>1. actor["worker"] \in Actor /\ \A k \in due : jobs[k] = "pending"
      BY <1>0, <2>1 DEF TypeOK
    <3> HIDE DEF due
    <3> QED BY <3>1 DEF Actor
  <2>3. Harmless(new)
    BY <1>4, <1>11, <2>1, <2>2 DEF Harmless, ListDue
  <2> QED BY <1>3, <1>11, <2>1, <2>3 DEF ListDue
<1>12. ASSUME TakeNext PROVE Kept
  <2> DEFINE new(k) == [actor["worker"] EXCEPT !.at = "start", !.key = {k}, !.due = @ \ {k}]
  <2>1. "worker" \in Actors
    BY DEF Actors
  <2>2. \A k \in actor["worker"].due : Harmless(new(k))
    BY <1>0, <1>4, <2>1 DEF Harmless, TypeOK, Actor
  <2>3. \/ \E k \in actor["worker"].due : actor' = [actor EXCEPT !["worker"] = new(k)]
        \/ actor' = [actor EXCEPT !["worker"] = Resting]
    BY <1>12 DEF TakeNext
  <2> QED BY <1>3, <1>5, <1>12, <2>1, <2>2, <2>3 DEF TakeNext
<1>13. ASSUME NEW c \in Actors, RequestRun(c) PROVE Kept
  <2> DEFINE new(k) == [actor[c] EXCEPT !.at = "start", !.key = {k}]
  <2>1. PICK k \in Keys : jobs[k] # "none" /\ actor' = [actor EXCEPT ![c] = new(k)]
    BY <1>13 DEF RequestRun
  <2>2. Harmless(new(k))
    BY <1>0, <1>4, <2>1 DEF Harmless, TypeOK, Actor
  <2> QED BY <1>3, <1>13, <2>1, <2>2 DEF RequestRun
<1>14. ASSUME NEW c \in Actors, RequestSummary(c) PROVE Kept
  BY <1>6, <1>14 DEF RequestSummary
<1>15. ASSUME NEW a \in Actors, ReadStatus(a) PROVE Kept
  BY <1>3, <1>5, <1>6, <1>15 DEF ReadStatus
<1>16. ASSUME NEW a \in Actors, Claim(a) PROVE Kept
  <2>1. Harmless([actor[a] EXCEPT !.at = "check"])
    BY <1>0, <1>4, <1>16 DEF Harmless, TypeOK, Actor, Claim
  <2>2. \A b \in Actors : actor'[b] = actor[b] \/ Harmless(actor'[b])
    BY <1>0, <1>16, <2>1 DEF TypeOK, Claim
  <2>3. \A k \in Keys : jobs'[k] # jobs[k] => jobs[k] # "none" /\ jobs'[k] = "running"
    BY <1>0, <1>4, <1>16 DEF TypeOK, Claim
  <2> QED BY <1>0, <1>1, <2>2, <2>3, QuietStep
<1>17. ASSUME NEW a \in Actors, CheckJob(a) PROVE Kept
  <2>1. \A k : /\ actor[a].at # "insert" =>
                    Harmless([actor[a] EXCEPT !.at = "finish", !.outcome = SkippedAs(k)])
    BY <1>0, <1>4 DEF Harmless, TypeOK, Actor
  <2> QED BY <1>3, <1>6, <1>17, <2>1 DEF CheckJob
<1>18. ASSUME NEW a \in Actors, ReadTranscript(a) PROVE Kept
  <2>1. actor[a].at # "insert" => Harmless([actor[a] EXCEPT !.at = "model", !.upto = messages])
    BY <1>0, <1>4 DEF Harmless, TypeOK, Actor
  <2> QED BY <1>3, <1>5, <1>18, <2>1 DEF ReadTranscript
<1>19. ASSUME NEW a \in Actors, WriteSummary(a) \/ FailSummary(a) PROVE Kept
  BY <1>3, <1>5, <1>19 DEF WriteSummary, FailSummary
<1>20. ASSUME NEW a \in Actors, Finish(a) PROVE Kept
  <2>1. \A b \in Actors : actor'[b] = actor[b] \/ Harmless(actor'[b])
    BY <1>0, <1>5, <1>20 DEF TypeOK, Finish
  <2>2. \A k \in Keys : jobs'[k] # jobs[k] =>
           jobs[k] # "none" /\ jobs'[k] \in {"completed", "failed", "skipped"}
    BY <1>0, <1>4, <1>20 DEF TypeOK, Actor, Finish
  <2> QED BY <1>0, <1>1, <2>1, <2>2, QuietStep
<1>21. ASSUME Crash PROVE Kept
  <2>1. \A b \in Actors : Harmless(actor'[b])
    BY <1>5, <1>21 DEF Crash
  <2> QED BY <1>2, <1>21, <2>1 DEF Crash
<1>22. ASSUME UNCHANGED vars PROVE Kept
  BY <1>2, <1>22 DEF vars
<1>23. ASSUME NEW k \in Keys, Ripen(k) PROVE Kept
  BY <1>2, <1>23 DEF Ripen
<1>24. "worker" \in Actors /\ \A c \in Callers : c \in Actors
  BY DEF Actors
<1>25. Kept
  BY <1>7, <1>8, <1>9, <1>10, <1>11, <1>12, <1>13, <1>14, <1>15, <1>16, <1>17, <1>18, <1>19,
     <1>20, <1>21, <1>22, <1>23, <1>24
  DEF Next, TurnNext, DueTimes, WorkerNext, CallerNext, Proceed
<1> QED BY <1>0, <1>25 DEF RunsInv

\* Nothing has happened: every turn has its two messages to come.
LEMMA RunsInit == ASSUME Init PROVE RunsInv
<1>1. Resting \in Actor /\ [at |-> "none", pending |-> {}] \in Handler
  BY BoundsNat DEF Resting, Actor, Handler, MaxMessages
<1>2. TypeOK
  BY <1>1, BoundsNat DEF Init, TypeOK, JobStatus, MaxMessages
<1>3. Unasked = Turns /\ Unanswered = Turns
  BY DEF Init, Unasked, Unanswered
<1>4. Cardinality(Turns) = MaxTurns
  BY BoundsNat, CountTo DEF Turns
<1>5. MessagesFit
  BY <1>3, <1>4, BoundsNat DEF Init, MessagesFit, MaxMessages
<1>6. \A a \in Actors : actor[a] = Resting
  BY DEF Init
<1>7. \A k \in RepairKeys : jobs[k] = "none" /\ ~Stands(k)
  BY <1>6 DEF Init, Stands, Announced, Keys, Resting
<1>8. NoneEarly /\ HeldExist /\ SeenAreOld
  BY <1>6 DEF Init, NoneEarly, HeldExist, SeenAreOld, Resting
<1>9. AttemptsInOrder /\ SupersededAreOld
  BY <1>7 DEF AttemptsInOrder, SupersededAreOld
<1> QED BY <1>2, <1>5, <1>8, <1>9 DEF RunsInv

\* In every run, with any number of callers beside the worker and any overlap of
\* turns, the invariant holds; with it the types.
THEOREM RunsInvariant == Spec => []RunsInv
<1>1. Init => RunsInv
  BY RunsInit
<1>2. RunsInv /\ [Next]_vars => RunsInv'
  BY RunsStep
<1> QED BY <1>1, <1>2, PTL DEF Spec

THEOREM TypesOfMaintenance == Spec => []TypeOK
BY RunsInvariant, PTL DEF RunsInv

\* schedule_summary_repairs makes the next attempt at a repair only when the one
\* before it has been run, whoever reconciles and runs jobs at the same time.
THEOREM RepairsRetryRuns == Spec => []RetriesFollowRuns
<1>1. RunsInv => RetriesFollowRuns
  BY DEF RunsInv, AttemptsInOrder, RetriesFollowRuns, Stands, Earlier, RepairKeys
<1> QED BY <1>1, RunsInvariant, PTL

-----------------------------------------------------------------------------
\* Turns that follow one another.

\* A turn is handled to its end before the next one starts.
LEMMA OneAtATime ==
    ASSUME TypeOK, TurnsInOrder, NEW t \in Turns, handler[t].at \notin {"none", "over"}
    PROVE  /\ IsLatest(t) /\ turn[t] # "none" /\ jobs[IdleKey(t)] = "none"
           /\ \A u \in Turns : IsLatest(u) => u = t
           /\ \A u \in Turns : u # t => handler[u].at \in {"none", "over"}
BY DEF TurnsInOrder, IsLatest, Live, Turns

\* The turn being handled takes a step of its own.
LEMMA HandledStep ==
    ASSUME TypeOK, TurnsInOrder, NewestIdleJobKept,
           NEW t \in Turns, handler[t].at \notin {"none", "over"},
           NEW s \in {"started", "completed", "failed"}, NEW h \in Handler,
           turn' = [turn EXCEPT ![t] = s], handler' = [handler EXCEPT ![t] = h], jobs' = jobs,
           h.at # "none", \A k \in h.pending : k.turn < t,
           h.at \in {"started", "model", "answered"} => s = "started",
           h.at \in {"completed", "insert"} => s = "completed"
    PROVE  /\ TurnsInOrder' /\ NewestIdleJobKept'
           /\ \A u \in Turns : IsLatest(u)' <=> u = t
<1>1. /\ IsLatest(t) /\ turn[t] # "none" /\ jobs[IdleKey(t)] = "none"
      /\ \A u \in Turns : IsLatest(u) => u = t
  BY OneAtATime
<1>2. Live' = Live /\ t \in Live
  BY <1>1 DEF Live, TypeOK
<1>3. \A u \in Turns : IsLatest(u)' <=> u = t
  BY <1>1, <1>2 DEF IsLatest
<1>4. NewestIdleJobKept'
  BY <1>1, <1>3 DEF NewestIdleJobKept, IdleKey
<1>5. \A u \in Turns : turn'[u] = (IF u = t THEN s ELSE turn[u])
                       /\ handler'[u] = (IF u = t THEN h ELSE handler[u])
  BY DEF TypeOK
<1>6. \A u \in Turns : u # t => handler[u].at \in {"none", "over"}
  BY OneAtATime
<1>7. TurnsInOrder'
  <2> SUFFICES ASSUME NEW u \in Turns
               PROVE  /\ turn'[u] = "none" <=> handler'[u].at = "none"
                      /\ handler'[u].at \in {"started", "model", "answered"} => turn'[u] = "started"
                      /\ handler'[u].at \in {"completed", "insert"} => turn'[u] = "completed"
                      /\ handler'[u].at \notin {"none", "over"} => IsLatest(u)'
                      /\ turn'[u] # "none" => \A v \in Turns : v < u => turn'[v] # "none"
                      /\ jobs'[IdleKey(u)] # "none" => handler'[u].at = "over"
                      /\ \A k \in handler'[u].pending : k.turn < u
    BY DEF TurnsInOrder, IdleKey
  <2>1. \A v \in Turns : turn'[v] # "none" <=> turn[v] # "none"
    BY <1>1, <1>5
  <2>2. CASE u = t
    BY <1>1, <1>3, <1>5, <2>1, <2>2 DEF TurnsInOrder
  <2>3. CASE u # t
    BY <1>3, <1>5, <1>6, <2>1, <2>3 DEF TurnsInOrder
  <2> QED BY <2>2, <2>3
<1> QED BY <1>3, <1>4, <1>7

\* The repairs in the table that are for the last message still are after a step of a
\* turn, and the latest turn was completed before it already.
CurrentBefore ==
    \A k \in RepairKeys :
        Stands(k) /\ k.target = messages' /\ LatestCompleted' =>
            messages' = messages /\ LatestCompleted

\* What one step of a turn keeps.
TurnKeeps ==
    /\ TurnsInOrder' /\ NewestIdleJobKept' /\ TargetsAreOld' /\ CurrentBefore

LEMMA RepairsUntouched ==
    ASSUME TypeOK, actor' = actor, \A k \in RepairKeys : jobs'[k] = jobs[k],
           NEW k \in RepairKeys
    PROVE  Stands(k)' <=> Stands(k)
BY DEF Stands, Announced

LEMMA TurnStep ==
    ASSUME WorkerInv, Overlap = FALSE, NEW t \in Turns,
           \/ StartTurn(t) \/ StoreQuestion(t) \/ StoreAnswer(t) \/ CompleteTurn(t)
           \/ ReadPendingIdle(t) \/ InsertIdle(t) \/ FailTurn(t) \/ AbandonTurn(t)
    PROVE  TurnKeeps /\ actor' = actor /\ summary' = summary
           /\ \A k \in RepairKeys : jobs'[k] = jobs[k]
<1>1. /\ TypeOK /\ TurnsInOrder /\ NewestIdleJobKept /\ TargetsAreOld /\ AttemptsInOrder
      /\ RepairKeys \subseteq Keys /\ messages \in Nat
      /\ \A k \in RepairKeys : k.target \in Nat
  BY BoundsNat DEF WorkerInv, RunsInv, Keys, RepairKeys, TypeOK, MaxMessages
<1>2. actor' = actor /\ summary' = summary
  BY DEF StartTurn, StoreQuestion, StoreAnswer, CompleteTurn, ReadPendingIdle, InsertIdle,
         FailTurn, AbandonTurn
<1>3. \A k \in RepairKeys : jobs'[k] = jobs[k]
  <2>1. CASE InsertIdle(t)
    <3>1. [kind |-> "idle", turn |-> t] \in IdleKeys /\ handler[t].pending \subseteq IdleKeys
      BY <1>1 DEF IdleKeys, TypeOK, Handler
    <3> QED BY <1>1, <2>1, <3>1, KindsDiffer DEF InsertIdle, Inserted
  <2>2. CASE ~InsertIdle(t)
    BY <2>2 DEF StartTurn, StoreQuestion, StoreAnswer, CompleteTurn, ReadPendingIdle, FailTurn,
                AbandonTurn
  <2> QED BY <2>1, <2>2
<1>4. \A k \in RepairKeys : /\ Stands(k)' <=> Stands(k)
                            /\ Stands(k) => k.target <= messages
                            /\ Stands(k) /\ handler[t].at \in {"model", "answered"}
                                 => k.target < messages
  BY <1>1, <1>2, <1>3, RepairsUntouched DEF AttemptsInOrder, TargetsAreOld
<1>5. ASSUME messages' = messages,
             \A u \in Turns : handler'[u].at \in {"model", "answered"} =>
                                  handler[u].at \in {"model", "answered"}
      PROVE  TargetsAreOld'
  BY <1>1, <1>4, <1>5 DEF TargetsAreOld
<1>6. ASSUME messages' = messages, turn' = turn PROVE CurrentBefore
  BY <1>6 DEF CurrentBefore, LatestCompleted, IsLatest, Live
<1>7. ASSUME \A u \in Turns : IsLatest(u)' => turn'[u] # "completed" PROVE CurrentBefore
  BY <1>7 DEF CurrentBefore, LatestCompleted, Live
<1>8. handler[t] \in Handler /\ turn[t] \in {"none", "started", "completed", "failed"}
      /\ \A k \in handler[t].pending : k.turn < t
  BY <1>1 DEF TypeOK, TurnsInOrder
<1>9. CASE StartTurn(t)
  <2>1. /\ turn[t] = "none" /\ \A u \in Turns : u < t => turn[u] # "none" /\ handler[u].at = "over"
        /\ turn' = [turn EXCEPT ![t] = "started"]
        /\ handler' = [handler EXCEPT ![t] = [handler[t] EXCEPT !.at = "started"]]
        /\ jobs' = jobs /\ messages' = messages
    BY <1>9 DEF StartTurn, Turns
  <2>2. \A u \in Turns : u > t => turn[u] = "none" /\ handler[u].at = "none"
    BY <1>1, <2>1 DEF TurnsInOrder, Turns
  <2>3. \A u \in Turns : /\ turn'[u] = (IF u = t THEN "started" ELSE turn[u])
                         /\ u # t => handler'[u] = handler[u]
    BY <1>1, <2>1 DEF TypeOK
  <2>4. handler'[t].at = "started" /\ handler'[t].pending = handler[t].pending
    BY <1>1, <1>8, <2>1 DEF TypeOK, Handler
  <2>5. \A u \in Turns : u = t \/ u < t \/ u > t
    BY DEF Turns
  <2>6. \A u \in Turns : IsLatest(u)' <=> u = t
    <3>1. Live' = {u \in Turns : u = t \/ u < t}
      BY <2>1, <2>2, <2>3, <2>5 DEF Live
    <3> QED BY <3>1 DEF IsLatest, Turns
  <2>7. jobs[IdleKey(t)] = "none"
    BY <1>1, <2>1 DEF TurnsInOrder
  <2>8. NewestIdleJobKept'
    BY <2>1, <2>6, <2>7 DEF NewestIdleJobKept, IdleKey
  <2>9. TurnsInOrder'
    <3> SUFFICES ASSUME NEW u \in Turns
                 PROVE  /\ turn'[u] = "none" <=> handler'[u].at = "none"
                        /\ handler'[u].at \in {"started", "model", "answered"} => turn'[u] = "started"
                        /\ handler'[u].at \in {"completed", "insert"} => turn'[u] = "completed"
                        /\ handler'[u].at \notin {"none", "over"} => IsLatest(u)'
                        /\ turn'[u] # "none" => \A v \in Turns : v < u => turn'[v] # "none"
                        /\ jobs'[IdleKey(u)] # "none" => handler'[u].at = "over"
                        /\ \A k \in handler'[u].pending : k.turn < u
      BY DEF TurnsInOrder, IdleKey
    <3>1. CASE u = t
      BY <1>8, <2>1, <2>3, <2>4, <2>6, <2>7, <3>1
    <3>2. CASE u # t
      <4>1. handler[u].at \in {"none", "over"}
        BY <2>1, <2>2, <2>5, <3>2
      <4> QED BY <1>1, <2>1, <2>3, <3>2, <4>1 DEF TurnsInOrder
    <3> QED BY <3>1, <3>2
  <2>10. TargetsAreOld'
    BY <1>5, <2>1, <2>3, <2>4
  <2>11. CurrentBefore
    BY <1>7, <2>3, <2>6
  <2> QED BY <1>2, <1>3, <2>8, <2>9, <2>10, <2>11 DEF TurnKeeps
<1>10. CASE StoreQuestion(t) \/ StoreAnswer(t)
  <2>1. PICK at \in {"model", "answered"} :
           /\ handler[t].at \in {"started", "model"} /\ turn' = turn /\ jobs' = jobs
           /\ messages' = messages + 1
           /\ handler' = [handler EXCEPT ![t] = [handler[t] EXCEPT !.at = at]]
    BY <1>10 DEF StoreQuestion, StoreAnswer
  <2>2. turn[t] = "started" /\ turn' = [turn EXCEPT ![t] = "started"]
    BY <1>1, <2>1 DEF TypeOK, TurnsInOrder
  <2> DEFINE h == [handler[t] EXCEPT !.at = at]
  <2>3. /\ h \in Handler /\ h.at = at /\ h.pending = handler[t].pending
        /\ handler' = [handler EXCEPT ![t] = h]
    BY <1>8, <2>1 DEF Handler
  <2>4. TurnsInOrder' /\ NewestIdleJobKept' /\ \A u \in Turns : IsLatest(u)' <=> u = t
    <3> HIDE DEF h
    <3> QED BY <1>1, <1>8, <2>1, <2>2, <2>3, HandledStep
  <2>5. TargetsAreOld' /\ CurrentBefore
    BY <1>1, <1>4, <2>1 DEF TargetsAreOld, CurrentBefore
  <2> QED BY <1>2, <1>3, <2>4, <2>5 DEF TurnKeeps
<1>11. CASE CompleteTurn(t) \/ FailTurn(t)
  <2>1. PICK at \in {"completed", "over"}, s \in {"completed", "failed"} :
           /\ handler[t].at \in {"model", "answered"} /\ jobs' = jobs /\ messages' = messages
           /\ turn' = [turn EXCEPT ![t] = s] /\ (at = "completed" => s = "completed")
           /\ handler' = [handler EXCEPT ![t] = [handler[t] EXCEPT !.at = at]]
    BY <1>11 DEF CompleteTurn, FailTurn
  <2> DEFINE h == [handler[t] EXCEPT !.at = at]
  <2>2. /\ h \in Handler /\ h.at = at /\ h.pending = handler[t].pending
        /\ handler' = [handler EXCEPT ![t] = h]
    BY <1>8, <2>1 DEF Handler
  <2>3. TurnsInOrder' /\ NewestIdleJobKept' /\ \A u \in Turns : IsLatest(u)' <=> u = t
    <3> HIDE DEF h
    <3> QED BY <1>1, <1>8, <2>1, <2>2, HandledStep
  <2>4. TargetsAreOld'
    <3>1. \A u \in Turns : u # t => handler'[u] = handler[u]
      BY <1>1, <2>1 DEF TypeOK
    <3>2. handler'[t].at = at
      BY <1>1, <2>1, <2>2 DEF TypeOK
    <3> QED BY <1>5, <2>1, <3>1, <3>2
  <2>5. CurrentBefore
    BY <1>1, <1>4, <2>1 DEF CurrentBefore
  <2> QED BY <1>2, <1>3, <2>3, <2>4, <2>5 DEF TurnKeeps
<1>12. CASE AbandonTurn(t) \/ ReadPendingIdle(t)
  <2>1. /\ handler[t].at \in {"started", "model", "completed"} /\ turn' = turn
        /\ jobs' = jobs /\ messages' = messages
    BY <1>12 DEF AbandonTurn, ReadPendingIdle
  <2>2. PICK h \in Handler :
           /\ handler' = [handler EXCEPT ![t] = h] /\ h.at \in {"over", "insert"}
           /\ h.at = "insert" => handler[t].at = "completed"
           /\ \A k \in h.pending : k.turn < t
    <3>1. CASE AbandonTurn(t)
      <4>1. [handler[t] EXCEPT !.at = "over"] \in Handler
        BY <1>8 DEF Handler
      <4>2. [handler[t] EXCEPT !.at = "over"].at = "over"
            /\ [handler[t] EXCEPT !.at = "over"].pending = handler[t].pending
        BY <1>8 DEF Handler
      <4>3. handler' = [handler EXCEPT ![t] = [handler[t] EXCEPT !.at = "over"]]
        BY <3>1 DEF AbandonTurn
      <4> QED BY <1>8, <4>1, <4>2, <4>3
    <3>2. CASE ReadPendingIdle(t)
      <4>1. PendingOf("idle") \subseteq IdleKeys
        BY KindsDiffer DEF PendingOf
      <4>2. \A k \in PendingOf("idle") : k.turn < t
        <5> SUFFICES ASSUME NEW k \in PendingOf("idle") PROVE k.turn < t
          OBVIOUS
        <5>1. k.turn \in Turns /\ k = IdleKey(k.turn) /\ jobs[k] = "pending"
          BY <4>1 DEF IdleKeys, IdleKey, PendingOf
        <5>2. handler[k.turn].at = "over" /\ turn[k.turn] # "none"
          BY <1>1, <5>1 DEF TurnsInOrder
        <5>3. k.turn <= t /\ k.turn # t
          BY <1>1, <2>1, <5>1, <5>2, OneAtATime DEF IsLatest, Live
        <5> QED BY <5>1, <5>3 DEF Turns
      <4>3. [at |-> "insert", pending |-> PendingOf("idle")] \in Handler
        BY <4>1 DEF Handler
      <4> QED BY <3>2, <4>2, <4>3 DEF ReadPendingIdle
    <3> QED BY <1>12, <3>1, <3>2
  <2>3. turn[t] \in {"started", "completed", "failed"} /\ turn' = [turn EXCEPT ![t] = turn[t]]
        /\ (handler[t].at = "completed" => turn[t] = "completed")
    BY <1>1, <2>1 DEF TypeOK, TurnsInOrder
  <2>4. TurnsInOrder' /\ NewestIdleJobKept'
    BY <1>1, <2>1, <2>2, <2>3, HandledStep
  <2>5. TargetsAreOld'
    <3>1. \A u \in Turns : handler'[u] = IF u = t THEN h ELSE handler[u]
      BY <1>1, <2>2 DEF TypeOK
    <3> QED BY <1>5, <2>1, <2>2, <3>1
  <2> QED BY <1>2, <1>3, <1>6, <2>1, <2>4, <2>5 DEF TurnKeeps
<1>13. CASE InsertIdle(t)
  <2>1. /\ handler[t].at = "insert" /\ turn' = turn /\ messages' = messages
        /\ jobs' = Inserted(IdleKey(t), handler[t].pending)
        /\ handler' = [handler EXCEPT ![t] = [at |-> "over", pending |-> {}]]
    BY <1>13 DEF InsertIdle, IdleKey
  <2>2. /\ IsLatest(t) /\ turn[t] # "none" /\ jobs[IdleKey(t)] = "none"
        /\ \A u \in Turns : IsLatest(u) => u = t
        /\ \A u \in Turns : u # t => handler[u].at \in {"none", "over"}
    BY <1>1, <2>1, OneAtATime
  <2>3. \A u \in Turns : handler'[u] = IF u = t THEN [at |-> "over", pending |-> {}] ELSE handler[u]
    BY <1>1, <2>1 DEF TypeOK
  <2>4. \A u \in Turns : IsLatest(u)' <=> IsLatest(u)
    BY <2>1 DEF IsLatest, Live
  <2>5. \A u \in Turns :
           /\ IdleKey(u) \in Keys
           /\ u # t => IdleKey(u) # IdleKey(t)
           /\ IdleKey(u) \in handler[t].pending => u < t
    BY <1>8 DEF IdleKey, Keys, IdleKeys
  <2>6. jobs'[IdleKey(t)] = "pending"
    BY <2>1, <2>5 DEF Inserted
  <2>7. NewestIdleJobKept'
    BY <2>2, <2>4, <2>6 DEF NewestIdleJobKept, IdleKey
  <2>8. \A u \in Turns : u # t /\ jobs'[IdleKey(u)] # "none" => handler[u].at = "over"
    <3> SUFFICES ASSUME NEW u \in Turns, u # t, jobs'[IdleKey(u)] # "none"
                 PROVE  handler[u].at = "over"
      OBVIOUS
    <3>1. CASE IdleKey(u) \in handler[t].pending
      BY <1>1, <2>2, <2>5, <3>1 DEF TurnsInOrder
    <3>2. CASE IdleKey(u) \notin handler[t].pending
      BY <1>1, <2>1, <2>5, <3>2 DEF TurnsInOrder, Inserted
    <3> QED BY <3>1, <3>2
  <2>9. TurnsInOrder'
    <3> SUFFICES ASSUME NEW u \in Turns
                 PROVE  /\ turn'[u] = "none" <=> handler'[u].at = "none"
                        /\ handler'[u].at \in {"started", "model", "answered"} => turn'[u] = "started"
                        /\ handler'[u].at \in {"completed", "insert"} => turn'[u] = "completed"
                        /\ handler'[u].at \notin {"none", "over"} => IsLatest(u)'
                        /\ turn'[u] # "none" => \A v \in Turns : v < u => turn'[v] # "none"
                        /\ jobs'[IdleKey(u)] # "none" => handler'[u].at = "over"
                        /\ \A k \in handler'[u].pending : k.turn < u
      BY DEF TurnsInOrder, IdleKey
    <3>1. CASE u = t
      BY <1>1, <2>1, <2>2, <2>3, <3>1 DEF TurnsInOrder
    <3>2. CASE u # t
      BY <1>1, <2>1, <2>2, <2>3, <2>8, <3>2 DEF TurnsInOrder
    <3> QED BY <3>1, <3>2
  <2>10. TargetsAreOld'
    BY <1>5, <2>1, <2>3
  <2> QED BY <1>2, <1>3, <1>6, <2>1, <2>7, <2>9, <2>10 DEF TurnKeeps
<1> QED BY <1>9, <1>10, <1>11, <1>12, <1>13

-----------------------------------------------------------------------------
\* The worker on its own.

\* What RepairLifecycle says of one step.
Moves == \A k \in RepairKeys : jobs'[k] # jobs[k] => <<jobs[k], jobs'[k]>> \in Lifecycle

IdleKept ==
    \A t \in Turns :
        /\ jobs'[IdleKey(t)] # "none" => jobs[IdleKey(t)] # "none"
        /\ jobs'[IdleKey(t)] = "superseded" => jobs[IdleKey(t)] = "superseded"

LEMMA IdleStep ==
    ASSUME TurnsInOrder, NewestIdleJobKept, IdleKept, turn' = turn, handler' = handler
    PROVE  TurnsInOrder' /\ NewestIdleJobKept'
<1>1. \A t \in Turns : IsLatest(t)' <=> IsLatest(t)
  BY DEF IsLatest, Live
<1>2. TurnsInOrder'
  <2> SUFFICES ASSUME NEW t \in Turns
               PROVE  /\ turn'[t] = "none" <=> handler'[t].at = "none"
                      /\ handler'[t].at \in {"started", "model", "answered"} => turn'[t] = "started"
                      /\ handler'[t].at \in {"completed", "insert"} => turn'[t] = "completed"
                      /\ handler'[t].at \notin {"none", "over"} => IsLatest(t)'
                      /\ turn'[t] # "none" => \A u \in Turns : u < t => turn'[u] # "none"
                      /\ jobs'[IdleKey(t)] # "none" => handler'[t].at = "over"
                      /\ \A k \in handler'[t].pending : k.turn < t
    BY DEF TurnsInOrder, IdleKey
  <2> QED BY <1>1 DEF TurnsInOrder, IdleKept
<1>3. NewestIdleJobKept'
  BY <1>1 DEF NewestIdleJobKept, IdleKept, IdleKey
<1> QED BY <1>2, <1>3

\* A step that announces no repair: what has failed stays so.
LEMMA MovedStep ==
    ASSUME NoneSkipped, RetriesAfterFailures, TargetsAreOld, Moves,
           handler' = handler, messages' = messages,
           \A k \in RepairKeys : Stands(k)' => Stands(k)
    PROVE  NoneSkipped' /\ RetriesAfterFailures' /\ TargetsAreOld'
<1>1. NoneSkipped'
  BY DEF NoneSkipped, Moves, Lifecycle
<1>2. \A k \in RepairKeys : jobs[k] = "failed" => jobs'[k] = "failed"
  BY DEF Moves, Lifecycle
<1>3. RetriesAfterFailures'
  BY <1>2 DEF RetriesAfterFailures, Earlier
<1>4. TargetsAreOld'
  BY DEF TargetsAreOld
<1> QED BY <1>1, <1>3, <1>4

\* With no caller, what stands is in the table or in the worker's hands.
LEMMA StandsAlone ==
    ASSUME Callers = {}, NEW k
    PROVE  /\ Stands(k) <=> jobs[k] # "none" \/ (Worker.at = "insert" /\ k \in Worker.key)
           /\ Stands(k)' <=> jobs'[k] # "none" \/ (Worker'.at = "insert" /\ k \in Worker'.key)
BY DEF Stands, Announced, Actors, Worker

\* A step of the worker that leaves the tables as they are.
LEMMA ReadStep ==
    ASSUME WorkerInv, Callers = {}, NEW new, new.at # "insert",
           actor' = [actor EXCEPT !["worker"] = new],
           UNCHANGED <<turn, handler, messages, jobs, summary>>
    PROVE  /\ IdleKept /\ Moves /\ NoneSkipped' /\ RetriesAfterFailures' /\ TargetsAreOld'
           /\ CompletedMeansCurrent' /\ Worker' = new
<1>1. Worker' = new
  BY DEF Worker, WorkerInv, RunsInv, TypeOK, Actors
<1>2. \A k \in RepairKeys : Stands(k)' => Stands(k)
  BY <1>1, StandsAlone
<1>3. Moves /\ IdleKept
  BY DEF Moves, IdleKept
<1>4. CompletedMeansCurrent'
  BY DEF WorkerInv, CompletedMeansCurrent, LatestCompleted, IsLatest, Live
<1> QED BY <1>1, <1>2, <1>3, <1>4, MovedStep DEF WorkerInv

\* A step of the worker that changes one row, of a job it holds.
LEMMA RowStep ==
    ASSUME WorkerInv, Callers = {}, NEW k \in Worker.key, Worker.at # "insert",
           NEW status \in {"running", "completed", "failed", "skipped"},
           k \in RepairKeys => <<jobs[k], status>> \in Lifecycle,
           NEW new, new.at # "insert", actor' = [actor EXCEPT !["worker"] = new],
           jobs' = [jobs EXCEPT ![k] = status],
           UNCHANGED <<turn, handler, messages, summary>>,
           status = "completed" /\ k \in RepairKeys =>
               (k.target = messages /\ LatestCompleted => summary = messages)
    PROVE  /\ IdleKept /\ Moves /\ NoneSkipped' /\ RetriesAfterFailures' /\ TargetsAreOld'
           /\ CompletedMeansCurrent' /\ Worker' = new
<1>1. /\ Worker' = new /\ k \in Keys /\ RepairKeys \subseteq Keys /\ jobs[k] # "none"
      /\ \A i \in Keys : jobs'[i] = IF i = k THEN status ELSE jobs[i]
      /\ \A t \in Turns : IdleKey(t) \in Keys
  BY DEF Worker, WorkerInv, RunsInv, TypeOK, Actors, Actor, Keys, HeldExist, IdleKeys, IdleKey
<1>2. \A i \in RepairKeys : Stands(i)' => Stands(i)
  BY <1>1, StandsAlone
<1>3. Moves /\ IdleKept
  BY <1>1 DEF Moves, IdleKept
<1>4. CompletedMeansCurrent'
  BY <1>1 DEF WorkerInv, CompletedMeansCurrent, LatestCompleted, IsLatest, Live
<1> QED BY <1>1, <1>2, <1>3, <1>4, MovedStep DEF WorkerInv

\* What one step of the worker keeps.
WorkerKeeps ==
    /\ IdleKept /\ Moves /\ NoneSkipped' /\ RetriesAfterFailures' /\ TargetsAreOld'
    /\ CompletedMeansCurrent' /\ WorkerHolds' /\ WorkerIsCurrent'

LEMMA WorkerStep ==
    ASSUME WorkerInv, Callers = {}, WorkerNext
    PROVE  WorkerKeeps /\ turn' = turn /\ handler' = handler /\ messages' = messages
<1>0. turn' = turn /\ handler' = handler /\ messages' = messages
  BY DEF WorkerNext, Proceed, Reconcile, ListDue, TakeNext, InsertRepair, ReadStatus, Claim,
         CheckJob, ReadTranscript, WriteSummary, FailSummary, Finish
<1> SUFFICES WorkerKeeps
  BY <1>0
<1>1. /\ TypeOK /\ Worker \in Actor /\ "worker" \in Actors /\ RepairKeys \subseteq Keys
      /\ messages \in Nat /\ Worker.upto \in Nat
      /\ \A k \in RepairKeys : k.target \in Nat /\ k.kind = "repair"
  BY BoundsNat DEF WorkerInv, RunsInv, TypeOK, Actors, Actor, Worker, Keys, RepairKeys, MaxMessages
<1>2. /\ \A j, k \in Worker.key : j = k
      /\ Worker.at # "insert" => \A k \in Worker.key : jobs[k] # "none"
  BY <1>1 DEF WorkerInv, WorkerHolds, RunsInv, HeldExist, Worker
\* A step after which the worker holds nothing it has begun.
<1>3. ASSUME NEW new, Worker' = new, new.at \in {"rest", "list", "batch", "start"},
             \A j, k \in new.key : j = k
      PROVE  WorkerHolds' /\ WorkerIsCurrent'
  BY <1>3 DEF WorkerHolds, WorkerIsCurrent, HeldRepairs
<1>4. /\ Through("worker").at = "batch" /\ Through("worker").key = {}
      /\ AfterReconcile("worker").at = "list" /\ AfterReconcile("worker").key = {}
      /\ Resting.at = "rest" /\ Resting.key = {}
  BY DEF Through, AfterReconcile, Resting
<1>5. CASE Reconcile("worker")
  <2>1. CASE actor' = [actor EXCEPT !["worker"] = AfterReconcile("worker")]
    BY <1>3, <1>4, <1>5, <2>1, ReadStep DEF Reconcile, WorkerKeeps
  <2>2. ASSUME NEW k \in RepairKeys, Repairable(k), actor' = [actor EXCEPT !["worker"] =
               [Resting EXCEPT !.at = "insert", !.key = {k}, !.seen = PendingOf("repair")]]
        PROVE  WorkerKeeps
    <3>1. jobs' = jobs /\ summary' = summary
      BY <1>5 DEF Reconcile
    <3>2. /\ jobs[k] = "none" /\ k.target = messages
          /\ \A i \in RepairKeys : Stands(i)' => Stands(i) \/ i = k
          /\ \A j \in PendingOf("repair") : jobs[j] = "pending"
          /\ \A j \in Earlier(k) : jobs[j] \notin Blocking \cup {"none", "superseded"}
      BY <1>0, <1>1, <2>2, <3>1, AnnounceStep DEF WorkerInv
    <3>3. Worker'.at = "insert" /\ Worker'.key = {k} /\ Worker'.seen = PendingOf("repair")
      BY <1>1, <2>2 DEF Worker, TypeOK, Resting
    <3>4. WorkerHolds' /\ WorkerIsCurrent'
      BY <3>1, <3>2, <3>3 DEF WorkerHolds, WorkerIsCurrent
    <3>5. \A j \in Earlier(k) : jobs[j] = "failed"
      BY <1>1, <3>2 DEF WorkerInv, NoneSkipped, TypeOK, JobStatus, Blocking, Earlier
    <3>6. RetriesAfterFailures' /\ NoneSkipped'
      BY <3>1, <3>2, <3>5 DEF WorkerInv, RetriesAfterFailures, NoneSkipped
    <3>7. \A t \in Turns : handler[t].at \notin {"model", "answered"}
      <4> SUFFICES ASSUME NEW t \in Turns, handler[t].at \in {"model", "answered"} PROVE FALSE
        OBVIOUS
      <4>1. turn[t] = "started" /\ \A u \in Turns : IsLatest(u) => u = t
        BY <1>1, OneAtATime DEF WorkerInv, TurnsInOrder
      <4> QED BY <2>2, <4>1 DEF Repairable, LatestCompleted, Live
    <3>8. TargetsAreOld'
      BY <1>0, <3>7 DEF TargetsAreOld
    <3>9. CompletedMeansCurrent'
      BY <1>0, <3>1 DEF WorkerInv, CompletedMeansCurrent, LatestCompleted, IsLatest, Live
    <3>10. IdleKept /\ Moves
      BY <3>1 DEF IdleKept, Moves
    <3> QED BY <3>4, <3>6, <3>8, <3>9, <3>10 DEF WorkerKeeps
  <2> QED BY <1>0, <1>5, <2>1, <2>2 DEF Reconcile
<1>6. CASE InsertRepair("worker")
  <2>1. PICK k \in Worker.key :
           /\ Worker.at = "insert" /\ jobs[k] = "none" /\ jobs' = Inserted(k, Worker.seen)
           /\ actor' = [actor EXCEPT !["worker"] = AfterReconcile("worker")]
           /\ summary' = summary
    BY <1>6 DEF InsertRepair, WorkerInv, WorkerHolds, Worker
  <2>2. /\ k \in RepairKeys
        /\ \A i \in RepairKeys : Stands(i)' => Stands(i)
    BY <1>0, <1>1, <2>1, InsertStep DEF WorkerInv, Worker
  <2>3. \A i \in Keys : jobs'[i] = IF i = k THEN "pending"
                                   ELSE IF i \in Worker.seen THEN "superseded" ELSE jobs[i]
    BY <2>1 DEF Inserted
  <2>4. Moves
    <3> SUFFICES ASSUME NEW i \in RepairKeys, jobs'[i] # jobs[i]
                 PROVE  <<jobs[i], jobs'[i]>> \in Lifecycle
      BY DEF Moves
    <3>1. CASE i = k
      BY <1>1, <2>1, <2>3, <3>1 DEF Lifecycle
    <3>2. CASE i # k
      <4>1. i \in Worker.seen /\ jobs'[i] = "superseded"
        BY <1>1, <2>3, <3>2
      <4> QED BY <2>1, <4>1 DEF WorkerInv, WorkerHolds, Lifecycle
    <3> QED BY <3>1, <3>2
  <2>5. IdleKept
    <3>1. \A t \in Turns : IdleKey(t) \in Keys /\ IdleKey(t) \notin RepairKeys
      BY DEF IdleKey, Keys, IdleKeys, RepairKeys
    <3>2. Worker.seen \subseteq RepairKeys
      BY <1>1 DEF Actor
    <3> QED BY <2>2, <2>3, <3>1, <3>2 DEF IdleKept
  <2>6. Worker' = AfterReconcile("worker")
    BY <1>1, <2>1 DEF Worker, TypeOK
  <2>7. CompletedMeansCurrent'
    BY <1>0, <1>1, <2>1, <2>3
    DEF WorkerInv, CompletedMeansCurrent, LatestCompleted, IsLatest, Live
  <2> QED BY <1>0, <1>3, <1>4, <2>2, <2>4, <2>5, <2>6, <2>7, MovedStep DEF WorkerInv, WorkerKeeps
<1>7. CASE ListDue
  <2> DEFINE due == {k \in ripe : jobs[k] = "pending"}
             new == [Worker EXCEPT !.at = "batch", !.due = due]
  <2>1. actor' = [actor EXCEPT !["worker"] = new]
    BY <1>7 DEF ListDue, Worker
  <2> HIDE DEF due
  <2>2. new.at = "batch" /\ new.key = Worker.key
    BY <1>1 DEF Actor
  <2> HIDE DEF new
  <2>3. UNCHANGED <<turn, handler, messages, jobs, summary>>
    BY <1>7 DEF ListDue
  <2>4. /\ IdleKept /\ Moves /\ NoneSkipped' /\ RetriesAfterFailures' /\ TargetsAreOld'
        /\ CompletedMeansCurrent' /\ Worker' = new
    BY <2>1, <2>2, <2>3, ReadStep
  <2>5. WorkerHolds' /\ WorkerIsCurrent'
    BY <1>2, <1>3, <2>2, <2>4
  <2> QED BY <2>4, <2>5 DEF WorkerKeeps
<1>8. CASE TakeNext
  <2> DEFINE new(k) == [Worker EXCEPT !.at = "start", !.key = {k}, !.due = @ \ {k}]
  <2>1. \/ \E k \in Worker.due : actor' = [actor EXCEPT !["worker"] = new(k)]
        \/ actor' = [actor EXCEPT !["worker"] = Resting]
    BY <1>8 DEF TakeNext, Worker
  <2>2. \A k : new(k).at = "start" /\ new(k).key = {k}
    BY <1>1 DEF Actor
  <2> HIDE DEF new
  <2>3. UNCHANGED <<turn, handler, messages, jobs, summary>>
    BY <1>8 DEF TakeNext
  <2>4. ASSUME NEW r, r.at \in {"rest", "start"}, \A j, k \in r.key : j = k,
               actor' = [actor EXCEPT !["worker"] = r]
        PROVE  WorkerKeeps
    <3>1. /\ IdleKept /\ Moves /\ NoneSkipped' /\ RetriesAfterFailures' /\ TargetsAreOld'
          /\ CompletedMeansCurrent' /\ Worker' = r
      BY <2>3, <2>4, ReadStep
    <3>2. WorkerHolds' /\ WorkerIsCurrent'
      BY <1>3, <2>4, <3>1
    <3> QED BY <3>1, <3>2 DEF WorkerKeeps
  <2> QED BY <1>4, <2>1, <2>2, <2>4
<1>9. CASE ReadStatus("worker")
  <2> DEFINE new == [Worker EXCEPT !.at = "claim"]
  <2>1. PICK k \in Worker.key :
           actor' = [actor EXCEPT !["worker"] = IF jobs[k] \in Startable THEN new
                                                ELSE Through("worker")]
    BY <1>9 DEF ReadStatus, Worker
  <2>2. new.at = "claim" /\ new.key = Worker.key
    BY <1>1 DEF Actor
  <2> HIDE DEF new
  <2>3. UNCHANGED <<turn, handler, messages, jobs, summary>>
    BY <1>9 DEF ReadStatus
  <2>4. CASE jobs[k] \in Startable
    <3>1. actor' = [actor EXCEPT !["worker"] = new]
      BY <2>1, <2>4
    <3>2. Worker' = new /\ jobs' = jobs
      BY <2>2, <2>3, <3>1, ReadStep
    <3>3. WorkerHolds' /\ WorkerIsCurrent'
      BY <1>2, <2>2, <2>4, <3>2 DEF WorkerHolds, WorkerIsCurrent, HeldRepairs, Startable
    <3> QED BY <2>2, <2>3, <3>1, <3>3, ReadStep DEF WorkerKeeps
  <2>5. CASE jobs[k] \notin Startable
    <3>1. actor' = [actor EXCEPT !["worker"] = Through("worker")]
      BY <2>1, <2>5
    <3> QED BY <1>3, <1>4, <2>3, <3>1, ReadStep DEF WorkerKeeps
  <2> QED BY <2>4, <2>5
<1>10. CASE Claim("worker")
  <2> DEFINE new == [Worker EXCEPT !.at = "check"]
  <2>1. PICK k \in Worker.key :
           /\ Worker.at = "claim" /\ jobs' = [jobs EXCEPT ![k] = "running"]
           /\ actor' = [actor EXCEPT !["worker"] = new] /\ summary' = summary
    BY <1>10 DEF Claim, Worker
  <2>2. new.at = "check" /\ new.key = Worker.key
    BY <1>1 DEF Actor
  <2> HIDE DEF new
  <2>3. k \in RepairKeys => <<jobs[k], "running">> \in Lifecycle
    BY <2>1 DEF WorkerInv, WorkerHolds, HeldRepairs, Lifecycle
  <2>4. /\ IdleKept /\ Moves /\ NoneSkipped' /\ RetriesAfterFailures' /\ TargetsAreOld'
        /\ CompletedMeansCurrent' /\ Worker' = new
    BY <1>0, <2>1, <2>2, <2>3, RowStep
  <2>5. jobs'[k] = "running"
    BY <1>1, <2>1 DEF TypeOK, Actor
  <2>6. WorkerHolds' /\ WorkerIsCurrent'
    BY <1>2, <2>2, <2>4, <2>5 DEF WorkerHolds, WorkerIsCurrent, HeldRepairs
  <2> QED BY <2>4, <2>6 DEF WorkerKeeps
<1>11. CASE CheckJob("worker")
  <2>1. PICK k \in Worker.key : /\ Worker.at = "check"
           /\ actor' = [actor EXCEPT !["worker"] = IF IsCurrent(k) THEN [Worker EXCEPT !.at = "read"]
                  ELSE [Worker EXCEPT !.at = "finish", !.outcome = SkippedAs(k)]]
    BY <1>11 DEF CheckJob, Worker
  <2>2. UNCHANGED <<turn, handler, messages, jobs, summary>>
    BY <1>11 DEF CheckJob
  <2>3. \A i \in HeldRepairs : i = k /\ jobs[i] = "running" /\ SkippedAs(k) = "completed"
    BY <1>1, <1>2, <2>1 DEF WorkerInv, WorkerHolds, HeldRepairs, SkippedAs
  <2>4. PICK new : /\ actor' = [actor EXCEPT !["worker"] = new] /\ new.key = Worker.key
                   /\ \/ new.at = "read"
                      \/ new.at = "finish" /\ new.outcome = SkippedAs(k) /\ ~IsCurrent(k)
    <3>1. CASE IsCurrent(k)
      <4>1. [Worker EXCEPT !.at = "read"].at = "read" /\ [Worker EXCEPT !.at = "read"].key = Worker.key
        BY <1>1 DEF Actor
      <4> QED BY <2>1, <3>1, <4>1
    <3>2. CASE ~IsCurrent(k)
      <4> DEFINE r == [Worker EXCEPT !.at = "finish", !.outcome = SkippedAs(k)]
      <4>1. r.at = "finish" /\ r.outcome = SkippedAs(k) /\ r.key = Worker.key
        BY <1>1 DEF Actor
      <4>2. actor' = [actor EXCEPT !["worker"] = r]
        BY <2>1, <3>2
      <4> QED BY <3>2, <4>1, <4>2
    <3> QED BY <3>1, <3>2
  <2>5. /\ IdleKept /\ Moves /\ NoneSkipped' /\ RetriesAfterFailures' /\ TargetsAreOld'
        /\ CompletedMeansCurrent' /\ Worker' = new
    BY <2>2, <2>4, ReadStep
  <2>6. HeldRepairs' = HeldRepairs
    BY <2>4, <2>5 DEF HeldRepairs
  <2>7. WorkerHolds'
    BY <1>2, <2>2, <2>3, <2>4, <2>5, <2>6 DEF WorkerHolds
  <2>8. WorkerIsCurrent'
    <3>1. \A i \in HeldRepairs : ~IsCurrent(k) => ~(i.target = messages /\ LatestCompleted)
      BY <1>1, <2>3 DEF IsCurrent, HeldRepairs
    <3>2. LatestCompleted' = LatestCompleted
      BY <2>2 DEF LatestCompleted, IsLatest, Live
    <3> QED BY <2>2, <2>4, <2>5, <2>6, <3>1, <3>2 DEF WorkerIsCurrent
  <2> QED BY <2>5, <2>7, <2>8 DEF WorkerKeeps
\* The worker has its answer and goes on to finish the job.
<1>12. ASSUME Worker.at \in {"read", "model"}, NEW outcome \in {"completed", "failed"},
              Worker' = Summarised("worker", outcome), jobs' = jobs,
              outcome = "completed" =>
                  \A k \in HeldRepairs : k.target = messages /\ LatestCompleted => summary' = messages
       PROVE  WorkerHolds' /\ WorkerIsCurrent'
  <2>1. CASE Worker.key = {}
    <3>1. Worker' = Resting
      BY <1>12, <2>1 DEF Summarised, Worker
    <3> QED BY <1>3, <1>4, <3>1
  <2>2. CASE Worker.key # {}
    <3>1. Worker' = [Worker EXCEPT !.at = "finish", !.outcome = outcome]
      BY <1>12, <2>2 DEF Summarised, Worker
    <3>2. Worker'.at = "finish" /\ Worker'.key = Worker.key /\ Worker'.outcome = outcome
      BY <1>1, <3>1 DEF Actor
    <3>3. HeldRepairs' = HeldRepairs
      BY <3>2 DEF HeldRepairs
    <3>4. WorkerHolds'
      BY <1>2, <1>12, <3>2, <3>3 DEF WorkerInv, WorkerHolds
    <3>5. LatestCompleted' = LatestCompleted
      BY <1>0 DEF LatestCompleted, IsLatest, Live
    <3>6. WorkerIsCurrent'
      BY <1>0, <1>12, <3>2, <3>3, <3>5 DEF WorkerIsCurrent
    <3> QED BY <3>4, <3>6
  <2> QED BY <2>1, <2>2
<1>13. \A outcome : Summarised("worker", outcome).at # "insert"
  BY <1>1, HoldStep
<1>14. CASE ReadTranscript("worker")
  <2> DEFINE new == [Worker EXCEPT !.at = "model", !.upto = messages]
  <2>1. /\ Worker.at = "read"
        /\ actor' = [actor EXCEPT !["worker"] =
              IF summary = messages THEN Summarised("worker", "completed") ELSE new]
    BY <1>14 DEF ReadTranscript, Worker
  <2>2. new.at = "model" /\ new.key = Worker.key /\ new.upto = messages
    BY <1>1 DEF Actor
  <2>3. UNCHANGED <<turn, handler, messages, jobs, summary>>
    BY <1>14 DEF ReadTranscript
  <2> HIDE DEF new
  <2>4. CASE summary = messages
    <3>1. actor' = [actor EXCEPT !["worker"] = Summarised("worker", "completed")]
      BY <2>1, <2>4
    <3>2. /\ IdleKept /\ Moves /\ NoneSkipped' /\ RetriesAfterFailures' /\ TargetsAreOld'
          /\ CompletedMeansCurrent' /\ Worker' = Summarised("worker", "completed")
      BY <1>13, <2>3, <3>1, ReadStep
    <3> QED BY <1>12, <2>1, <2>3, <2>4, <3>2 DEF WorkerKeeps
  <2>5. CASE summary # messages
    <3>1. actor' = [actor EXCEPT !["worker"] = new]
      BY <2>1, <2>5
    <3>2. /\ IdleKept /\ Moves /\ NoneSkipped' /\ RetriesAfterFailures' /\ TargetsAreOld'
          /\ CompletedMeansCurrent' /\ Worker' = new
      BY <2>2, <2>3, <3>1, ReadStep
    <3>3. HeldRepairs' = HeldRepairs
      BY <2>2, <3>2 DEF HeldRepairs
    <3>4. WorkerHolds'
      BY <1>2, <2>1, <2>2, <2>3, <3>2, <3>3 DEF WorkerInv, WorkerHolds
    <3>5. \A k \in RepairKeys : jobs[k] # "none" => k.target <= messages
      BY DEF WorkerInv, RunsInv, AttemptsInOrder, Stands
    <3>6. WorkerIsCurrent'
      BY <1>1, <2>2, <2>3, <3>2, <3>5 DEF WorkerIsCurrent
    <3> QED BY <3>2, <3>4, <3>6 DEF WorkerKeeps
  <2> QED BY <2>4, <2>5
<1>15. CASE WriteSummary("worker")
  <2>1. /\ Worker.at = "model" /\ summary' = Worker.upto /\ jobs' = jobs
        /\ actor' = [actor EXCEPT !["worker"] = Summarised("worker", "completed")]
    BY <1>15 DEF WriteSummary, Worker
  <2>2. Worker' = Summarised("worker", "completed")
    BY <1>1, <2>1 DEF Worker, TypeOK
  <2>3. \A k \in RepairKeys : jobs[k] # "none" /\ k.target = messages => summary' = messages
    <3>1. Worker.upto <= messages
          /\ \A k \in RepairKeys : jobs[k] # "none" => k.target <= Worker.upto
      BY <2>1 DEF WorkerInv, WorkerIsCurrent
    <3> QED BY <1>1, <2>1, <3>1
  <2>4. \A k \in HeldRepairs : k \in RepairKeys /\ jobs[k] # "none"
    BY <1>2, <2>1 DEF HeldRepairs
  <2>5. WorkerHolds' /\ WorkerIsCurrent'
    BY <1>12, <2>1, <2>2, <2>3, <2>4
  <2>6. CompletedMeansCurrent'
    BY <1>0, <2>1, <2>3 DEF CompletedMeansCurrent
  <2>7. Moves /\ IdleKept
    BY <2>1 DEF Moves, IdleKept
  <2>8. \A k \in RepairKeys : Stands(k)' => Stands(k)
    BY <1>13, <2>1, <2>2, StandsAlone
  <2> QED BY <1>0, <2>5, <2>6, <2>7, <2>8, MovedStep DEF WorkerInv, WorkerKeeps
<1>16. CASE FailSummary("worker")
  <2>1. /\ Worker.at = "model"
        /\ actor' = [actor EXCEPT !["worker"] = Summarised("worker", "failed")]
        /\ UNCHANGED <<turn, handler, messages, jobs, summary>>
    BY <1>16 DEF FailSummary, Worker
  <2>2. /\ IdleKept /\ Moves /\ NoneSkipped' /\ RetriesAfterFailures' /\ TargetsAreOld'
        /\ CompletedMeansCurrent' /\ Worker' = Summarised("worker", "failed")
    BY <1>13, <2>1, ReadStep
  <2> QED BY <1>12, <2>1, <2>2 DEF WorkerKeeps
<1>17. CASE Finish("worker")
  <2>1. PICK k \in Worker.key, outcome \in {Worker.outcome, "failed"} :
           /\ Worker.at = "finish" /\ jobs' = [jobs EXCEPT ![k] = outcome]
           /\ actor' = [actor EXCEPT !["worker"] = Through("worker")] /\ summary' = summary
    BY <1>17 DEF Finish, Worker
  <2>2. outcome \in {"completed", "failed", "skipped"}
    BY <1>1 DEF Actor
  <2>3. k \in RepairKeys => <<jobs[k], outcome>> \in Lifecycle
    BY <2>1 DEF WorkerInv, WorkerHolds, HeldRepairs, Lifecycle
  <2>4. outcome = "completed" /\ k \in RepairKeys =>
           (k.target = messages /\ LatestCompleted => summary = messages)
    BY <2>1 DEF WorkerInv, WorkerIsCurrent, HeldRepairs
  <2>5. /\ IdleKept /\ Moves /\ NoneSkipped' /\ RetriesAfterFailures' /\ TargetsAreOld'
        /\ CompletedMeansCurrent' /\ Worker' = Through("worker")
    BY <1>0, <1>4, <2>1, <2>2, <2>3, <2>4, RowStep
  <2> QED BY <1>3, <1>4, <2>5 DEF WorkerKeeps
<1> QED
  BY <1>0, <1>5, <1>6, <1>7, <1>8, <1>9, <1>10, <1>11, <1>14, <1>15, <1>16, <1>17
  DEF WorkerNext, Proceed

\* The invariant of one worker, step by step.
LEMMA WorkerInvStep ==
    ASSUME WorkerInv, Callers = {}, Overlap = FALSE, [Next]_vars
    PROVE  WorkerInv' /\ Moves
<1>1. RunsInv'
  BY RunsStep DEF WorkerInv
<1>2. CASE WorkerNext
  <2>1. WorkerKeeps /\ turn' = turn /\ handler' = handler
    BY <1>2, WorkerStep
  <2>2. TurnsInOrder' /\ NewestIdleJobKept'
    BY <2>1, IdleStep DEF WorkerInv, WorkerKeeps
  <2> QED BY <1>1, <2>1, <2>2 DEF WorkerInv, WorkerKeeps
\* The rows of the repairs and what the worker does are left alone.
<1>3. ASSUME actor' = actor, summary' = summary, \A k \in RepairKeys : jobs'[k] = jobs[k],
             TurnsInOrder', NewestIdleJobKept', TargetsAreOld', CurrentBefore
      PROVE  WorkerInv' /\ Moves
  <2>1. \A k \in RepairKeys : Stands(k)' <=> Stands(k)
    BY <1>3, RepairsUntouched DEF WorkerInv, RunsInv
  <2>2. Worker' = Worker /\ HeldRepairs' = HeldRepairs /\ HeldRepairs \subseteq RepairKeys
    BY <1>3 DEF Worker, HeldRepairs
  <2>3. /\ TypeOK /\ messages \in Nat /\ messages' \in Nat /\ Worker.upto \in Nat
        /\ messages <= messages' /\ \A k \in RepairKeys : k.target \in Nat
        /\ Worker \in Actor
    BY <1>1, FitStep, BoundsNat
    DEF WorkerInv, RunsInv, TypeOK, Worker, Actors, Actor, RepairKeys, MaxMessages
  <2>4. WorkerHolds'
    <3>1. Worker.at = "insert" => /\ Worker.key \subseteq RepairKeys
                                  /\ Worker.seen \subseteq RepairKeys
      BY <2>3 DEF WorkerInv, RunsInv, HeldExist, Worker, Actors, Actor
    <3> QED BY <1>3, <2>2, <3>1 DEF WorkerInv, WorkerHolds
  <2>5. NoneSkipped' /\ RetriesAfterFailures'
    BY <1>3, <2>1 DEF WorkerInv, NoneSkipped, RetriesAfterFailures, Earlier
  <2>6. CompletedMeansCurrent'
    <3> SUFFICES ASSUME NEW k \in RepairKeys, jobs[k] = "completed", k.target = messages',
                        LatestCompleted'
                 PROVE  summary = messages'
      BY <1>3 DEF CompletedMeansCurrent
    <3>1. messages' = messages /\ LatestCompleted
      BY <1>3 DEF CurrentBefore, Stands
    <3> QED BY <3>1 DEF WorkerInv, CompletedMeansCurrent
  <2>7. WorkerIsCurrent'
    <3>1. ASSUME Worker.at = "finish", Worker.outcome = "completed",
                 NEW k \in HeldRepairs, k.target = messages', LatestCompleted'
          PROVE  summary = messages'
      <4>1. k \in RepairKeys /\ Stands(k)
        BY <2>2, <3>1 DEF WorkerInv, WorkerHolds, Stands
      <4>2. messages' = messages /\ LatestCompleted
        BY <1>3, <3>1, <4>1 DEF CurrentBefore
      <4> QED BY <3>1, <4>2 DEF WorkerInv, WorkerIsCurrent
    <3>2. ASSUME Worker.at = "model"
          PROVE  /\ Worker.upto <= messages'
                 /\ \A k \in RepairKeys : jobs'[k] # "none" => k.target <= Worker.upto
      <4>1. /\ Worker.upto <= messages
            /\ \A k \in RepairKeys : jobs[k] # "none" => k.target <= Worker.upto
        BY <3>2 DEF WorkerInv, WorkerIsCurrent
      <4> QED BY <1>3, <2>3, <4>1
    <3> QED BY <1>3, <2>2, <3>1, <3>2 DEF WorkerIsCurrent
  <2>8. Moves
    BY <1>3 DEF Moves
  <2> QED BY <1>1, <1>3, <2>4, <2>5, <2>6, <2>7, <2>8 DEF WorkerInv
<1>4. CASE TurnNext
  <2>1. TurnKeeps /\ actor' = actor /\ summary' = summary
        /\ \A k \in RepairKeys : jobs'[k] = jobs[k]
    BY <1>4, TurnStep DEF TurnNext
  <2> QED BY <1>3, <2>1 DEF TurnKeeps
<1>5. CASE DueTimes \/ UNCHANGED vars
  <2>1. UNCHANGED <<turn, handler, messages, summary, jobs, actor>>
    BY <1>5 DEF DueTimes, Ripen, vars
  <2>2. TurnsInOrder' /\ NewestIdleJobKept'
    BY <2>1, IdleStep DEF IdleKept, WorkerInv
  <2>3. TargetsAreOld'
    BY <2>1, RepairsUntouched DEF WorkerInv, RunsInv, TargetsAreOld
  <2>4. CurrentBefore
    BY <2>1 DEF CurrentBefore, LatestCompleted, IsLatest, Live
  <2> QED BY <1>3, <2>1, <2>2, <2>3, <2>4
<1>6. CASE Crash
  <2>1. /\ UNCHANGED <<turn, messages, summary, jobs>> /\ TypeOK /\ TurnsInOrder
        /\ \A t \in Turns : handler'[t] = IF turn[t] = "none" THEN handler[t]
                                          ELSE [at |-> "over", pending |-> {}]
        /\ Worker' = Resting
    BY <1>6 DEF Crash, WorkerInv, RunsInv, Worker, Actors
  <2>2. Worker'.at = "rest" /\ Worker'.key = {}
    BY <2>1 DEF Resting
  <2>3. \A t \in Turns : IsLatest(t)' <=> IsLatest(t)
    BY <2>1 DEF IsLatest, Live
  <2>4. TurnsInOrder'
    <3> SUFFICES ASSUME NEW t \in Turns
                 PROVE  /\ turn'[t] = "none" <=> handler'[t].at = "none"
                        /\ handler'[t].at \in {"started", "model", "answered"} => turn'[t] = "started"
                        /\ handler'[t].at \in {"completed", "insert"} => turn'[t] = "completed"
                        /\ handler'[t].at \notin {"none", "over"} => IsLatest(t)'
                        /\ turn'[t] # "none" => \A u \in Turns : u < t => turn'[u] # "none"
                        /\ jobs'[IdleKey(t)] # "none" => handler'[t].at = "over"
                        /\ \A k \in handler'[t].pending : k.turn < t
      BY DEF TurnsInOrder, IdleKey
    <3>1. CASE turn[t] = "none"
      BY <2>1, <2>3, <3>1 DEF TurnsInOrder
    <3>2. CASE turn[t] # "none"
      BY <2>1, <3>2 DEF TurnsInOrder
    <3> QED BY <3>1, <3>2
  <2>5. NewestIdleJobKept' /\ CompletedMeansCurrent' /\ NoneSkipped'
    BY <2>1, <2>3 DEF NewestIdleJobKept, CompletedMeansCurrent, NoneSkipped, LatestCompleted, Live,
                      WorkerInv
  <2>6. \A k \in RepairKeys : Stands(k)' => Stands(k)
    BY <2>1, <2>2, StandsAlone
  <2>7. RetriesAfterFailures'
    BY <2>1, <2>6 DEF WorkerInv, RetriesAfterFailures
  <2>8. TargetsAreOld'
    BY <2>1, <2>6 DEF WorkerInv, TargetsAreOld
  <2>9. WorkerHolds' /\ WorkerIsCurrent'
    BY <2>2 DEF WorkerHolds, WorkerIsCurrent
  <2>10. Moves
    BY <2>1 DEF Moves
  <2> QED BY <1>1, <2>4, <2>5, <2>7, <2>8, <2>9, <2>10 DEF WorkerInv
<1>7. ~CallerNext
  BY DEF CallerNext
<1> QED BY <1>2, <1>4, <1>5, <1>6, <1>7 DEF Next

LEMMA WorkerInit == ASSUME Init, Callers = {} PROVE WorkerInv
<1>1. RunsInv
  BY RunsInit
<1>2. Worker = Resting /\ Worker.at = "rest" /\ Worker.key = {}
  BY DEF Init, Worker, Actors, Resting
<1>3. \A k \in Keys : jobs[k] = "none"
  BY DEF Init
<1>4. \A k \in RepairKeys : jobs[k] = "none" /\ ~Stands(k)
  BY <1>2, <1>3, StandsAlone DEF Keys
<1>5. \A t \in Turns : /\ turn[t] = "none" /\ handler[t].at = "none" /\ handler[t].pending = {}
                       /\ IdleKey(t) \in Keys
  BY DEF Init, IdleKey, Keys, IdleKeys
<1>6. TurnsInOrder /\ NewestIdleJobKept
  BY <1>3, <1>5 DEF TurnsInOrder, NewestIdleJobKept, IdleKey
<1>7. WorkerHolds /\ WorkerIsCurrent
  BY <1>2 DEF WorkerHolds, WorkerIsCurrent
<1>8. NoneSkipped /\ RetriesAfterFailures /\ TargetsAreOld /\ CompletedMeansCurrent
  BY <1>4 DEF NoneSkipped, RetriesAfterFailures, TargetsAreOld, CompletedMeansCurrent
<1> QED BY <1>1, <1>6, <1>7, <1>8 DEF WorkerInv

\* The jobs table of a session whose turns follow one another and whose jobs only the
\* worker runs, at any crash: retries follow failures, a completed repair has left the
\* summary current, and the job of the latest turn is not superseded.
THEOREM WorkerJobsAreSound ==
    ASSUME Callers = {}, Overlap = FALSE
    PROVE  Spec => []JobsAreSound
<1>1. Init => WorkerInv
  BY WorkerInit
<1>2. WorkerInv /\ [Next]_vars => WorkerInv'
  BY WorkerInvStep
<1>3. WorkerInv => JobsAreSound
  <2> SUFFICES ASSUME WorkerInv PROVE RetriesFollowFailures
    BY DEF JobsAreSound, WorkerInv, RunsInv
  <2> QED BY DEF WorkerInv, RetriesAfterFailures, RetriesFollowFailures, Stands, Earlier, RepairKeys
<1> QED BY <1>1, <1>2, <1>3, PTL DEF Spec

\* Under the same assumptions no repair is run twice, and one that ended keeps the
\* status it ended with: what start_maintenance_job and complete_maintenance_job write
\* without looking is what the row calls for.
THEOREM WorkerKeepsLifecycle ==
    ASSUME Callers = {}, Overlap = FALSE
    PROVE  Spec => RepairLifecycle
<1>1. Init => WorkerInv
  BY WorkerInit
<1>2. WorkerInv /\ [Next]_vars => WorkerInv'
  BY WorkerInvStep
<1>3. WorkerInv /\ [Next]_vars =>
         [\A k \in RepairKeys : jobs'[k] # jobs[k] => <<jobs[k], jobs'[k]>> \in Lifecycle]_vars
  BY WorkerInvStep DEF Moves
<1> QED BY <1>1, <1>2, <1>3, PTL DEF Spec, RepairLifecycle

=============================================================================
