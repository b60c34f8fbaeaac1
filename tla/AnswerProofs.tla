---------------------------- MODULE AnswerProofs ----------------------------
(***************************************************************************)
(* Proofs about the two ways to an answer that is judged on its duties.    *)
(* The GPT bridge: for any number of requests served at once, of turns,    *)
(* actions and finalizations, and for any deaths of the process.  The      *)
(* native turn: for any texts of the model, obligations, operations,       *)
(* retries and number of tool calls.                                       *)
(***************************************************************************)
EXTENDS GptBridge, AnswerControl, FiniteSetTheorems, WellFoundedInduction, TLAPS

-----------------------------------------------------------------------------
(* The GPT bridge *)

Row == [turn : Nat, role : {"user", "assistant"}, text : Nat]
Verdict == [judged : {"pass", "fail", "unknown"}, accepted : BOOLEAN]
BridgeCall == [id : Nat, op : BridgeOps, result : Results]
Turn ==
    [status : {"started", "completed", "failed"}, base : SUBSET BridgeBase, asked : Seq(Row),
     calls : Seq(BridgeCall), verdicts : Seq(Verdict)]
AnyDuty == BridgeBase \cup [about : {"action", "capability"}, id : Nat]

Stages == {"judge", "rejected", "store", "history", "complete"}
Bootstrap == [at : {"bootstrap"}, turn : Nat]
Acting == [at : {"acting"}, turn : Nat, op : BridgeOps, id : Nat]
Finalization == [at : Stages, turn : Nat, text : Nat, on : SUBSET AnyDuty]
Serving == {Idle} \cup Bootstrap \cup Acting \cup Finalization

\* What the variables range over.
BridgeTypes ==
    /\ mode \in BridgeModes
    /\ turns \in Seq(Turn) /\ rows \in Seq(Row) /\ bridgeHistory \in Seq(Row)
    /\ serving \in [Handlers -> Serving]
    /\ \A h \in Handlers : serving[h].at # "idle" => serving[h].turn \in TurnIds
    /\ \A i \in DOMAIN rows : rows[i].turn \in TurnIds
    /\ told \in Seq(SUBSET Nat) /\ corrections \in Seq(Nat) /\ openAt \in Seq(SUBSET Nat)
    /\ Len(told) = Len(turns) /\ Len(corrections) = Len(turns) /\ Len(openAt) = Len(turns)
    /\ overlapped \cup raced \cup died \subseteq TurnIds
    /\ spent \in [actions : Nat, finalizes : Nat, deaths : Nat]

\* The requests of a turn that are at one of some stages.
At(t, stages) == {h \in Handlers : serving[h].at \in stages /\ serving[h].turn = t}

\* A turn whose request is not traced yet has one bootstrap at most, and nothing
\* else happens to it.
Opening ==
    /\ \A h \in Handlers : serving[h].at = "bootstrap" =>
         /\ turns[serving[h].turn].asked = <<>> /\ turns[serving[h].turn].status = "started"
         /\ \A g \in Handlers :
              serving[g].at = "bootstrap" /\ serving[g].turn = serving[h].turn => g = h
    /\ \A h \in Handlers : serving[h].at \in Stages \cup {"acting"} =>
         turns[serving[h].turn].asked # <<>>
    /\ \A t \in TurnIds : turns[t].asked = <<>> =>
         /\ turns[t].status # "completed" /\ openAt[t] = {} /\ told[t] = {}
         /\ AnswerRows(t) = {}

\* A turn of which no two finalizations ran at once has one, and is open, while
\* it is finalized.
Alone ==
    \A h \in Handlers : serving[h].at \in Stages /\ serving[h].turn \notin overlapped =>
        /\ turns[serving[h].turn].status = "started"
        /\ \A g \in Handlers :
             serving[g].at \in Stages /\ serving[g].turn = serving[h].turn => g = h

\* The last verdict of a turn is a pass.
Passed(t) == turns[t].verdicts # <<>> /\ Last(turns[t].verdicts).judged = "pass"

JudgedWell ==
    mode = "active" =>
        \A t \in TurnIds \ overlapped :
            turns[t].status = "completed" \/ At(t, {"store", "history", "complete"}) # {} => Passed(t)

\* A finalization is judged on what its turn owes, if no action is late.
JudgedOnAll ==
    \A h \in Handlers : serving[h].at \in Stages /\ serving[h].turn \notin raced =>
        /\ turns[serving[h].turn].base \subseteq serving[h].on
        /\ \A k \in DOMAIN turns[serving[h].turn].calls :
             turns[serving[h].turn].calls[k].result # "ok" =>
               Duty("action", turns[serving[h].turn].calls[k].id) \in serving[h].on

\* Rejections under way, and the one a caller was told of, are on record.
CorrectedOnce ==
    \A t \in TurnIds :
        /\ corrections[t] <= 1 /\ corrections[t] <= Rejections(t)
        /\ \A h \in At(t, {"rejected"}) :
             /\ corrections[t] + 1 <= Rejections(t)
             /\ \A g \in At(t, {"rejected"}) : g # h => 2 <= Rejections(t)

\* Unless finalizations overlap or die half-way, a turn has an answer if it is
\* completed or about to be.
AnsweredOnce ==
    /\ \A t \in TurnIds \ (overlapped \cup died) :
         /\ \A i, j \in AnswerRows(t) : i = j
         /\ AnswerRows(t) # {} /\ turns[t].status # "completed" =>
              At(t, {"history", "complete"}) # {}
    /\ \A t \in TurnIds : turns[t].status = "completed" => AnswerRows(t) # {}

\* What callers were told, and the answer under way, is what is stored.
AnswerTexts(t) == {rows[i].text : i \in AnswerRows(t)}
ToldWell ==
    /\ \A t \in TurnIds : told[t] \subseteq AnswerTexts(t)
    /\ \A t \in TurnIds \ overlapped :
         told[t] # {} => turns[t].status = "completed" /\ told[t] = {Stored(t)}
    /\ \A t \in TurnIds : \A h \in At(t, {"history", "complete"}) :
         /\ serving[h].text \in AnswerTexts(t)
         /\ t \notin overlapped => Stored(t) = serving[h].text

\* A turn begins with its user's message and has no other.
UserRows ==
    \A t \in TurnIds : \E i \in DOMAIN rows :
        /\ rows[i] = Line(t, "user", 0)
        /\ \A j \in DOMAIN rows : rows[j].turn = t /\ rows[j].role = "user" => j = i

\* Turns are opened one after the other.
InTurn == overlapped = {} /\ \A t \in TurnIds : openAt[t] = {}

\* A history holds the completed exchanges, in order and once.
DoneTurns == {t \in TurnIds : turns[t].status = "completed"}
Answered == [t \in DoneTurns |-> Stored(t)]
Whole(h, answered) ==
    /\ \A t \in DOMAIN answered :
         /\ \E i \in DOMAIN h : h[i] = Line(t, "user", 0)
         /\ \E i \in DOMAIN h : h[i] = Line(t, "assistant", answered[t])
    /\ \A i, j \in DOMAIN h :
         i < j /\ h[i].turn \in DOMAIN answered /\ h[j].turn \in DOMAIN answered
         => \/ h[i].turn < h[j].turn
            \/ h[i].turn = h[j].turn /\ h[i].role = "user" /\ h[j].role = "assistant"

\* Its lines are of turns that were asked, or have ended before.
Settled == {t \in TurnIds : turns[t].asked # <<>> \/ turns[t].status # "started"}
OfTurns(h, known) == \A i \in DOMAIN h : h[i].turn \in known

\* The request of an open turn holds what was completed before and the message
\* of the turn.
Asks(h, t, answered) ==
    \E i \in DOMAIN h : /\ h[i] = Line(t, "user", 0)
                        /\ \A j \in DOMAIN h :
                             /\ h[j].turn = t => j = i
                             /\ j > i => h[j].turn \notin DOMAIN answered

OpenTurn(t) == turns[t].status = "started" /\ turns[t].asked # <<>>

HistoryInTurn ==
    InTurn =>
    /\ \A t, u \in TurnIds : turns[t].asked # <<>> /\ u < t => turns[u].status # "started"
    /\ Whole(bridgeHistory, Answered) /\ OfTurns(bridgeHistory, Settled)
    /\ \A t \in TurnIds : OpenTurn(t) =>
         /\ Whole(turns[t].asked, Answered) /\ OfTurns(turns[t].asked, Settled)
         /\ Asks(turns[t].asked, t, Answered)
    /\ \A t \in TurnIds : \A h \in At(t, {"complete"}) :
         bridgeHistory = Append(turns[t].asked, Line(t, "assistant", serving[h].text))

BridgeInv ==
    /\ BridgeTypes /\ Opening /\ Alone /\ JudgedWell /\ JudgedOnAll /\ CorrectedOnce
    /\ AnsweredOnce /\ ToldWell /\ UserRows /\ HistoryInTurn

-----------------------------------------------------------------------------
(* Rows *)

\* A set of row numbers that is not empty has a greatest one.
LEMMA MaxOf ==
    ASSUME NEW n \in Nat, NEW S \in SUBSET (1..n), S # {}
    PROVE  Max(S) \in S /\ \A x \in S : x <= Max(S)
<1> DEFINE U == {k \in 0..n : \A x \in S : x <= k}
<1>1. n \in U /\ U \in SUBSET Nat
  OBVIOUS
<1>2. PICK m \in U : \A k \in U : ~(<<k, m>> \in OpToRel(<, Nat))
  BY <1>1, NatLessThanWellFounded, WFMin
<1>3. \A k \in U : ~(k < m)
  BY <1>1, <1>2 DEF OpToRel
<1>4. m \in S
  <2>1. SUFFICES ASSUME m \notin S PROVE FALSE
    OBVIOUS
  <2>2. PICK x \in S : TRUE
    OBVIOUS
  <2>3. m \in 0..n /\ x \in 1..n /\ x <= m
    BY <2>2
  <2>4. \A y \in S : y <= m - 1
    BY <2>1, <2>3
  <2>5. m - 1 \in U
    BY <2>3, <2>4
  <2> QED BY <1>3, <2>3, <2>5
<1>5. \E x \in S : \A y \in S : x >= y
  BY <1>4
<1> QED BY <1>5 DEF Max

\* The stored answer is one of the answers.
LEMMA StoredIs ==
    ASSUME BridgeTypes, NEW t, AnswerRows(t) # {}
    PROVE  Stored(t) \in AnswerTexts(t) /\ Stored(t) \in Nat
<1>1. Len(rows) \in Nat /\ AnswerRows(t) \in SUBSET (1..Len(rows))
  BY DEF BridgeTypes, AnswerRows
<1>2. Max(AnswerRows(t)) \in AnswerRows(t)
  BY <1>1, MaxOf
<1>3. rows[Max(AnswerRows(t))] \in Row
  BY <1>1, <1>2 DEF BridgeTypes
<1> QED BY <1>2, <1>3 DEF Stored, AnswerTexts, Row

LEMMA RowsStay ==
    ASSUME rows' = rows
    PROVE  \A t : /\ AnswerRows(t)' = AnswerRows(t) /\ Stored(t)' = Stored(t)
                  /\ AnswerTexts(t)' = AnswerTexts(t)
BY DEF AnswerRows, Stored, AnswerTexts

\* A new row of another turn, or of the user, is no answer of a turn.
LEMMA OtherRow ==
    ASSUME BridgeTypes, NEW row \in Row, rows' = Append(rows, row), NEW t,
           row.turn # t \/ row.role # "assistant"
    PROVE  /\ AnswerRows(t)' = AnswerRows(t) /\ AnswerTexts(t)' = AnswerTexts(t)
           /\ AnswerRows(t) # {} => Stored(t)' = Stored(t)
<1>1. /\ rows \in Seq(Row) /\ Len(rows) \in Nat /\ DOMAIN rows = 1..Len(rows)
      /\ DOMAIN rows' = 1..(Len(rows) + 1)
      /\ \A i \in 1..Len(rows) : rows'[i] = rows[i]
      /\ rows'[Len(rows) + 1] = row
  BY DEF BridgeTypes
<1>2. AnswerRows(t)' = AnswerRows(t)
  BY <1>1 DEF AnswerRows
<1>3. \A i \in AnswerRows(t) : rows'[i] = rows[i]
  BY <1>1 DEF AnswerRows
<1>4. AnswerTexts(t)' = AnswerTexts(t)
  BY <1>2, <1>3 DEF AnswerTexts
<1>5. ASSUME AnswerRows(t) # {} PROVE Stored(t)' = Stored(t)
  <2>1. AnswerRows(t) \in SUBSET (1..Len(rows))
    BY <1>1 DEF AnswerRows
  <2>2. Max(AnswerRows(t)) \in AnswerRows(t)
    BY <1>1, <1>5, <2>1, MaxOf
  <2> QED BY <1>2, <1>3, <2>2 DEF Stored
<1> QED BY <1>2, <1>4, <1>5

\* A new answer is the newest of its turn.
LEMMA NewAnswer ==
    ASSUME BridgeTypes, NEW t \in Nat, NEW text \in Nat,
           rows' = Append(rows, Line(t, "assistant", text))
    PROVE  /\ AnswerRows(t)' = AnswerRows(t) \cup {Len(rows) + 1}
           /\ AnswerTexts(t)' = AnswerTexts(t) \cup {text} /\ Stored(t)' = text
<1> DEFINE n == Len(rows)
<1>1. /\ n \in Nat /\ DOMAIN rows = 1..n /\ DOMAIN rows' = 1..(n + 1)
      /\ \A i \in 1..n : rows'[i] = rows[i]
      /\ rows'[n + 1] = Line(t, "assistant", text)
  BY DEF BridgeTypes
<1> HIDE DEF n
<1>2. AnswerRows(t)' = AnswerRows(t) \cup {n + 1}
  BY <1>1 DEF AnswerRows, Line
<1>3. \A i \in AnswerRows(t) : rows'[i] = rows[i] /\ i \in 1..n
  BY <1>1 DEF AnswerRows
<1>4. rows'[n + 1].text = text
  BY <1>1 DEF Line
<1>5. AnswerTexts(t)' = AnswerTexts(t) \cup {text}
  BY <1>2, <1>3, <1>4 DEF AnswerTexts
<1>6. Stored(t)' = text
  <2> DEFINE S == AnswerRows(t) \cup {n + 1}
  <2>1. S \in SUBSET (1..(n + 1)) /\ S # {} /\ n + 1 \in Nat
    BY <1>1, <1>3
  <2>2. Max(S) \in S /\ \A x \in S : x <= Max(S)
    BY <2>1, MaxOf
  <2>3. Max(S) = n + 1
    BY <1>1, <1>3, <2>2
  <2> HIDE DEF S
  <2>4. Stored(t)' = rows'[Max(S)].text
    BY <1>2 DEF Stored, S
  <2> QED BY <1>4, <2>3, <2>4
<1> QED BY <1>2, <1>5, <1>6 DEF n

-----------------------------------------------------------------------------
(* Turns and requests *)

\* A step changes one turn, ...
LEMMA TurnChanges ==
    ASSUME BridgeTypes, NEW t \in TurnIds, NEW e \in Turn, turns' = [turns EXCEPT ![t] = e]
    PROVE  /\ turns' \in Seq(Turn) /\ Len(turns') = Len(turns) /\ TurnIds' = TurnIds
           /\ turns'[t] = e /\ \A u \in TurnIds : u # t => turns'[u] = turns[u]
<1>1. turns \in [1..Len(turns) -> Turn] /\ Len(turns) \in Nat /\ TurnIds = 1..Len(turns)
  BY DEF BridgeTypes, TurnIds
<1>2. turns' \in [1..Len(turns) -> Turn]
  BY <1>1
<1>3. turns' \in Seq(Turn) /\ Len(turns') = Len(turns)
  BY <1>1, <1>2
<1> QED BY <1>1, <1>3 DEF TurnIds

\* ... and what one request does.
LEMMA RequestChanges ==
    ASSUME BridgeTypes, NEW h \in Handlers, NEW s \in Serving,
           serving' = [serving EXCEPT ![h] = s]
    PROVE  /\ serving' \in [Handlers -> Serving] /\ serving'[h] = s
           /\ \A g \in Handlers : g # h => serving'[g] = serving[g]
BY DEF BridgeTypes

\* A request that finalizes a turn goes on with it.
LEMMA FinalizerIs ==
    ASSUME BridgeTypes, NEW h \in Handlers, serving[h].at \in Stages
    PROVE  /\ serving[h] \in Finalization /\ serving[h].turn \in TurnIds /\ serving[h].turn \in Nat
           /\ serving[h].text \in Nat
<1>1. serving[h] \in Serving
  BY DEF BridgeTypes
<1>2. serving[h] \in Finalization
  BY <1>1 DEF Serving, Idle, Bootstrap, Acting, Stages
<1>3. serving[h].at # "idle"
  BY DEF Stages
<1> QED BY <1>2, <1>3 DEF BridgeTypes, Finalization

LEMMA FinalizerGoes ==
    ASSUME BridgeTypes, NEW h \in Handlers, serving[h].at \in Stages, NEW stage \in Stages, Goes(h, stage)
    PROVE  /\ serving' \in [Handlers -> Serving]
           /\ serving'[h].at = stage /\ serving'[h].turn = serving[h].turn
           /\ serving'[h].text = serving[h].text /\ serving'[h].on = serving[h].on
           /\ \A g \in Handlers : g # h => serving'[g] = serving[g]
<1>1. serving[h] \in Finalization
  BY FinalizerIs
<1> DEFINE s == [serving[h] EXCEPT !.at = stage]
<1>2. /\ s \in Finalization /\ s.at = stage /\ s.turn = serving[h].turn /\ s.text = serving[h].text
      /\ s.on = serving[h].on
  BY <1>1 DEF Finalization
<1>3. serving' = [serving EXCEPT ![h] = s]
  BY DEF Goes
<1> HIDE DEF s
<1>4. s \in Serving
  BY <1>2 DEF Serving
<1> QED BY <1>2, <1>3, <1>4, RequestChanges

LEMMA RequestReturns ==
    ASSUME BridgeTypes, NEW h \in Handlers, Returns(h)
    PROVE  /\ serving' \in [Handlers -> Serving] /\ serving'[h].at = "idle"
           /\ \A g \in Handlers : g # h => serving'[g] = serving[g]
<1>1. Idle \in Serving /\ Idle.at = "idle"
  BY DEF Serving, Idle
<1> QED BY <1>1, RequestChanges DEF Returns

LEMMA SpentMore ==
    ASSUME BridgeTypes,
           \/ spent' = [spent EXCEPT !.actions = spent.actions + 1]
           \/ spent' = [spent EXCEPT !.finalizes = spent.finalizes + 1]
           \/ spent' = [spent EXCEPT !.deaths = spent.deaths + 1]
    PROVE  spent' \in [actions : Nat, finalizes : Nat, deaths : Nat]
<1>1. spent \in [actions : Nat, finalizes : Nat, deaths : Nat]
  BY DEF BridgeTypes
<1>2. spent.actions + 1 \in Nat /\ spent.finalizes + 1 \in Nat /\ spent.deaths + 1 \in Nat
  BY <1>1
<1> QED BY <1>1, <1>2

\* An idle request is at nothing.
LEMMA IdleIs ==
    ASSUME NEW h \in Handlers, serving[h] = Idle
    PROVE  serving[h].at = "idle"
BY DEF Idle

-----------------------------------------------------------------------------
(* What keeps the parts of the invariant *)

LEMMA OpeningStays ==
    ASSUME Opening, BridgeTypes, TurnIds' = TurnIds,
           \A t \in TurnIds : turns'[t].asked = turns[t].asked,
           \A h \in Handlers : serving'[h].at = "bootstrap" =>
             /\ serving[h].at = "bootstrap" /\ serving'[h].turn = serving[h].turn
             /\ turns'[serving[h].turn].status = turns[serving[h].turn].status,
           \A h \in Handlers : serving'[h].at \in Stages \cup {"acting"} =>
             serving'[h].turn \in TurnIds /\ turns[serving'[h].turn].asked # <<>>,
           \A t \in TurnIds : turns[t].asked = <<>> =>
             /\ turns'[t].status # "completed" /\ openAt'[t] = openAt[t] /\ told'[t] = told[t]
             /\ AnswerRows(t)' = AnswerRows(t)
    PROVE  Opening'
<1>1. ASSUME NEW h \in Handlers, serving'[h].at = "bootstrap"
      PROVE  /\ turns'[serving'[h].turn].asked = <<>>
             /\ turns'[serving'[h].turn].status = "started"
             /\ \A g \in Handlers :
                  serving'[g].at = "bootstrap" /\ serving'[g].turn = serving'[h].turn => g = h
  <2>1. serving[h].at = "bootstrap" /\ serving'[h].turn = serving[h].turn
        /\ turns'[serving[h].turn].status = turns[serving[h].turn].status
    BY <1>1
  <2>2. serving[h].turn \in TurnIds
    BY <2>1 DEF BridgeTypes
  <2>3. /\ turns[serving[h].turn].asked = <<>> /\ turns[serving[h].turn].status = "started"
        /\ \A g \in Handlers :
             serving[g].at = "bootstrap" /\ serving[g].turn = serving[h].turn => g = h
    BY <2>1 DEF Opening
  <2> QED BY <2>1, <2>2, <2>3
<1>2. ASSUME NEW h \in Handlers, serving'[h].at \in Stages \cup {"acting"}
      PROVE  turns'[serving'[h].turn].asked # <<>>
  BY <1>2
<1>3. ASSUME NEW t \in TurnIds, turns'[t].asked = <<>>
      PROVE  /\ turns'[t].status # "completed" /\ openAt'[t] = {} /\ told'[t] = {}
             /\ AnswerRows(t)' = {}
  <2>1. turns[t].asked = <<>>
    BY <1>3
  <2> QED BY <2>1 DEF Opening
<1> QED BY <1>1, <1>2, <1>3 DEF Opening

LEMMA AloneStays ==
    ASSUME Alone, overlapped \subseteq overlapped',
           \A h \in Handlers : serving'[h].at \in Stages =>
             /\ serving[h].at \in Stages /\ serving'[h].turn = serving[h].turn
             /\ serving[h].turn \notin overlapped =>
                  turns'[serving[h].turn].status = turns[serving[h].turn].status
    PROVE  Alone'
<1> SUFFICES ASSUME NEW h \in Handlers, serving'[h].at \in Stages,
                    serving'[h].turn \notin overlapped'
             PROVE  /\ turns'[serving'[h].turn].status = "started"
                    /\ \A g \in Handlers :
                         serving'[g].at \in Stages /\ serving'[g].turn = serving'[h].turn => g = h
  BY DEF Alone
<1>1. /\ serving[h].at \in Stages /\ serving'[h].turn = serving[h].turn
      /\ serving[h].turn \notin overlapped
      /\ turns'[serving[h].turn].status = turns[serving[h].turn].status
  OBVIOUS
<1>2. /\ turns[serving[h].turn].status = "started"
      /\ \A g \in Handlers :
           serving[g].at \in Stages /\ serving[g].turn = serving[h].turn => g = h
  BY <1>1 DEF Alone
<1> QED BY <1>1, <1>2

LEMMA JudgedWellStays ==
    ASSUME JudgedWell, mode' = mode, overlapped \subseteq overlapped', TurnIds' = TurnIds,
           \A t \in TurnIds : /\ turns'[t].verdicts = turns[t].verdicts
                              /\ turns'[t].status = "completed" => turns[t].status = "completed",
           \A h \in Handlers : serving'[h].at \in {"store", "history", "complete"} =>
             /\ serving[h].at \in {"store", "history", "complete"}
             /\ serving'[h].turn = serving[h].turn
    PROVE  JudgedWell'
<1>1. \A t \in TurnIds : Passed(t) => Passed(t)'
  BY DEF Passed
<1>2. \A t : At(t, {"store", "history", "complete"})' \subseteq At(t, {"store", "history", "complete"})
  BY DEF At
<1> HIDE DEF Passed, At
<1> QED BY <1>1, <1>2 DEF JudgedWell

LEMMA JudgedOnAllStays ==
    ASSUME JudgedOnAll, raced \subseteq raced',
           \A h \in Handlers : serving'[h].at \in Stages /\ serving'[h].turn \notin raced' =>
             /\ serving[h].at \in Stages /\ serving'[h].turn = serving[h].turn
             /\ serving'[h].on = serving[h].on
             /\ turns'[serving[h].turn].base = turns[serving[h].turn].base
             /\ turns'[serving[h].turn].calls = turns[serving[h].turn].calls
    PROVE  JudgedOnAll'
<1> SUFFICES ASSUME NEW h \in Handlers, serving'[h].at \in Stages, serving'[h].turn \notin raced'
             PROVE  /\ turns'[serving'[h].turn].base \subseteq serving'[h].on
                    /\ \A k \in DOMAIN turns'[serving'[h].turn].calls :
                         turns'[serving'[h].turn].calls[k].result # "ok" =>
                           Duty("action", turns'[serving'[h].turn].calls[k].id) \in serving'[h].on
  BY DEF JudgedOnAll
<1>0. /\ serving[h].at \in Stages /\ serving'[h].turn = serving[h].turn
      /\ serving'[h].on = serving[h].on
      /\ turns'[serving[h].turn].base = turns[serving[h].turn].base
      /\ turns'[serving[h].turn].calls = turns[serving[h].turn].calls
  OBVIOUS
<1>1. PICK t : t = serving[h].turn
  OBVIOUS
<1>2. t \notin raced /\ serving'[h].turn = t
  BY <1>0, <1>1
<1>3. /\ turns[t].base \subseteq serving[h].on
      /\ \A k \in DOMAIN turns[t].calls :
           turns[t].calls[k].result # "ok" => Duty("action", turns[t].calls[k].id) \in serving[h].on
  BY <1>0, <1>1, <1>2 DEF JudgedOnAll
<1>4. turns'[t].base = turns[t].base /\ turns'[t].calls = turns[t].calls
  BY <1>0, <1>1
<1> QED BY <1>0, <1>2, <1>3, <1>4

LEMMA CorrectedStays ==
    ASSUME CorrectedOnce, TurnIds' = TurnIds, corrections' = corrections,
           \A t \in TurnIds : turns'[t].verdicts = turns[t].verdicts,
           \A h \in Handlers : serving'[h].at = "rejected" =>
             serving[h].at = "rejected" /\ serving'[h].turn = serving[h].turn
    PROVE  CorrectedOnce'
<1>1. \A t \in TurnIds : Rejections(t)' = Rejections(t)
  BY DEF Rejections
<1>2. \A t : At(t, {"rejected"})' \subseteq At(t, {"rejected"})
  BY DEF At
<1> HIDE DEF Rejections, At
<1> QED BY <1>1, <1>2 DEF CorrectedOnce

LEMMA AnsweredStays ==
    ASSUME AnsweredOnce, rows' = rows, TurnIds' = TurnIds,
           overlapped \cup died \subseteq overlapped' \cup died',
           \A t \in TurnIds :
             /\ turns'[t].status = "completed" => turns[t].status = "completed"
             /\ t \notin overlapped' /\ turns[t].status = "completed" =>
                  turns'[t].status = "completed",
           \A h \in Handlers : serving[h].at \in {"history", "complete"}
                               /\ serving[h].turn \notin died' =>
             /\ serving'[h].at \in {"history", "complete"} /\ serving'[h].turn = serving[h].turn
    PROVE  AnsweredOnce'
<1>1. \A t : AnswerRows(t)' = AnswerRows(t)
  BY RowsStay
<1>2. ASSUME NEW t \in TurnIds \ (overlapped' \cup died')
      PROVE  /\ \A i, j \in AnswerRows(t) : i = j
             /\ AnswerRows(t) # {} /\ turns'[t].status # "completed" =>
                  At(t, {"history", "complete"})' # {}
  BY DEF AnsweredOnce, At
<1>3. \A t \in TurnIds : turns'[t].status = "completed" => AnswerRows(t) # {}
  BY DEF AnsweredOnce
<1> HIDE DEF AnswerRows
<1> QED BY <1>1, <1>2, <1>3 DEF AnsweredOnce

LEMMA ToldStays ==
    ASSUME ToldWell, rows' = rows, TurnIds' = TurnIds, told' = told,
           overlapped \subseteq overlapped',
           \A t \in TurnIds : t \notin overlapped' /\ turns[t].status = "completed" =>
             turns'[t].status = "completed",
           \A h \in Handlers : serving'[h].at \in {"history", "complete"} =>
             /\ serving[h].at \in {"history", "complete"} /\ serving'[h].turn = serving[h].turn
             /\ serving'[h].text = serving[h].text
    PROVE  ToldWell'
<1>1. \A t : Stored(t)' = Stored(t) /\ AnswerTexts(t)' = AnswerTexts(t)
  BY RowsStay
<1>2. \A t \in TurnIds : told'[t] \subseteq AnswerTexts(t)
  BY DEF ToldWell
<1>3. \A t \in TurnIds \ overlapped' :
        told'[t] # {} => turns'[t].status = "completed" /\ told'[t] = {Stored(t)}
  BY DEF ToldWell
<1>4. ASSUME NEW t \in TurnIds, NEW h \in At(t, {"history", "complete"})'
      PROVE  /\ serving'[h].text \in AnswerTexts(t)
             /\ t \notin overlapped' => Stored(t) = serving'[h].text
  <2>1. h \in At(t, {"history", "complete"}) /\ serving'[h].text = serving[h].text
    BY DEF At
  <2> QED BY <2>1 DEF ToldWell
<1> HIDE DEF AnswerTexts, Stored, At
<1> QED BY <1>1, <1>2, <1>3, <1>4 DEF ToldWell

LEMMA UserRowsStay ==
    ASSUME UserRows, rows' = rows, TurnIds' = TurnIds
    PROVE  UserRows'
BY DEF UserRows

\* A history is whole though lines of a turn that is not completed are added.
LEMMA WholeStays ==
    ASSUME NEW h \in Seq(Row), NEW line \in Row, NEW answered,
           Whole(h, answered), line.turn \notin DOMAIN answered
    PROVE  Whole(Append(h, line), answered)
<1> DEFINE g == Append(h, line)
<1>1. /\ Len(h) \in Nat /\ DOMAIN h = 1..Len(h) /\ DOMAIN g = 1..(Len(h) + 1)
      /\ \A i \in DOMAIN h : g[i] = h[i]
      /\ \A i \in DOMAIN g : i \in DOMAIN h \/ g[i] = line
  OBVIOUS
<1> HIDE DEF g
<1>2. ASSUME NEW t \in DOMAIN answered
      PROVE  /\ \E i \in DOMAIN g : g[i] = Line(t, "user", 0)
             /\ \E i \in DOMAIN g : g[i] = Line(t, "assistant", answered[t])
  <2>1. PICK i \in DOMAIN h : h[i] = Line(t, "user", 0)
    BY DEF Whole
  <2>2. PICK j \in DOMAIN h : h[j] = Line(t, "assistant", answered[t])
    BY DEF Whole
  <2>3. i \in DOMAIN g /\ j \in DOMAIN g
    BY <1>1
  <2> QED BY <1>1, <2>1, <2>2, <2>3
<1>3. ASSUME NEW i \in DOMAIN g, NEW j \in DOMAIN g, i < j,
             g[i].turn \in DOMAIN answered, g[j].turn \in DOMAIN answered
      PROVE  \/ g[i].turn < g[j].turn
             \/ g[i].turn = g[j].turn /\ g[i].role = "user" /\ g[j].role = "assistant"
  <2>1. i \in DOMAIN h /\ j \in DOMAIN h /\ g[i] = h[i] /\ g[j] = h[j]
    BY <1>1, <1>3
  <2> QED BY <1>3, <2>1 DEF Whole
<1>4. Whole(g, answered)
  BY <1>2, <1>3 DEF Whole
<1> QED BY <1>4 DEF g

\* The answer of the newest turn completes its exchange.
LEMMA WholeGrows ==
    ASSUME NEW h \in Seq(Row), NEW t \in Nat, NEW text \in Nat, NEW answered, NEW more,
           Whole(h, answered), Asks(h, t, answered), t \notin DOMAIN answered,
           DOMAIN more = DOMAIN answered \cup {t}, more[t] = text,
           \A u \in DOMAIN answered : more[u] = answered[u],
           \A i \in DOMAIN h : h[i].turn \in DOMAIN answered => h[i].turn < t
    PROVE  Whole(Append(h, Line(t, "assistant", text)), more)
<1> DEFINE g == Append(h, Line(t, "assistant", text))
           n == Len(h)
<1>1. /\ n \in Nat /\ DOMAIN h = 1..n /\ DOMAIN g = 1..(n + 1)
      /\ \A i \in DOMAIN h : g[i] = h[i] /\ i < n + 1
      /\ g[n + 1] = Line(t, "assistant", text)
      /\ \A i \in DOMAIN g : i \in DOMAIN h \/ i = n + 1
  OBVIOUS
<1>6. \A i \in DOMAIN h : h[i] \in Row
  OBVIOUS
<1> HIDE DEF g, n
<1>2. PICK a \in DOMAIN h : /\ h[a] = Line(t, "user", 0)
                            /\ \A j \in DOMAIN h :
                                 /\ h[j].turn = t => j = a
                                 /\ j > a => h[j].turn \notin DOMAIN answered
  BY DEF Asks
<1>3. ASSUME NEW u \in DOMAIN more
      PROVE  /\ \E i \in DOMAIN g : g[i] = Line(u, "user", 0)
             /\ \E i \in DOMAIN g : g[i] = Line(u, "assistant", more[u])
  <2>1. CASE u = t
    <3>1. a \in DOMAIN g /\ g[a] = Line(u, "user", 0)
      BY <1>1, <1>2, <2>1
    <3>2. n + 1 \in DOMAIN g /\ g[n + 1] = Line(u, "assistant", more[u])
      BY <1>1, <2>1
    <3> QED BY <3>1, <3>2
  <2>2. CASE u # t
    <3>1. u \in DOMAIN answered /\ more[u] = answered[u]
      BY <2>2
    <3>2. PICK i \in DOMAIN h : h[i] = Line(u, "user", 0)
      BY <3>1 DEF Whole
    <3>3. PICK j \in DOMAIN h : h[j] = Line(u, "assistant", more[u])
      BY <3>1 DEF Whole
    <3>4. i \in DOMAIN g /\ j \in DOMAIN g
      BY <1>1
    <3> QED BY <1>1, <3>2, <3>3, <3>4
  <2> QED BY <2>1, <2>2
<1>4. ASSUME NEW i \in DOMAIN g, NEW j \in DOMAIN g, i < j,
             g[i].turn \in DOMAIN more, g[j].turn \in DOMAIN more
      PROVE  \/ g[i].turn < g[j].turn
             \/ g[i].turn = g[j].turn /\ g[i].role = "user" /\ g[j].role = "assistant"
  <2>1. i \in DOMAIN h /\ g[i] = h[i]
    BY <1>1, <1>4
  <2>2. h[i] \in Row /\ h[i].turn \in Nat
    BY <1>6, <2>1 DEF Row
  <2>3. h[i].turn = t => i = a /\ h[i].role = "user"
    BY <1>2, <2>1 DEF Line
  <2>4. h[i].turn # t => h[i].turn \in DOMAIN answered /\ h[i].turn < t
    BY <1>4, <2>1
  <2>5. CASE j = n + 1
    <3>1. g[j].turn = t /\ g[j].role = "assistant"
      BY <1>1, <2>5 DEF Line
    <3> QED BY <2>1, <2>3, <2>4, <3>1
  <2>6. CASE j # n + 1
    <3>1. j \in DOMAIN h /\ g[j] = h[j]
      BY <1>1, <2>6
    <3>2. CASE h[j].turn = t
      <4>1. h[i].turn # t
        BY <1>1, <1>2, <1>4, <2>1, <3>1, <3>2
      <4> QED BY <2>1, <2>4, <3>1, <3>2, <4>1
    <3>3. CASE h[j].turn # t
      <4>1. h[j].turn \in DOMAIN answered /\ h[j].turn < t
        BY <1>4, <3>1, <3>3
      <4>2. h[i].turn # t
        BY <1>1, <1>2, <1>4, <2>1, <2>3, <3>1, <4>1
      <4> QED BY <1>4, <2>1, <2>4, <3>1, <4>1, <4>2 DEF Whole
    <3> QED BY <3>2, <3>3
  <2> QED BY <2>5, <2>6
<1>5. Whole(g, more)
  BY <1>3, <1>4 DEF Whole
<1> QED BY <1>5 DEF g

LEMMA HistoryFollows ==
    ASSUME HistoryInTurn, BridgeTypes, TurnIds' = TurnIds,
           \A t \in TurnIds : turns'[t].asked = turns[t].asked,
           InTurn => \A t \in TurnIds :
             \/ turns'[t].status = turns[t].status
             \/ turns[t].status = "started" /\ turns'[t].status = "failed",
           InTurn => \A t \in DoneTurns : Stored(t)' = Stored(t),
           bridgeHistory' = bridgeHistory, openAt' = openAt,
           overlapped \subseteq overlapped',
           \A h \in Handlers : serving'[h].at = "complete" =>
             /\ serving[h].at = "complete" /\ serving'[h].turn = serving[h].turn
             /\ serving'[h].text = serving[h].text
    PROVE  HistoryInTurn'
<1>1. InTurn' => InTurn
  BY DEF InTurn
<1>2. InTurn => DoneTurns' = DoneTurns /\ Settled \subseteq Settled'
  BY DEF DoneTurns, Settled
<1>3. InTurn => Answered' = Answered
  BY <1>2 DEF Answered
<1>4. InTurn => \A t \in TurnIds : OpenTurn(t)' => OpenTurn(t)
  BY DEF OpenTurn
<1>9. \A h : OfTurns(h, Settled) /\ InTurn => OfTurns(h, Settled')
  BY <1>2 DEF OfTurns
<1> SUFFICES ASSUME InTurn
             PROVE /\ \A t, u \in TurnIds : turns'[t].asked # <<>> /\ u < t => turns'[u].status # "started"
                   /\ Whole(bridgeHistory', Answered') /\ OfTurns(bridgeHistory', Settled')
                   /\ \A t \in TurnIds : OpenTurn(t)' =>
                        /\ Whole(turns'[t].asked, Answered') /\ OfTurns(turns'[t].asked, Settled')
                        /\ Asks(turns'[t].asked, t, Answered')
                   /\ \A t \in TurnIds : \A h \in At(t, {"complete"})' :
                        bridgeHistory' = Append(turns'[t].asked, Line(t, "assistant", serving'[h].text))
  BY <1>1 DEF HistoryInTurn
<1>5. ASSUME NEW t \in TurnIds, NEW h \in At(t, {"complete"})'
      PROVE  bridgeHistory' = Append(turns'[t].asked, Line(t, "assistant", serving'[h].text))
  <2>1. h \in At(t, {"complete"}) /\ serving'[h].text = serving[h].text
    BY DEF At
  <2> QED BY <2>1 DEF HistoryInTurn
<1>6. \A t, u \in TurnIds : turns'[t].asked # <<>> /\ u < t => turns'[u].status # "started"
  BY DEF HistoryInTurn
<1>7. Whole(bridgeHistory', Answered') /\ OfTurns(bridgeHistory', Settled')
  BY <1>3, <1>9 DEF HistoryInTurn
<1>8. ASSUME NEW t \in TurnIds, OpenTurn(t)'
      PROVE  /\ Whole(turns'[t].asked, Answered') /\ OfTurns(turns'[t].asked, Settled')
             /\ Asks(turns'[t].asked, t, Answered')
  <2>1. /\ Whole(turns[t].asked, Answered) /\ OfTurns(turns[t].asked, Settled)
        /\ Asks(turns[t].asked, t, Answered)
    BY <1>4, <1>8 DEF HistoryInTurn
  <2> QED BY <1>3, <1>9, <2>1
<1> QED BY <1>5, <1>6, <1>7, <1>8

LEMMA HistoryStays ==
    ASSUME HistoryInTurn, BridgeTypes, TurnIds' = TurnIds,
           \A t \in TurnIds : turns'[t].asked = turns[t].asked,
           InTurn => \A t \in TurnIds :
             \/ turns'[t].status = turns[t].status
             \/ turns[t].status = "started" /\ turns'[t].status = "failed",
           rows' = rows, bridgeHistory' = bridgeHistory, openAt' = openAt,
           overlapped \subseteq overlapped',
           \A h \in Handlers : serving'[h].at = "complete" =>
             /\ serving[h].at = "complete" /\ serving'[h].turn = serving[h].turn
             /\ serving'[h].text = serving[h].text
    PROVE  HistoryInTurn'
<1>1. \A t : Stored(t)' = Stored(t)
  BY RowsStay
<1> QED BY <1>1, HistoryFollows



-----------------------------------------------------------------------------
(* The steps *)

\* What happens to a request while it acts or ends leaves the finalizations of
\* its turn, if it is none of them.
LEMMA ActionKeeps ==
    ASSUME BridgeInv, NEW h \in Handlers, NEW t \in Known, BeginAction(h, t)
    PROVE  BridgeInv'
<1>0. BridgeTypes /\ Opening /\ Alone /\ JudgedWell /\ JudgedOnAll /\ CorrectedOnce
      /\ AnsweredOnce /\ ToldWell /\ UserRows /\ HistoryInTurn
  BY DEF BridgeInv
<1>1. /\ serving[h].at = "idle" /\ turns[t].status = "started"
      /\ spent' = [spent EXCEPT !.actions = @ + 1]
      /\ UNCHANGED <<mode, turns, rows, bridgeHistory, told, corrections, overlapped, raced, died,
                     openAt>>
  BY IdleIs DEF BeginAction
<1>2. t \in TurnIds /\ t \in Nat /\ turns[t].asked # <<>> /\ TurnIds' = TurnIds
  BY <1>0, <1>1 DEF Known, TurnIds, BridgeTypes
<1>3. PICK op \in BridgeOps :
        serving' = [serving EXCEPT ![h] =
                      [at |-> "acting", turn |-> t, op |-> op, id |-> spent.actions + 1]]
  BY DEF BeginAction
<1>4. /\ serving' \in [Handlers -> Serving] /\ serving'[h].at = "acting" /\ serving'[h].turn = t
      /\ \A g \in Handlers : g # h => serving'[g] = serving[g]
  <2> DEFINE s == [at |-> "acting", turn |-> t, op |-> op, id |-> spent.actions + 1]
  <2>1. s \in Acting /\ s.at = "acting" /\ s.turn = t
    BY <1>0, <1>2 DEF Acting, BridgeTypes
  <2> HIDE DEF s
  <2>2. s \in Serving
    BY <2>1 DEF Serving
  <2>3. serving' = [serving EXCEPT ![h] = s]
    BY <1>3 DEF s
  <2> QED BY <1>0, <2>1, <2>2, <2>3, RequestChanges
<1>5. \A g \in Handlers : serving'[g].at \in Stages => serving'[g] = serving[g]
  BY <1>4 DEF Stages
<1>6. \A g \in Handlers : serving[g].at \in Stages => serving'[g] = serving[g]
  BY <1>1, <1>4 DEF Stages
<1>7. BridgeTypes'
  <2>1. spent' \in [actions : Nat, finalizes : Nat, deaths : Nat]
    BY <1>0, <1>1, SpentMore
  <2>2. \A g \in Handlers : serving'[g].at # "idle" => serving'[g].turn \in TurnIds
    BY <1>0, <1>2, <1>4 DEF BridgeTypes
  <2> QED BY <1>0, <1>1, <1>2, <1>4, <2>1, <2>2 DEF BridgeTypes
<1>8. Opening'
  <2>1. \A g \in Handlers : serving'[g].at = "bootstrap" => serving'[g] = serving[g]
    BY <1>4
  <2>2. \A g \in Handlers : serving'[g].at \in Stages \cup {"acting"} =>
          serving'[g].turn \in TurnIds /\ turns[serving'[g].turn].asked # <<>>
    BY <1>0, <1>2, <1>4 DEF Opening, BridgeTypes, Stages
  <2>3. \A u \in TurnIds : turns[u].asked = <<>> =>
          turns[u].status # "completed" /\ AnswerRows(u)' = AnswerRows(u)
    BY <1>0, <1>1, RowsStay DEF Opening
  <2> QED BY <1>0, <1>1, <1>2, <2>1, <2>2, <2>3, OpeningStays
<1>9. Alone'
  BY <1>0, <1>1, <1>5, AloneStays
<1>10. JudgedWell'
  BY <1>0, <1>1, <1>2, <1>5, JudgedWellStays DEF Stages
<1>11. JudgedOnAll'
  BY <1>0, <1>1, <1>5, JudgedOnAllStays
<1>12. CorrectedOnce'
  BY <1>0, <1>1, <1>2, <1>5, CorrectedStays DEF Stages
<1>13. AnsweredOnce'
  BY <1>0, <1>1, <1>2, <1>6, AnsweredStays DEF Stages
<1>14. ToldWell'
  BY <1>0, <1>1, <1>2, <1>5, ToldStays DEF Stages
<1>15. UserRows'
  BY <1>0, <1>1, <1>2, UserRowsStay
<1>16. HistoryInTurn'
  BY <1>0, <1>1, <1>2, <1>5, HistoryStays DEF Stages
<1> QED BY <1>7, <1>8, <1>9, <1>10, <1>11, <1>12, <1>13, <1>14, <1>15, <1>16 DEF BridgeInv

\* A call recorded late is remembered as such.
LEMMA CallRecordedKeeps ==
    ASSUME BridgeInv, NEW h \in Handlers, FinishAction(h)
    PROVE  BridgeInv'
<1> DEFINE t == serving[h].turn
<1>0. BridgeTypes /\ Opening /\ Alone /\ JudgedWell /\ JudgedOnAll /\ CorrectedOnce
      /\ AnsweredOnce /\ ToldWell /\ UserRows /\ HistoryInTurn
  BY DEF BridgeInv
<1>1. /\ serving[h].at = "acting" /\ Returns(h)
      /\ raced' = IF Finalizing(t) # {} \/ turns[t].status # "started" THEN raced \cup {t} ELSE raced
      /\ UNCHANGED <<mode, rows, bridgeHistory, told, corrections, overlapped, died, openAt, spent>>
  BY DEF FinishAction
<1>2. serving[h] \in Acting /\ t \in TurnIds
  <2>1. serving[h] \in Serving /\ t \in TurnIds
    BY <1>0, <1>1 DEF BridgeTypes
  <2> QED BY <1>1, <2>1 DEF Serving, Idle, Bootstrap, Finalization, Stages
<1>3. PICK result \in Results :
        turns' = [turns EXCEPT ![t].calls =
                    Append(@, [id |-> serving[h].id, op |-> serving[h].op, result |-> result])]
  BY DEF FinishAction
<1> DEFINE e == [turns[t] EXCEPT !.calls =
                    Append(@, [id |-> serving[h].id, op |-> serving[h].op, result |-> result])]
<1>4. /\ e \in Turn /\ e.status = turns[t].status /\ e.asked = turns[t].asked
      /\ e.base = turns[t].base /\ e.verdicts = turns[t].verdicts
  <2>1. turns[t] \in Turn
    BY <1>0, <1>2 DEF BridgeTypes, TurnIds
  <2>2. [id |-> serving[h].id, op |-> serving[h].op, result |-> result] \in BridgeCall
    BY <1>2 DEF Acting, BridgeCall
  <2>3. Append(turns[t].calls, [id |-> serving[h].id, op |-> serving[h].op, result |-> result])
          \in Seq(BridgeCall)
    BY <2>1, <2>2 DEF Turn
  <2> QED BY <2>1, <2>3 DEF Turn
<1> HIDE DEF e
<1>5. /\ turns' \in Seq(Turn) /\ Len(turns') = Len(turns) /\ TurnIds' = TurnIds
      /\ turns'[t] = e /\ \A u \in TurnIds : u # t => turns'[u] = turns[u]
  <2>1. turns' = [turns EXCEPT ![t] = e]
    BY <1>3 DEF e
  <2> QED BY <1>0, <1>2, <1>4, <2>1, TurnChanges
<1>6. /\ serving' \in [Handlers -> Serving] /\ serving'[h].at = "idle"
      /\ \A g \in Handlers : g # h => serving'[g] = serving[g]
  BY <1>0, <1>1, RequestReturns
<1>7. /\ \A g \in Handlers : serving'[g].at # "idle" => serving'[g] = serving[g]
      /\ \A g \in Handlers : serving[g].at \in Stages => serving'[g] = serving[g]
  BY <1>1, <1>6 DEF Stages
<1>8. \A u \in TurnIds : /\ turns'[u].status = turns[u].status /\ turns'[u].asked = turns[u].asked
                         /\ turns'[u].base = turns[u].base /\ turns'[u].verdicts = turns[u].verdicts
  BY <1>4, <1>5
<1>9. BridgeTypes'
  <2>1. raced' \subseteq TurnIds
    BY <1>0, <1>1, <1>2 DEF BridgeTypes
  <2>2. \A g \in Handlers : serving'[g].at # "idle" => serving'[g].turn \in TurnIds
    BY <1>0, <1>7 DEF BridgeTypes
  <2> QED BY <1>0, <1>1, <1>5, <1>6, <2>1, <2>2 DEF BridgeTypes
<1>10. Opening'
  <2>1. \A g \in Handlers : serving'[g].at = "bootstrap" =>
          /\ serving[g].at = "bootstrap" /\ serving'[g].turn = serving[g].turn
          /\ turns'[serving[g].turn].status = turns[serving[g].turn].status
    BY <1>0, <1>7, <1>8 DEF BridgeTypes
  <2>2. \A g \in Handlers : serving'[g].at \in Stages \cup {"acting"} =>
          serving'[g].turn \in TurnIds /\ turns[serving'[g].turn].asked # <<>>
    BY <1>0, <1>7 DEF Opening, BridgeTypes, Stages
  <2>3. \A u \in TurnIds : turns[u].asked = <<>> =>
          /\ turns'[u].status # "completed" /\ openAt'[u] = openAt[u] /\ told'[u] = told[u]
          /\ AnswerRows(u)' = AnswerRows(u)
    BY <1>0, <1>1, <1>8, RowsStay DEF Opening
  <2> QED BY <1>0, <1>5, <1>8, <2>1, <2>2, <2>3, OpeningStays
<1>11. \A g \in Handlers : serving'[g].at \in Stages =>
         /\ serving'[g] = serving[g] /\ serving[g].turn \in TurnIds
  BY <1>0, <1>7 DEF Stages, BridgeTypes
<1>12. Alone'
  BY <1>0, <1>1, <1>8, <1>11, AloneStays
<1>13. JudgedWell'
  BY <1>0, <1>1, <1>5, <1>8, <1>11, JudgedWellStays DEF Stages
<1>14. JudgedOnAll'
  <2>1. ASSUME NEW g \in Handlers, serving'[g].at \in Stages, serving'[g].turn \notin raced'
        PROVE  serving[g].turn # t
    <3>1. serving'[g] = serving[g] /\ serving[g].turn \notin raced'
      BY <1>11, <2>1
    <3>2. CASE serving[g].turn = t
      <4>1. g \in Finalizing(t)
        BY <2>1, <3>1, <3>2 DEF Finalizing, Stages
      <4> QED BY <1>1, <3>1, <3>2, <4>1
    <3> QED BY <3>2
  <2>2. raced \subseteq raced'
    BY <1>1
  <2>3. \A g \in Handlers : serving'[g].at \in Stages /\ serving'[g].turn \notin raced' =>
          /\ serving[g].at \in Stages /\ serving'[g].turn = serving[g].turn
          /\ serving'[g].on = serving[g].on
          /\ turns'[serving[g].turn].base = turns[serving[g].turn].base
          /\ turns'[serving[g].turn].calls = turns[serving[g].turn].calls
    BY <1>5, <1>11, <2>1
  <2> QED BY <1>0, <2>2, <2>3, JudgedOnAllStays
<1>15. CorrectedOnce'
  BY <1>0, <1>1, <1>5, <1>8, <1>11, CorrectedStays DEF Stages
<1>16. AnsweredOnce'
  BY <1>0, <1>1, <1>5, <1>7, <1>8, AnsweredStays DEF Stages
<1>17. ToldWell'
  BY <1>0, <1>1, <1>5, <1>8, <1>11, ToldStays DEF Stages
<1>18. UserRows'
  BY <1>0, <1>1, <1>5, UserRowsStay
<1>19. HistoryInTurn'
  BY <1>0, <1>1, <1>5, <1>8, <1>11, HistoryStays DEF Stages
<1> QED BY <1>9, <1>10, <1>12, <1>13, <1>14, <1>15, <1>16, <1>17, <1>18, <1>19 DEF BridgeInv

\* Requests that go away, one or all.
LEMMA RequestsEnd ==
    ASSUME BridgeInv, serving' \in [Handlers -> Serving],
           \A g \in Handlers : serving'[g].at # "idle" => serving'[g] = serving[g],
           \A g \in Handlers : serving[g].at \in {"history", "complete"} =>
             serving'[g] = serving[g] \/ serving[g].turn \in died',
           died \subseteq died' /\ died' \subseteq TurnIds,
           spent' \in [actions : Nat, finalizes : Nat, deaths : Nat],
           UNCHANGED <<mode, turns, rows, bridgeHistory, told, corrections, overlapped, raced, openAt>>
    PROVE  BridgeInv'
<1>0. BridgeTypes /\ Opening /\ Alone /\ JudgedWell /\ JudgedOnAll /\ CorrectedOnce
      /\ AnsweredOnce /\ ToldWell /\ UserRows /\ HistoryInTurn
  BY DEF BridgeInv
<1>1. TurnIds' = TurnIds
  BY DEF TurnIds
<1>2. \A g \in Handlers : serving'[g].at # "idle" =>
        serving'[g] = serving[g] /\ serving[g].turn \in TurnIds
  BY <1>0 DEF BridgeTypes
<1>3. \A g \in Handlers : serving'[g].at \in Stages => serving'[g] = serving[g]
  BY <1>2 DEF Stages
<1>4. BridgeTypes'
  BY <1>0, <1>1, <1>2 DEF BridgeTypes
<1>5. Opening'
  <2>1. \A g \in Handlers : serving'[g].at = "bootstrap" => serving'[g] = serving[g]
    BY <1>2
  <2>2. \A g \in Handlers : serving'[g].at \in Stages \cup {"acting"} =>
          serving'[g].turn \in TurnIds /\ turns[serving'[g].turn].asked # <<>>
    BY <1>0, <1>2 DEF Opening, Stages
  <2>3. \A u \in TurnIds : turns[u].asked = <<>> =>
          turns[u].status # "completed" /\ AnswerRows(u)' = AnswerRows(u)
    BY <1>0, RowsStay DEF Opening
  <2> QED BY <1>0, <1>1, <2>1, <2>2, <2>3, OpeningStays
<1>6. Alone'
  BY <1>0, <1>3, AloneStays
<1>7. JudgedWell'
  BY <1>0, <1>1, <1>3, JudgedWellStays DEF Stages
<1>8. JudgedOnAll'
  BY <1>0, <1>3, JudgedOnAllStays
<1>9. CorrectedOnce'
  BY <1>0, <1>1, <1>3, CorrectedStays DEF Stages
<1>10. AnsweredOnce'
  BY <1>0, <1>1, AnsweredStays
<1>11. ToldWell'
  BY <1>0, <1>1, <1>3, ToldStays DEF Stages
<1>12. UserRows'
  BY <1>0, <1>1, UserRowsStay
<1>13. HistoryInTurn'
  BY <1>0, <1>1, <1>3, HistoryStays DEF Stages
<1> QED BY <1>4, <1>5, <1>6, <1>7, <1>8, <1>9, <1>10, <1>11, <1>12, <1>13 DEF BridgeInv

LEMMA NoValidatorKeeps ==
    ASSUME BridgeInv, NEW h \in Handlers, NoValidator(h)
    PROVE  BridgeInv'
<1>1. /\ serving[h].at = "judge" /\ Returns(h)
      /\ UNCHANGED <<mode, turns, rows, bridgeHistory, told, corrections, overlapped, raced, died,
                     openAt, spent>>
  BY DEF NoValidator, ghosts
<1>2. BridgeTypes
  BY DEF BridgeInv
<1>3. /\ serving' \in [Handlers -> Serving] /\ serving'[h].at = "idle"
      /\ \A g \in Handlers : g # h => serving'[g] = serving[g]
  BY <1>1, <1>2, RequestReturns
<1>4. died' \subseteq TurnIds /\ spent' \in [actions : Nat, finalizes : Nat, deaths : Nat]
  BY <1>1, <1>2 DEF BridgeTypes
<1> QED BY <1>1, <1>3, <1>4, RequestsEnd

LEMMA DeathKeeps ==
    ASSUME BridgeInv, BridgeCrash
    PROVE  BridgeInv'
<1>1. /\ died' = died \cup {serving[h].turn : h \in {h \in Handlers : serving[h] # Idle}}
      /\ serving' = [h \in Handlers |-> Idle]
      /\ spent' = [spent EXCEPT !.deaths = spent.deaths + 1]
      /\ UNCHANGED <<mode, turns, rows, bridgeHistory, told, corrections, overlapped, raced, openAt>>
  BY DEF BridgeCrash
<1>2. BridgeTypes
  BY DEF BridgeInv
<1>3. \A h \in Handlers : serving'[h].at = "idle"
  BY <1>1 DEF Idle
<1>4. serving' \in [Handlers -> Serving]
  BY <1>1 DEF Serving
<1>5. \A h \in Handlers : serving[h] # Idle => serving[h].at # "idle"
  BY <1>2 DEF BridgeTypes, Serving, Bootstrap, Acting, Finalization, Stages
<1>6. died' \subseteq TurnIds /\ died \subseteq died'
  BY <1>1, <1>2, <1>5 DEF BridgeTypes
<1>7. \A h \in Handlers : serving[h].at \in {"history", "complete"} => serving[h].turn \in died'
  BY <1>1 DEF Idle
<1>8. spent' \in [actions : Nat, finalizes : Nat, deaths : Nat]
  BY <1>1, <1>2, SpentMore
<1> QED BY <1>1, <1>3, <1>4, <1>6, <1>7, <1>8, RequestsEnd

\* A caller that asks again is told what is stored.
LEMMA RepeatKeeps ==
    ASSUME BridgeInv, NEW h \in Handlers, NEW t \in Known, AlreadyFinalized(h, t)
    PROVE  BridgeInv'
<1>0. BridgeTypes /\ Opening /\ Alone /\ JudgedWell /\ JudgedOnAll /\ CorrectedOnce
      /\ AnsweredOnce /\ ToldWell /\ UserRows /\ HistoryInTurn
  BY DEF BridgeInv
<1>1. /\ turns[t].status = "completed" /\ AnswerRows(t) # {}
      /\ told' = [told EXCEPT ![t] = @ \cup {Stored(t)}]
      /\ UNCHANGED <<mode, turns, rows, bridgeHistory, serving, corrections, overlapped, raced, died,
                     openAt, spent>>
  BY DEF AlreadyFinalized
<1>2. t \in TurnIds /\ turns[t].asked # <<>> /\ TurnIds' = TurnIds
  BY <1>1 DEF Known, TurnIds
<1>3. Stored(t) \in AnswerTexts(t) /\ Stored(t) \in Nat
  BY <1>0, <1>1, StoredIs
<1>4. /\ told' \in Seq(SUBSET Nat) /\ Len(told') = Len(told)
      /\ told'[t] = told[t] \cup {Stored(t)} /\ \A u \in TurnIds : u # t => told'[u] = told[u]
  BY <1>0, <1>1, <1>2, <1>3 DEF BridgeTypes, TurnIds
<1>5. BridgeTypes'
  BY <1>0, <1>1, <1>2, <1>4 DEF BridgeTypes
<1>6. Opening'
  <2>1. \A u \in TurnIds : turns[u].asked = <<>> =>
          /\ turns[u].status # "completed" /\ told'[u] = told[u] /\ AnswerRows(u)' = AnswerRows(u)
    BY <1>0, <1>1, <1>2, <1>4, RowsStay DEF Opening
  <2>2. \A g \in Handlers : serving'[g].at \in Stages \cup {"acting"} =>
          serving'[g].turn \in TurnIds /\ turns[serving'[g].turn].asked # <<>>
    BY <1>0, <1>1 DEF Opening, BridgeTypes, Stages
  <2> QED BY <1>0, <1>1, <1>2, <2>1, <2>2, OpeningStays
<1>7. Alone'
  BY <1>0, <1>1, AloneStays
<1>8. JudgedWell'
  BY <1>0, <1>1, <1>2, JudgedWellStays
<1>9. JudgedOnAll'
  BY <1>0, <1>1, JudgedOnAllStays
<1>10. CorrectedOnce'
  BY <1>0, <1>1, <1>2, CorrectedStays
<1>11. AnsweredOnce'
  BY <1>0, <1>1, <1>2, AnsweredStays
<1>12. ToldWell'
  <2>1. \A u : Stored(u)' = Stored(u) /\ AnswerTexts(u)' = AnswerTexts(u)
    BY <1>1, RowsStay
  <2>2. \A u : At(u, {"history", "complete"})' = At(u, {"history", "complete"})
    BY <1>1 DEF At
  <2>3. \A u \in TurnIds : told'[u] \subseteq AnswerTexts(u)
    BY <1>0, <1>3, <1>4 DEF ToldWell
  <2>4. \A u \in TurnIds \ overlapped :
          told'[u] # {} => turns[u].status = "completed" /\ told'[u] = {Stored(u)}
    BY <1>0, <1>1, <1>4 DEF ToldWell
  <2>5. \A u \in TurnIds : \A g \in At(u, {"history", "complete"}) :
          /\ serving[g].text \in AnswerTexts(u)
          /\ u \notin overlapped => Stored(u) = serving[g].text
    BY <1>0 DEF ToldWell
  <2> HIDE DEF AnswerTexts, Stored, At
  <2> QED BY <1>1, <1>2, <2>1, <2>2, <2>3, <2>4, <2>5 DEF ToldWell
<1>13. UserRows'
  BY <1>0, <1>1, <1>2, UserRowsStay
<1>14. HistoryInTurn'
  BY <1>0, <1>1, <1>2, HistoryStays
<1> QED BY <1>5, <1>6, <1>7, <1>8, <1>9, <1>10, <1>11, <1>12, <1>13, <1>14 DEF BridgeInv

-----------------------------------------------------------------------------
(* Judging a draft *)

\* A verdict more is a rejection more, or none.
LEMMA RejectionsGrow ==
    ASSUME NEW t, NEW v \in Verdict, turns[t].verdicts \in Seq(Verdict),
           turns'[t].verdicts = Append(turns[t].verdicts, v)
    PROVE  /\ Rejections(t) \in Nat
           /\ Rejections(t)' = Rejections(t) + (IF v.accepted THEN 0 ELSE 1)
<1> DEFINE s == turns[t].verdicts
           n == Len(s)
           S == {k \in 1..n : ~s[k].accepted}
<1>1. n \in Nat /\ DOMAIN s = 1..n
  OBVIOUS
<1>2. Rejections(t) = Cardinality(S)
  BY <1>1 DEF Rejections
<1>3. IsFiniteSet(S) /\ Cardinality(S) \in Nat
  <2>1. IsFiniteSet(1..n)
    BY <1>1, FS_Interval
  <2>2. S \subseteq 1..n
    OBVIOUS
  <2> HIDE DEF S, n
  <2> QED BY <2>1, <2>2, FS_Subset, FS_CardinalityType
<1>4. /\ DOMAIN Append(s, v) = 1..(n + 1) /\ Append(s, v)[n + 1] = v
      /\ \A k \in 1..n : Append(s, v)[k] = s[k]
  OBVIOUS
<1>5. Rejections(t)' = Cardinality({k \in 1..(n + 1) : ~Append(s, v)[k].accepted})
  BY <1>4 DEF Rejections
<1> HIDE DEF s, n
<1>6. CASE v.accepted
  <2>1. {k \in 1..(n + 1) : ~Append(s, v)[k].accepted} = S
    BY <1>1, <1>4, <1>6
  <2>2. Rejections(t)' = Rejections(t) /\ Rejections(t) \in Nat
    BY <1>2, <1>3, <1>5, <2>1
  <2>3. (IF v.accepted THEN 0 ELSE 1) = 0
    BY <1>6
  <2> HIDE DEF S
  <2> QED BY <2>2, <2>3
<1>7. CASE ~v.accepted
  <2>1. {k \in 1..(n + 1) : ~Append(s, v)[k].accepted} = S \cup {n + 1}
    BY <1>1, <1>4, <1>7
  <2>2. n + 1 \notin S
    BY <1>1
  <2> HIDE DEF S
  <2>3. Cardinality(S \cup {n + 1}) = Cardinality(S) + 1
    BY <1>3, <2>2, FS_AddElement
  <2>4. Rejections(t)' = Rejections(t) + 1 /\ Rejections(t) \in Nat
    BY <1>2, <1>3, <1>5, <2>1, <2>3
  <2>5. (IF v.accepted THEN 0 ELSE 1) = 1
    BY <1>7
  <2> QED BY <2>4, <2>5
<1> QED BY <1>6, <1>7

LEMMA RejectionsType ==
    ASSUME BridgeTypes, NEW t \in TurnIds
    PROVE  Rejections(t) \in Nat
<1>1. Len(turns[t].verdicts) \in Nat /\ DOMAIN turns[t].verdicts = 1..Len(turns[t].verdicts)
  <2>1. turns[t] \in Turn
    BY DEF BridgeTypes, TurnIds
  <2>2. turns[t].verdicts \in Seq(Verdict)
    BY <2>1 DEF Turn
  <2> QED BY <2>2
<1>2. IsFiniteSet(1..Len(turns[t].verdicts))
  <2>1. Len(turns[t].verdicts) \in Int /\ 1 \in Int
    BY <1>1
  <2> QED BY <2>1, FS_Interval
<1>3. {k \in DOMAIN turns[t].verdicts : ~turns[t].verdicts[k].accepted}
        \subseteq 1..Len(turns[t].verdicts)
  BY <1>1
<1> QED BY <1>2, <1>3, FS_Subset, FS_CardinalityType DEF Rejections

\* A draft is judged, and goes on, is rejected or is refused.
LEMMA VerdictKeeps ==
    ASSUME BridgeInv, NEW h \in Handlers, serving[h].at = "judge",
           NEW judged \in {"pass", "fail", "unknown"}, NEW accepted \in BOOLEAN,
           Records(h, judged, accepted),
           NEW next \in {"store", "rejected", "idle"},
           IF next = "idle" THEN Returns(h) ELSE Goes(h, next),
           next = "store" /\ mode = "active" => judged = "pass",
           next = "rejected" => ~accepted,
           UNCHANGED <<mode, rows, bridgeHistory, ghosts>>
    PROVE  BridgeInv'
<1> DEFINE t == serving[h].turn
           v == [judged |-> judged, accepted |-> accepted]
           e == [turns[t] EXCEPT !.verdicts = Append(@, v)]
<1>0. BridgeTypes /\ Opening /\ Alone /\ JudgedWell /\ JudgedOnAll /\ CorrectedOnce
      /\ AnsweredOnce /\ ToldWell /\ UserRows /\ HistoryInTurn
  BY DEF BridgeInv
<1>1. UNCHANGED <<mode, rows, bridgeHistory, told, corrections, overlapped, raced, died, openAt, spent>>
  BY DEF ghosts
<1>2. t \in TurnIds /\ t \in Nat
  BY <1>0, FinalizerIs DEF Stages
<1>v. v \in Verdict /\ v.judged = judged /\ v.accepted = accepted
  BY DEF Verdict
<1>3. /\ e \in Turn /\ e.status = turns[t].status /\ e.asked = turns[t].asked
      /\ e.base = turns[t].base /\ e.calls = turns[t].calls
      /\ e.verdicts = Append(turns[t].verdicts, v) /\ turns[t].verdicts \in Seq(Verdict)
  <2>1. turns[t] \in Turn
    BY <1>0, <1>2 DEF BridgeTypes, TurnIds
  <2> HIDE DEF v
  <2>2. Append(turns[t].verdicts, v) \in Seq(Verdict)
    BY <1>v, <2>1 DEF Turn
  <2> QED BY <2>1, <2>2 DEF Turn
<1>4. /\ turns' \in Seq(Turn) /\ Len(turns') = Len(turns) /\ TurnIds' = TurnIds
      /\ turns'[t] = e /\ \A u \in TurnIds : u # t => turns'[u] = turns[u]
  <2>1. turns' = [turns EXCEPT ![t] = e]
    BY DEF Records
  <2> HIDE DEF e
  <2> QED BY <1>0, <1>2, <1>3, <2>1, TurnChanges
<1> HIDE DEF e, v
<1>5. /\ serving' \in [Handlers -> Serving] /\ serving'[h].at = next
      /\ next # "idle" => /\ serving'[h].turn = t /\ serving'[h].text = serving[h].text
                          /\ serving'[h].on = serving[h].on
      /\ \A g \in Handlers : g # h => serving'[g] = serving[g]
  <2>1. CASE next = "idle"
    BY <1>0, <2>1, RequestReturns
  <2>2. CASE next # "idle"
    <3>1. Goes(h, next) /\ next \in Stages /\ serving[h].at \in Stages
      BY <2>2 DEF Stages
    <3> QED BY <1>0, <3>1, FinalizerGoes
  <2> QED BY <2>1, <2>2
<1>6. \A g \in Handlers : serving'[g].at # "idle" =>
        /\ serving'[g].turn = serving[g].turn /\ serving[g].turn \in TurnIds
        /\ serving[g].at \in Stages => serving'[g].text = serving[g].text /\ serving'[g].on = serving[g].on
        /\ serving'[g].at \in Stages => serving[g].at \in Stages
        /\ serving'[g].at \notin {"store", "rejected"} => serving'[g] = serving[g]
  <2> SUFFICES ASSUME NEW g \in Handlers, serving'[g].at # "idle"
               PROVE  /\ serving'[g].turn = serving[g].turn /\ serving[g].turn \in TurnIds
                      /\ serving[g].at \in Stages =>
                           serving'[g].text = serving[g].text /\ serving'[g].on = serving[g].on
                      /\ serving'[g].at \in Stages => serving[g].at \in Stages
                      /\ serving'[g].at \notin {"store", "rejected"} => serving'[g] = serving[g]
    OBVIOUS
  <2>1. CASE g = h
    BY <1>2, <1>5, <2>1 DEF Stages
  <2>2. CASE g # h
    BY <1>0, <1>5, <2>2 DEF BridgeTypes
  <2> QED BY <2>1, <2>2
<1>7. \A u \in TurnIds : /\ turns'[u].status = turns[u].status /\ turns'[u].asked = turns[u].asked
                         /\ turns'[u].base = turns[u].base /\ turns'[u].calls = turns[u].calls
  BY <1>3, <1>4
<1>8. BridgeTypes'
  <2>1. \A g \in Handlers : serving'[g].at # "idle" => serving'[g].turn \in TurnIds
    BY <1>6
  <2> QED BY <1>0, <1>1, <1>4, <1>5, <2>1 DEF BridgeTypes
<1>9. Opening'
  <2>1. \A g \in Handlers : serving'[g].at = "bootstrap" =>
          /\ serving[g].at = "bootstrap" /\ serving'[g].turn = serving[g].turn
          /\ turns'[serving[g].turn].status = turns[serving[g].turn].status
    BY <1>6, <1>7
  <2>2. \A g \in Handlers : serving'[g].at \in Stages \cup {"acting"} =>
          serving'[g].turn \in TurnIds /\ turns[serving'[g].turn].asked # <<>>
    BY <1>0, <1>6 DEF Opening, Stages
  <2>3. \A u \in TurnIds : turns[u].asked = <<>> =>
          /\ turns'[u].status # "completed" /\ openAt'[u] = openAt[u] /\ told'[u] = told[u]
          /\ AnswerRows(u)' = AnswerRows(u)
    BY <1>0, <1>1, <1>7, RowsStay DEF Opening
  <2> QED BY <1>0, <1>4, <1>7, <2>1, <2>2, <2>3, OpeningStays
<1>10. \A g \in Handlers : serving'[g].at \in Stages =>
         /\ serving[g].at \in Stages /\ serving'[g].turn = serving[g].turn
         /\ serving[g].turn \in TurnIds
         /\ serving'[g].text = serving[g].text /\ serving'[g].on = serving[g].on
  BY <1>6 DEF Stages
<1>11. Alone'
  BY <1>0, <1>1, <1>7, <1>10, AloneStays
<1>12. JudgedOnAll'
  BY <1>0, <1>1, <1>7, <1>10, JudgedOnAllStays
<1>13. JudgedWell'
  <2> SUFFICES ASSUME mode = "active", NEW u \in TurnIds \ overlapped,
                      \/ turns'[u].status = "completed"
                      \/ At(u, {"store", "history", "complete"})' # {}
               PROVE  Passed(u)'
    BY <1>1, <1>4 DEF JudgedWell
  <2>1. CASE u # t
    <3>1. At(u, {"store", "history", "complete"})' \subseteq At(u, {"store", "history", "complete"})
      BY <1>5, <2>1 DEF At
    <3>2. Passed(u)
      BY <1>0, <1>7, <3>1 DEF JudgedWell
    <3> QED BY <1>4, <2>1, <3>2 DEF Passed
  <2>2. CASE u = t
    <3>1. turns[u].status = "started" /\ \A g \in Handlers :
            serving[g].at \in Stages /\ serving[g].turn = u => g = h
      BY <1>0, <2>2 DEF Alone, Stages
    <3>2. PICK g \in At(u, {"store", "history", "complete"})' : TRUE
      BY <1>7, <3>1
    <3>3. g \in Handlers /\ serving'[g].at \in {"store", "history", "complete"} /\ serving'[g].turn = u
      BY <3>2 DEF At
    <3>4. serving[g].at \in Stages /\ serving[g].turn = u
      BY <1>10, <3>3 DEF Stages
    <3>5. g = h
      BY <3>1, <3>3, <3>4
    <3>6. next = "store"
      BY <1>5, <3>3, <3>5
    <3>7. turns'[u].verdicts = Append(turns[u].verdicts, v) /\ v.judged = "pass"
      BY <1>v, <1>3, <1>4, <2>2, <3>6
    <3>8. Append(turns[u].verdicts, v) # <<>> /\ Last(Append(turns[u].verdicts, v)) = v
      <4>1. v \in Verdict /\ turns[u].verdicts \in Seq(Verdict)
        BY <1>v, <1>3, <2>2
      <4> QED BY <4>1 DEF Last
    <3> QED BY <3>7, <3>8 DEF Passed
  <2> QED BY <2>1, <2>2
<1>14. CorrectedOnce'
  <2> SUFFICES ASSUME NEW u \in TurnIds
               PROVE  /\ corrections[u] <= 1 /\ corrections[u] <= Rejections(u)'
                      /\ \A g \in At(u, {"rejected"})' :
                           /\ corrections[u] + 1 <= Rejections(u)'
                           /\ \A f \in At(u, {"rejected"})' : f # g => 2 <= Rejections(u)'
    BY <1>1, <1>4 DEF CorrectedOnce
  <2>c. /\ corrections[u] \in Nat /\ Rejections(u) \in Nat
        /\ corrections[u] <= 1 /\ corrections[u] <= Rejections(u)
        /\ \A g \in At(u, {"rejected"}) :
             /\ corrections[u] + 1 <= Rejections(u)
             /\ \A f \in At(u, {"rejected"}) : f # g => 2 <= Rejections(u)
    <3>1. corrections[u] \in Nat /\ Rejections(u) \in Nat
      BY <1>0, RejectionsType DEF BridgeTypes, TurnIds
    <3>2. CorrectedOnce
      BY <1>0
    <3> HIDE DEF Rejections, At
    <3> QED BY <3>1, <3>2 DEF CorrectedOnce
  <2>1. CASE u # t
    <3>1. Rejections(u)' = Rejections(u)
      BY <1>4, <2>1 DEF Rejections
    <3>2. At(u, {"rejected"})' \subseteq At(u, {"rejected"})
      BY <1>5, <2>1 DEF At
    <3> QED BY <2>c, <3>1, <3>2
  <2>2. CASE u = t
    <3>1. Rejections(u)' = Rejections(u) + (IF accepted THEN 0 ELSE 1)
      BY <1>v, <1>3, <1>4, <2>2, RejectionsGrow
    <3>2. At(u, {"rejected"})' \subseteq At(u, {"rejected"}) \cup {h}
      BY <1>5 DEF At
    <3>3. CASE next = "rejected"
      <4>1. Rejections(u)' = Rejections(u) + 1
        BY <3>1, <3>3
      <4>2. \A g \in At(u, {"rejected"}) : 1 <= Rejections(u)
        BY <2>c
      <4>3. \A g, f \in At(u, {"rejected"})' : f # g => \E k \in At(u, {"rejected"}) : TRUE
        BY <3>2
      <4>4. ASSUME NEW g \in At(u, {"rejected"})', NEW f \in At(u, {"rejected"})', f # g
            PROVE  2 <= Rejections(u)'
        <5>1. 1 <= Rejections(u)
          BY <4>2, <4>3, <4>4
        <5> QED BY <2>c, <4>1, <5>1
      <4>5. corrections[u] + 1 <= Rejections(u)' /\ corrections[u] <= Rejections(u)'
        BY <2>c, <4>1
      <4> QED BY <2>c, <4>4, <4>5
    <3>4. CASE next # "rejected"
      <4>1. At(u, {"rejected"})' \subseteq At(u, {"rejected"})
        BY <1>5, <3>4 DEF At
      <4>2. Rejections(u)' >= Rejections(u) /\ Rejections(u)' \in Nat
        BY <2>c, <3>1
      <4>3. ASSUME NEW g \in At(u, {"rejected"})'
            PROVE  /\ corrections[u] + 1 <= Rejections(u)'
                   /\ \A f \in At(u, {"rejected"})' : f # g => 2 <= Rejections(u)'
        BY <2>c, <4>1, <4>2
      <4> QED BY <2>c, <4>2, <4>3
    <3> QED BY <3>3, <3>4
  <2> QED BY <2>1, <2>2
<1>15. AnsweredOnce'
  <2>1. \A g \in Handlers : serving[g].at \in {"history", "complete"} =>
          serving'[g].at \in {"history", "complete"} /\ serving'[g].turn = serving[g].turn
    BY <1>5
  <2> QED BY <1>0, <1>1, <1>4, <1>7, <2>1, AnsweredStays
<1>16. ToldWell'
  <2>1. \A g \in Handlers : serving'[g].at \in {"history", "complete"} => serving'[g] = serving[g]
    BY <1>6
  <2> QED BY <1>0, <1>1, <1>4, <1>7, <2>1, ToldStays
<1>17. UserRows'
  BY <1>0, <1>1, <1>4, UserRowsStay
<1>18. HistoryInTurn'
  <2>1. \A g \in Handlers : serving'[g].at = "complete" => serving'[g] = serving[g]
    BY <1>6
  <2> QED BY <1>0, <1>1, <1>4, <1>7, <2>1, HistoryStays
<1> QED BY <1>8, <1>9, <1>11, <1>12, <1>13, <1>14, <1>15, <1>16, <1>17, <1>18 DEF BridgeInv

LEMMA JudgingKeeps ==
    ASSUME BridgeInv, NEW h \in Handlers, ValidatorFails(h) \/ DraftPasses(h) \/ DraftFails(h)
    PROVE  BridgeInv'
<1>1. CASE ValidatorFails(h)
  <2>1. CASE mode = "active"
    BY <1>1, <2>1, VerdictKeeps DEF ValidatorFails
  <2>2. CASE mode # "active"
    BY <1>1, <2>2, VerdictKeeps DEF ValidatorFails
  <2> QED BY <2>1, <2>2
<1>2. CASE DraftPasses(h)
  BY <1>2, VerdictKeeps DEF DraftPasses
<1>3. CASE DraftFails(h)
  <2>1. CASE mode = "active"
    BY <1>3, <2>1, VerdictKeeps DEF DraftFails
  <2>2. CASE mode # "active"
    BY <1>3, <2>2, VerdictKeeps DEF DraftFails
  <2> QED BY <2>1, <2>2
<1> QED BY <1>1, <1>2, <1>3

\* The first rejection is answered, the next fails the turn.
LEMMA RejectKeeps ==
    ASSUME BridgeInv, NEW h \in Handlers, RejectDraft(h)
    PROVE  BridgeInv'
<1> DEFINE t == serving[h].turn
<1>0. BridgeTypes /\ Opening /\ Alone /\ JudgedWell /\ JudgedOnAll /\ CorrectedOnce
      /\ AnsweredOnce /\ ToldWell /\ UserRows /\ HistoryInTurn
  BY DEF BridgeInv
<1>1. /\ serving[h].at = "rejected" /\ Returns(h)
      /\ UNCHANGED <<mode, rows, bridgeHistory, told, overlapped, raced, died, openAt, spent>>
  BY DEF RejectDraft
<1>2. t \in TurnIds /\ t \in Nat /\ Rejections(t) \in Nat /\ turns[t].asked # <<>>
  BY <1>0, <1>1, FinalizerIs, RejectionsType DEF Stages, Opening
<1>3. \/ /\ Rejections(t) > 1 /\ turns' = [turns EXCEPT ![t].status = "failed"]
         /\ UNCHANGED corrections
      \/ /\ Rejections(t) <= 1 /\ corrections' = [corrections EXCEPT ![t] = @ + 1]
         /\ UNCHANGED turns
  BY <1>2 DEF RejectDraft
<1>4. /\ turns' \in Seq(Turn) /\ Len(turns') = Len(turns) /\ TurnIds' = TurnIds
      /\ \A u \in TurnIds : u # t => turns'[u] = turns[u]
      /\ turns'[t].asked = turns[t].asked /\ turns'[t].base = turns[t].base
      /\ turns'[t].calls = turns[t].calls /\ turns'[t].verdicts = turns[t].verdicts
      /\ turns'[t].status \in {turns[t].status, "failed"}
  <2>1. CASE turns' = turns
    BY <1>0, <2>1 DEF BridgeTypes, TurnIds
  <2>2. CASE turns' # turns
    <3> DEFINE e == [turns[t] EXCEPT !.status = "failed"]
    <3>1. turns' = [turns EXCEPT ![t] = e]
      BY <1>3, <2>2
    <3>2. turns[t] \in Turn
      BY <1>0, <1>2 DEF BridgeTypes, TurnIds
    <3>3. /\ e \in Turn /\ e.status = "failed" /\ e.asked = turns[t].asked
          /\ e.base = turns[t].base /\ e.calls = turns[t].calls /\ e.verdicts = turns[t].verdicts
      BY <3>2 DEF Turn
    <3> HIDE DEF e
    <3> QED BY <1>0, <1>2, <3>1, <3>3, TurnChanges
  <2> QED BY <2>1, <2>2
<1>5. /\ serving' \in [Handlers -> Serving] /\ serving'[h].at = "idle"
      /\ \A g \in Handlers : g # h => serving'[g] = serving[g]
  BY <1>0, <1>1, RequestReturns
<1>6. \A g \in Handlers : serving'[g].at # "idle" =>
        g # h /\ serving'[g] = serving[g] /\ serving[g].turn \in TurnIds
  BY <1>0, <1>5 DEF BridgeTypes
<1>7. \A u \in TurnIds : /\ turns'[u].asked = turns[u].asked /\ turns'[u].base = turns[u].base
                         /\ turns'[u].calls = turns[u].calls /\ turns'[u].verdicts = turns[u].verdicts
                         /\ turns'[u].status = "completed" => turns[u].status = "completed"
  BY <1>4
<1>8. t \notin overlapped => /\ turns[t].status = "started"
                             /\ \A g \in Handlers :
                                  serving[g].at \in Stages /\ serving[g].turn = t => g = h
  BY <1>0, <1>1 DEF Alone, Stages
<1>9. \A u \in TurnIds \ overlapped : turns[u].status = "completed" => turns'[u].status = "completed"
  BY <1>4, <1>8
<1>c. corrections' \in Seq(Nat) /\ Len(corrections') = Len(corrections)
      /\ (\A u \in TurnIds : u # t => corrections'[u] = corrections[u])
      /\ (Rejections(t) > 1 => corrections'[t] = corrections[t])
      /\ (Rejections(t) <= 1 => corrections'[t] = corrections[t] + 1)
  <2>1. corrections \in [1..Len(turns) -> Nat] /\ Len(corrections) = Len(turns) /\ Len(turns) \in Nat
    BY <1>0 DEF BridgeTypes
  <2>2. t \in 1..Len(turns) /\ TurnIds = 1..Len(turns)
    BY <1>0, <1>2 DEF BridgeTypes, TurnIds
  <2>3. CASE Rejections(t) > 1
    <3>1. corrections' = corrections
      BY <1>2, <1>3, <2>3
    <3> QED BY <1>0, <1>2, <2>3, <3>1 DEF BridgeTypes
  <2>4. CASE Rejections(t) <= 1
    <3>1. corrections' = [corrections EXCEPT ![t] = corrections[t] + 1]
      BY <1>2, <1>3, <2>4
    <3>2. corrections' \in [1..Len(turns) -> Nat]
      BY <2>1, <2>2, <3>1
    <3> QED BY <1>2, <2>1, <2>2, <2>4, <3>1, <3>2
  <2> QED BY <1>2, <2>3, <2>4
<1>10. BridgeTypes'
  <2>1. \A g \in Handlers : serving'[g].at # "idle" => serving'[g].turn \in TurnIds
    BY <1>6
  <2> QED BY <1>0, <1>1, <1>4, <1>5, <1>c, <2>1 DEF BridgeTypes
<1>11. Opening'
  <2>1. \A g \in Handlers : serving'[g].at = "bootstrap" =>
          /\ serving[g].at = "bootstrap" /\ serving'[g].turn = serving[g].turn
          /\ turns'[serving[g].turn].status = turns[serving[g].turn].status
    <3>1. \A g \in Handlers : serving[g].at = "bootstrap" => serving[g].turn # t
      BY <1>0, <1>2 DEF Opening
    <3> QED BY <1>4, <1>6, <3>1
  <2>2. \A g \in Handlers : serving'[g].at \in Stages \cup {"acting"} =>
          serving'[g].turn \in TurnIds /\ turns[serving'[g].turn].asked # <<>>
    BY <1>0, <1>6 DEF Opening, Stages
  <2>3. \A u \in TurnIds : turns[u].asked = <<>> =>
          /\ turns'[u].status # "completed" /\ openAt'[u] = openAt[u] /\ told'[u] = told[u]
          /\ AnswerRows(u)' = AnswerRows(u)
    BY <1>0, <1>1, <1>7, RowsStay DEF Opening
  <2> QED BY <1>0, <1>4, <1>7, <2>1, <2>2, <2>3, OpeningStays
<1>12. \A g \in Handlers : serving'[g].at \in Stages =>
         g # h /\ serving'[g] = serving[g] /\ serving[g].turn \in TurnIds
  BY <1>6 DEF Stages
<1>13. Alone'
  <2>1. \A g \in Handlers : serving'[g].at \in Stages =>
          /\ serving[g].at \in Stages /\ serving'[g].turn = serving[g].turn
          /\ serving[g].turn \notin overlapped =>
               turns'[serving[g].turn].status = turns[serving[g].turn].status
    BY <1>4, <1>8, <1>12
  <2> QED BY <1>0, <1>1, <2>1, AloneStays
<1>14. JudgedWell'
  BY <1>0, <1>1, <1>4, <1>7, <1>12, JudgedWellStays DEF Stages
<1>15. JudgedOnAll'
  BY <1>0, <1>1, <1>7, <1>12, JudgedOnAllStays
<1>16. CorrectedOnce'
  <2> SUFFICES ASSUME NEW u \in TurnIds
               PROVE  /\ corrections'[u] <= 1 /\ corrections'[u] <= Rejections(u)'
                      /\ \A g \in At(u, {"rejected"})' :
                           /\ corrections'[u] + 1 <= Rejections(u)'
                           /\ \A f \in At(u, {"rejected"})' : f # g => 2 <= Rejections(u)'
    BY <1>4 DEF CorrectedOnce
  <2>c. /\ corrections[u] \in Nat /\ Rejections(u) \in Nat
        /\ corrections[u] <= 1 /\ corrections[u] <= Rejections(u)
        /\ \A g \in At(u, {"rejected"}) :
             /\ corrections[u] + 1 <= Rejections(u)
             /\ \A f \in At(u, {"rejected"}) : f # g => 2 <= Rejections(u)
    <3>1. corrections[u] \in Nat /\ Rejections(u) \in Nat
      BY <1>0, RejectionsType DEF BridgeTypes, TurnIds
    <3>2. CorrectedOnce
      BY <1>0
    <3> HIDE DEF Rejections, At
    <3> QED BY <3>1, <3>2 DEF CorrectedOnce
  <2>1. Rejections(u)' = Rejections(u)
    BY <1>7 DEF Rejections
  <2>2. At(u, {"rejected"})' \subseteq At(u, {"rejected"}) \ {h}
    BY <1>5, <1>6 DEF At
  <2>3. CASE u # t \/ Rejections(t) > 1
    <3>1. corrections'[u] = corrections[u]
      BY <1>c, <2>3
    <3> QED BY <2>c, <2>1, <2>2, <3>1
  <2>4. CASE u = t /\ Rejections(t) <= 1
    <3>1. h \in At(u, {"rejected"})
      BY <1>1, <2>4 DEF At
    <3>2. corrections[u] = 0 /\ Rejections(u) = 1 /\ corrections'[u] = 1
      BY <1>c, <2>c, <2>4, <3>1
    <3>3. At(u, {"rejected"}) \ {h} = {}
      BY <2>c, <3>1, <3>2
    <3> QED BY <2>1, <2>2, <3>2, <3>3
  <2> QED BY <1>2, <2>3, <2>4
<1>17. AnsweredOnce'
  <2>1. \A g \in Handlers : serving[g].at \in {"history", "complete"} => serving'[g] = serving[g]
    BY <1>1, <1>5
  <2> QED BY <1>0, <1>1, <1>4, <1>7, <1>9, <2>1, AnsweredStays
<1>18. ToldWell'
  BY <1>0, <1>1, <1>4, <1>9, <1>12, ToldStays DEF Stages
<1>19. UserRows'
  BY <1>0, <1>1, <1>4, UserRowsStay
<1>20. HistoryInTurn'
  <2>1. InTurn => \A u \in TurnIds :
          \/ turns'[u].status = turns[u].status
          \/ turns[u].status = "started" /\ turns'[u].status = "failed"
    BY <1>4, <1>8 DEF InTurn
  <2> QED BY <1>0, <1>1, <1>4, <1>7, <1>12, <2>1, HistoryStays DEF Stages
<1> QED BY <1>10, <1>11, <1>13, <1>14, <1>15, <1>16, <1>17, <1>18, <1>19, <1>20 DEF BridgeInv

\* What the calls of a turn oblige to are duties.
LEMMA DutiesType ==
    ASSUME BridgeTypes, NEW t \in TurnIds
    PROVE  BridgeDuties(t) \subseteq AnyDuty
<1>1. turns[t] \in Turn
  BY DEF BridgeTypes, TurnIds
<1> DEFINE calls == turns[t].calls
<1>2. calls \in Seq(BridgeCall) /\ turns[t].base \subseteq BridgeBase
  BY <1>1 DEF Turn
<1>3. \A k \in DOMAIN calls : calls[k].id \in Nat
  <2>1. \A k \in DOMAIN calls : calls[k] \in BridgeCall
    BY <1>2
  <2> QED BY <2>1 DEF BridgeCall
<1> HIDE DEF calls
<1>4. ToolDuties(calls) \subseteq [about : {"action", "capability"}, id : Nat]
  BY <1>3 DEF ToolDuties, Duty
<1> QED BY <1>2, <1>4 DEF BridgeDuties, AnyDuty, calls

\* A draft is handed in for an open turn.
LEMMA FinalizeKeeps ==
    ASSUME BridgeInv, NEW h \in Handlers, NEW t \in Known, BeginFinalize(h, t)
    PROVE  BridgeInv'
<1>0. BridgeTypes /\ Opening /\ Alone /\ JudgedWell /\ JudgedOnAll /\ CorrectedOnce
      /\ AnsweredOnce /\ ToldWell /\ UserRows /\ HistoryInTurn
  BY DEF BridgeInv
<1> DEFINE s == [at |-> "judge", turn |-> t, text |-> spent.finalizes + 1, on |-> BridgeDuties(t)]
<1>1. /\ serving[h].at = "idle" /\ turns[t].status = "started"
      /\ serving' = [serving EXCEPT ![h] = s]
      /\ overlapped' = IF Finalizing(t) # {} THEN overlapped \cup {t} ELSE overlapped
      /\ spent' = [spent EXCEPT !.finalizes = spent.finalizes + 1]
      /\ UNCHANGED <<mode, turns, rows, bridgeHistory, told, corrections, raced, died, openAt>>
  BY IdleIs DEF BeginFinalize, MayFinalize
<1>2. t \in TurnIds /\ t \in Nat /\ turns[t].asked # <<>> /\ TurnIds' = TurnIds
  BY <1>0, <1>1 DEF Known, TurnIds, BridgeTypes
<1>3. s \in Serving /\ s.at = "judge" /\ s.turn = t /\ s.on = BridgeDuties(t)
  <2>1. spent.finalizes + 1 \in Nat /\ BridgeDuties(t) \subseteq AnyDuty
    BY <1>0, <1>2, DutiesType DEF BridgeTypes
  <2>2. s \in Finalization
    BY <1>2, <2>1 DEF Finalization, Stages
  <2> QED BY <2>2 DEF Serving
<1> HIDE DEF s
<1>4. /\ serving' \in [Handlers -> Serving] /\ serving'[h] = s
      /\ \A g \in Handlers : g # h => serving'[g] = serving[g]
  BY <1>0, <1>1, <1>3, RequestChanges
<1>5. overlapped \subseteq overlapped' /\ overlapped' \subseteq overlapped \cup {t}
  BY <1>1
<1>6. \A g \in Handlers : serving'[g].at # "judge" => serving'[g] = serving[g]
  BY <1>3, <1>4
<1>7. BridgeTypes'
  <2>1. spent' \in [actions : Nat, finalizes : Nat, deaths : Nat]
    BY <1>0, <1>1, SpentMore
  <2>2. \A g \in Handlers : serving'[g].at # "idle" => serving'[g].turn \in TurnIds
    BY <1>0, <1>2, <1>3, <1>4 DEF BridgeTypes
  <2>3. overlapped' \cup raced \cup died \subseteq TurnIds
    BY <1>0, <1>2, <1>5 DEF BridgeTypes
  <2> QED BY <1>0, <1>1, <1>2, <1>4, <2>1, <2>2, <2>3 DEF BridgeTypes
<1>8. Opening'
  <2>1. \A g \in Handlers : serving'[g].at \in Stages \cup {"acting"} =>
          serving'[g].turn \in TurnIds /\ turns[serving'[g].turn].asked # <<>>
    BY <1>0, <1>2, <1>3, <1>4 DEF Opening, BridgeTypes, Stages
  <2>2. \A u \in TurnIds : turns[u].asked = <<>> =>
          turns[u].status # "completed" /\ AnswerRows(u)' = AnswerRows(u)
    BY <1>0, <1>1, RowsStay DEF Opening
  <2> QED BY <1>0, <1>1, <1>2, <1>6, <2>1, <2>2, OpeningStays
<1>9. Alone'
  <2> SUFFICES ASSUME NEW g \in Handlers, serving'[g].at \in Stages,
                      serving'[g].turn \notin overlapped'
               PROVE  /\ turns[serving'[g].turn].status = "started"
                      /\ \A f \in Handlers :
                           serving'[f].at \in Stages /\ serving'[f].turn = serving'[g].turn => f = g
    BY <1>1 DEF Alone
  <2>1. ASSUME serving'[g].turn = t, NEW f \in Handlers, f # h, serving'[f].at \in Stages
        PROVE  serving'[f].turn # t
    <3>1. Finalizing(t) = {}
      BY <1>1, <2>1
    <3>2. serving'[f] = serving[f]
      BY <1>4, <2>1
    <3> QED BY <2>1, <3>1, <3>2 DEF Finalizing, Stages
  <2>2. CASE g = h
    BY <1>1, <1>3, <1>4, <2>1, <2>2
  <2>3. CASE g # h
    <3>1. serving'[g] = serving[g] /\ serving'[g].turn # t
      BY <1>4, <2>1, <2>3
    <3>2. /\ turns[serving[g].turn].status = "started"
          /\ \A f \in Handlers :
               serving[f].at \in Stages /\ serving[f].turn = serving[g].turn => f = g
      BY <1>0, <1>5, <3>1 DEF Alone
    <3> QED BY <1>3, <1>4, <3>1, <3>2
  <2> QED BY <2>2, <2>3
<1>10. JudgedWell'
  BY <1>0, <1>1, <1>2, <1>5, <1>6, JudgedWellStays
<1>11. JudgedOnAll'
  <2> SUFFICES ASSUME NEW g \in Handlers, serving'[g].at \in Stages, serving'[g].turn \notin raced
               PROVE  /\ turns[serving'[g].turn].base \subseteq serving'[g].on
                      /\ \A k \in DOMAIN turns[serving'[g].turn].calls :
                           turns[serving'[g].turn].calls[k].result # "ok" =>
                             Duty("action", turns[serving'[g].turn].calls[k].id) \in serving'[g].on
    BY <1>1 DEF JudgedOnAll
  <2>1. CASE g = h
    <3>1. serving'[g].turn = t /\ serving'[g].on = BridgeDuties(t)
      BY <1>3, <1>4, <2>1
    <3>2. turns[t].base \subseteq BridgeDuties(t)
          /\ \A k \in DOMAIN turns[t].calls : turns[t].calls[k].result # "ok" =>
               Duty("action", turns[t].calls[k].id) \in BridgeDuties(t)
      BY DEF BridgeDuties, ToolDuties
    <3> QED BY <3>1, <3>2
  <2>2. CASE g # h
    <3>1. serving'[g] = serving[g]
      BY <1>4, <2>2
    <3> QED BY <1>0, <3>1 DEF JudgedOnAll
  <2> QED BY <2>1, <2>2
<1>12. CorrectedOnce'
  BY <1>0, <1>1, <1>2, <1>6, CorrectedStays
<1>13. AnsweredOnce'
  <2>1. \A g \in Handlers : serving[g].at \in {"history", "complete"} => serving'[g] = serving[g]
    BY <1>1, <1>4
  <2> QED BY <1>0, <1>1, <1>2, <1>5, <2>1, AnsweredStays
<1>14. ToldWell'
  BY <1>0, <1>1, <1>2, <1>5, <1>6, ToldStays
<1>15. UserRows'
  BY <1>0, <1>1, <1>2, UserRowsStay
<1>16. HistoryInTurn'
  BY <1>0, <1>1, <1>2, <1>5, <1>6, HistoryStays
<1> QED BY <1>7, <1>8, <1>9, <1>10, <1>11, <1>12, <1>13, <1>14, <1>15, <1>16 DEF BridgeInv

-----------------------------------------------------------------------------
(* An answer that is stored, added to the history and told *)

\* The draft that was accepted is the newest answer of its turn.
LEMMA StoreKeeps ==
    ASSUME BridgeInv, NEW h \in Handlers, StoreBridgeAnswer(h)
    PROVE  BridgeInv'
<1>0. BridgeTypes /\ Opening /\ Alone /\ JudgedWell /\ JudgedOnAll /\ CorrectedOnce
      /\ AnsweredOnce /\ ToldWell /\ UserRows /\ HistoryInTurn
  BY DEF BridgeInv
<1>t. PICK t \in TurnIds, text \in Nat : t = serving[h].turn /\ text = serving[h].text
  BY <1>0, FinalizerIs DEF StoreBridgeAnswer, Stages
<1>1. /\ serving[h].at = "store" /\ rows' = Append(rows, Line(t, "assistant", text))
      /\ Goes(h, "history")
      /\ UNCHANGED <<mode, turns, bridgeHistory, told, corrections, overlapped, raced, died,
                     openAt, spent>>
  BY <1>t DEF StoreBridgeAnswer, ghosts
<1>2. /\ t \in TurnIds /\ t \in Nat /\ text \in Nat /\ TurnIds' = TurnIds
      /\ turns[t].asked # <<>>
  BY <1>0, <1>1, <1>t, FinalizerIs DEF Stages, TurnIds, Opening
<1>3. /\ serving' \in [Handlers -> Serving]
      /\ serving'[h].at = "history" /\ serving'[h].turn = t
      /\ serving'[h].text = text /\ serving'[h].on = serving[h].on
      /\ \A g \in Handlers : g # h => serving'[g] = serving[g]
  BY <1>0, <1>1, <1>t, FinalizerGoes DEF Stages
<1>4. \A g \in Handlers :
        /\ serving'[g].at \in Stages => /\ serving[g].at \in Stages
                                        /\ serving'[g].turn = serving[g].turn
                                        /\ serving'[g].text = serving[g].text
                                        /\ serving'[g].on = serving[g].on
        /\ serving'[g].at \notin Stages => serving'[g] = serving[g]
  BY <1>1, <1>3, <1>t DEF Stages
<1>5. /\ AnswerRows(t)' = AnswerRows(t) \cup {Len(rows) + 1}
      /\ AnswerTexts(t)' = AnswerTexts(t) \cup {text} /\ Stored(t)' = text
  BY <1>0, <1>1, <1>2, NewAnswer
<1>6. \A u \in TurnIds : u # t =>
        /\ AnswerRows(u)' = AnswerRows(u) /\ AnswerTexts(u)' = AnswerTexts(u)
        /\ AnswerRows(u) # {} => Stored(u)' = Stored(u)
  <2>1. Line(t, "assistant", text) \in Row /\ Line(t, "assistant", text).turn = t
    BY <1>2 DEF Row, Line
  <2> QED BY <1>0, <1>1, <2>1, OtherRow
<1>7. t \notin overlapped => /\ turns[t].status = "started"
                             /\ \A g \in Handlers :
                                  serving[g].at \in Stages /\ serving[g].turn = t => g = h
  BY <1>0, <1>1, <1>t DEF Alone, Stages
<1>8. /\ Len(rows) \in Nat /\ DOMAIN rows = 1..Len(rows) /\ DOMAIN rows' = 1..(Len(rows) + 1)
      /\ \A i \in 1..Len(rows) : rows'[i] = rows[i]
      /\ rows'[Len(rows) + 1] = Line(t, "assistant", text)
  BY <1>0, <1>1 DEF BridgeTypes
<1>9. BridgeTypes'
  <2>1. rows' \in Seq(Row)
    <3>1. rows \in Seq(Row) /\ Line(t, "assistant", text) \in Row
      BY <1>0, <1>2 DEF BridgeTypes, Row, Line
    <3> QED BY <1>1, <3>1
  <2>2. \A i \in DOMAIN rows' : rows'[i].turn \in TurnIds
    BY <1>0, <1>2, <1>8 DEF BridgeTypes, Line
  <2>3. \A g \in Handlers : serving'[g].at # "idle" => serving'[g].turn \in TurnIds
    BY <1>0, <1>2, <1>3 DEF BridgeTypes
  <2> QED BY <1>0, <1>1, <1>2, <1>3, <2>1, <2>2, <2>3 DEF BridgeTypes
<1>10. Opening'
  <2>1. \A g \in Handlers : serving'[g].at = "bootstrap" => serving'[g] = serving[g]
    BY <1>3
  <2>2. \A g \in Handlers : serving'[g].at \in Stages \cup {"acting"} =>
          serving'[g].turn \in TurnIds /\ turns[serving'[g].turn].asked # <<>>
    BY <1>0, <1>2, <1>3 DEF Opening, BridgeTypes, Stages
  <2>3. \A u \in TurnIds : turns[u].asked = <<>> =>
          turns[u].status # "completed" /\ AnswerRows(u)' = AnswerRows(u)
    BY <1>0, <1>2, <1>6 DEF Opening
  <2> QED BY <1>0, <1>1, <1>2, <2>1, <2>2, <2>3, OpeningStays
<1>11. Alone'
  BY <1>0, <1>1, <1>4, AloneStays
<1>12. JudgedWell'
  <2>1. \A g \in Handlers : serving'[g].at \in {"store", "history", "complete"} =>
          /\ serving[g].at \in {"store", "history", "complete"}
          /\ serving'[g].turn = serving[g].turn
    BY <1>1, <1>3, <1>t
  <2> QED BY <1>0, <1>1, <1>2, <2>1, JudgedWellStays
<1>13. JudgedOnAll'
  BY <1>0, <1>1, <1>4, JudgedOnAllStays
<1>14. CorrectedOnce'
  <2>1. \A g \in Handlers : serving'[g].at = "rejected" => serving'[g] = serving[g]
    BY <1>3
  <2> QED BY <1>0, <1>1, <1>2, <2>1, CorrectedStays
<1>15. AnsweredOnce'
  <2>1. ASSUME NEW u \in TurnIds \ (overlapped \cup died)
        PROVE  /\ \A i, j \in AnswerRows(u)' : i = j
               /\ AnswerRows(u)' # {} /\ turns[u].status # "completed" =>
                    At(u, {"history", "complete"})' # {}
    <3>1. CASE u = t
      <4>1. AnswerRows(t) = {}
        <5>1. SUFFICES ASSUME AnswerRows(t) # {} PROVE FALSE
          OBVIOUS
        <5>2. At(t, {"history", "complete"}) # {}
          BY <1>0, <1>7, <2>1, <3>1, <5>1 DEF AnsweredOnce
        <5>3. PICK g \in Handlers : serving[g].at \in {"history", "complete"} /\ serving[g].turn = t
          BY <5>2 DEF At
        <5> QED BY <1>1, <1>7, <2>1, <3>1, <5>3 DEF Stages
      <4>2. h \in At(t, {"history", "complete"})'
        BY <1>3 DEF At
      <4>3. AnswerRows(u)' = {Len(rows) + 1} /\ At(u, {"history", "complete"})' # {}
        BY <1>5, <3>1, <4>1, <4>2
      <4> QED BY <4>3
    <3>2. CASE u # t
      <4>1. At(u, {"history", "complete"}) \subseteq At(u, {"history", "complete"})'
        BY <1>1, <1>3, <1>t, <3>2 DEF At
      <4>2. AnswerRows(u)' = AnswerRows(u)
        BY <1>6, <3>2
      <4>3. /\ \A i, j \in AnswerRows(u) : i = j
            /\ AnswerRows(u) # {} /\ turns[u].status # "completed" =>
                 At(u, {"history", "complete"}) # {}
        BY <1>0 DEF AnsweredOnce
      <4> HIDE DEF AnswerRows, At
      <4> QED BY <4>1, <4>2, <4>3
    <3> QED BY <3>1, <3>2
  <2>2. ASSUME NEW u \in TurnIds, turns[u].status = "completed"
        PROVE  AnswerRows(u)' # {}
    <3>1. AnswerRows(u) # {}
      BY <1>0, <2>2 DEF AnsweredOnce
    <3>2. CASE u = t
      BY <1>5, <3>2
    <3>3. CASE u # t
      BY <1>6, <3>1, <3>3
    <3> QED BY <3>2, <3>3
  <2> QED BY <1>1, <1>2, <2>1, <2>2 DEF AnsweredOnce
<1>16. ToldWell'
  <2>t. \A u \in TurnIds : AnswerTexts(u) \subseteq AnswerTexts(u)'
    <3> SUFFICES ASSUME NEW u \in TurnIds PROVE AnswerTexts(u) \subseteq AnswerTexts(u)'
      OBVIOUS
    <3>1. CASE u = t
      BY <1>5, <3>1
    <3>2. CASE u # t
      BY <1>6, <3>2
    <3> QED BY <3>1, <3>2
  <2>1. \A u \in TurnIds : told[u] \subseteq AnswerTexts(u)'
    BY <1>0, <2>t DEF ToldWell
  <2>2. \A u \in TurnIds \ overlapped :
          told[u] # {} => turns[u].status = "completed" /\ told[u] = {Stored(u)'}
    BY <1>0, <1>6, <1>7 DEF ToldWell, AnsweredOnce
  <2>3. ASSUME NEW u \in TurnIds, NEW g \in At(u, {"history", "complete"})'
        PROVE  /\ serving'[g].text \in AnswerTexts(u)'
               /\ u \notin overlapped => Stored(u)' = serving'[g].text
    <3>1. CASE g = h
      <4>1. u = t
        BY <1>3, <2>3, <3>1 DEF At
      <4> QED BY <1>3, <1>5, <3>1, <4>1
    <3>2. CASE g # h
      <4>1. serving'[g] = serving[g] /\ g \in At(u, {"history", "complete"})
        BY <1>3, <2>3, <3>2 DEF At
      <4>2. serving[g].text \in AnswerTexts(u) /\ (u \notin overlapped => Stored(u) = serving[g].text)
        BY <1>0, <4>1 DEF ToldWell
      <4>3. AnswerRows(u) # {}
        BY <4>2 DEF AnswerTexts
      <4>4. u \notin overlapped => u # t
        BY <1>7, <3>2, <4>1 DEF At, Stages
      <4>5. serving[g].text \in AnswerTexts(u)'
        BY <2>t, <4>2
      <4> QED BY <1>6, <4>1, <4>2, <4>3, <4>4, <4>5
    <3> QED BY <3>1, <3>2
  <2> QED BY <1>1, <1>2, <2>1, <2>2, <2>3 DEF ToldWell
<1>17. UserRows'
  <2> SUFFICES ASSUME NEW u \in TurnIds
               PROVE  \E i \in DOMAIN rows' :
                        /\ rows'[i] = Line(u, "user", 0)
                        /\ \A j \in DOMAIN rows' :
                             rows'[j].turn = u /\ rows'[j].role = "user" => j = i
    BY <1>2 DEF UserRows
  <2>1. PICK i \in DOMAIN rows : /\ rows[i] = Line(u, "user", 0)
                                 /\ \A j \in DOMAIN rows :
                                      rows[j].turn = u /\ rows[j].role = "user" => j = i
    BY <1>0 DEF UserRows
  <2>2. i \in DOMAIN rows' /\ rows'[i] = Line(u, "user", 0)
    BY <1>8, <2>1
  <2>3. \A j \in DOMAIN rows' : rows'[j].turn = u /\ rows'[j].role = "user" => j = i
    BY <1>8, <2>1 DEF Line
  <2> QED BY <2>2, <2>3
<1>18. HistoryInTurn'
  <2>1. InTurn => \A u \in DoneTurns : Stored(u)' = Stored(u)
    BY <1>0, <1>6, <1>7 DEF InTurn, DoneTurns, AnsweredOnce
  <2>2. \A g \in Handlers : serving'[g].at = "complete" => serving'[g] = serving[g]
    BY <1>3
  <2> QED BY <1>0, <1>1, <1>2, <2>1, <2>2, HistoryFollows
<1> QED BY <1>9, <1>10, <1>11, <1>12, <1>13, <1>14, <1>15, <1>16, <1>17, <1>18 DEF BridgeInv

\* Of turns opened in turn, one at most is asked and open.
LEMMA OneOpen ==
    ASSUME BridgeInv, InTurn, NEW t \in TurnIds, NEW u \in TurnIds, OpenTurn(t), OpenTurn(u)
    PROVE  t = u
<1>1. t \in Nat /\ u \in Nat
  BY DEF BridgeInv, BridgeTypes, TurnIds
<1>2. ~(t < u) /\ ~(u < t)
  BY DEF BridgeInv, HistoryInTurn, OpenTurn
<1> QED BY <1>1, <1>2

\* A turn that is finalized where turns are opened in turn is the open one.
LEMMA FinalizedIsOpen ==
    ASSUME BridgeInv, InTurn, NEW h \in Handlers, serving[h].at \in Stages
    PROVE  serving[h].turn \in TurnIds /\ OpenTurn(serving[h].turn)
<1>1. BridgeTypes /\ Opening /\ Alone /\ serving[h].turn \notin overlapped
  BY DEF BridgeInv, InTurn
<1>2. serving[h].turn \in TurnIds
  BY <1>1, FinalizerIs
<1>3. turns[serving[h].turn].asked # <<>> /\ turns[serving[h].turn].status = "started"
  BY <1>1 DEF Opening, Alone
<1> QED BY <1>2, <1>3 DEF OpenTurn

\* The history becomes what the request held and its answer.
LEMMA WriteKeeps ==
    ASSUME BridgeInv, NEW h \in Handlers, WriteBridgeHistory(h)
    PROVE  BridgeInv'
<1> DEFINE t == serving[h].turn
           text == serving[h].text
<1>0. BridgeTypes /\ Opening /\ Alone /\ JudgedWell /\ JudgedOnAll /\ CorrectedOnce
      /\ AnsweredOnce /\ ToldWell /\ UserRows /\ HistoryInTurn
  BY DEF BridgeInv
<1>1. /\ serving[h].at = "history" /\ serving[h].at \in Stages
      /\ bridgeHistory' = Append(turns[t].asked, Line(t, "assistant", text))
      /\ Goes(h, "complete")
      /\ UNCHANGED <<mode, turns, rows, told, corrections, overlapped, raced, died, openAt, spent>>
  BY DEF WriteBridgeHistory, AnsweredHistory, ghosts, Stages
<1>2. /\ t \in TurnIds /\ t \in Nat /\ text \in Nat /\ TurnIds' = TurnIds
      /\ turns[t].asked # <<>> /\ turns[t].asked \in Seq(Row)
  <2>1. t \in TurnIds /\ t \in Nat /\ text \in Nat
    BY <1>0, <1>1, FinalizerIs
  <2>2. turns[t] \in Turn
    BY <1>0, <2>1 DEF BridgeTypes, TurnIds
  <2> QED BY <1>0, <1>1, <2>1, <2>2 DEF Opening, Turn, TurnIds
<1>3. /\ serving' \in [Handlers -> Serving]
      /\ serving'[h].at = "complete" /\ serving'[h].turn = t
      /\ serving'[h].text = text /\ serving'[h].on = serving[h].on
      /\ \A g \in Handlers : g # h => serving'[g] = serving[g]
  BY <1>0, <1>1, FinalizerGoes DEF Stages
<1>4. \A g \in Handlers :
        serving'[g].at \in Stages => /\ serving[g].at \in Stages
                                     /\ serving'[g].turn = serving[g].turn
                                     /\ serving'[g].text = serving[g].text
                                     /\ serving'[g].on = serving[g].on
  BY <1>1, <1>3
<1>5. \A g \in Handlers :
        /\ serving'[g].at \in {"history", "complete"} =>
             /\ serving[g].at \in {"history", "complete"}
             /\ serving'[g].turn = serving[g].turn /\ serving'[g].text = serving[g].text
        /\ serving[g].at \in {"history", "complete"} =>
             /\ serving'[g].at \in {"history", "complete"}
             /\ serving'[g].turn = serving[g].turn
  BY <1>1, <1>3
<1>l. Line(t, "assistant", text) \in Row /\ Line(t, "assistant", text).turn = t
  BY <1>2 DEF Row, Line
<1>6. BridgeTypes'
  <2>1. bridgeHistory' \in Seq(Row)
    BY <1>1, <1>2, <1>l
  <2>2. \A g \in Handlers : serving'[g].at # "idle" => serving'[g].turn \in TurnIds
    BY <1>0, <1>2, <1>3 DEF BridgeTypes
  <2> QED BY <1>0, <1>1, <1>2, <1>3, <2>1, <2>2 DEF BridgeTypes
<1>7. Opening'
  <2>1. \A g \in Handlers : serving'[g].at = "bootstrap" => serving'[g] = serving[g]
    BY <1>3
  <2>2. \A g \in Handlers : serving'[g].at \in Stages \cup {"acting"} =>
          serving'[g].turn \in TurnIds /\ turns[serving'[g].turn].asked # <<>>
    BY <1>0, <1>2, <1>3 DEF Opening, BridgeTypes, Stages
  <2>3. \A u \in TurnIds : turns[u].asked = <<>> =>
          turns[u].status # "completed" /\ AnswerRows(u)' = AnswerRows(u)
    BY <1>0, <1>1, RowsStay DEF Opening
  <2> QED BY <1>0, <1>1, <1>2, <2>1, <2>2, <2>3, OpeningStays
<1>8. Alone'
  BY <1>0, <1>1, <1>4, AloneStays
<1>9. JudgedWell'
  <2>1. \A g \in Handlers : serving'[g].at \in {"store", "history", "complete"} =>
          /\ serving[g].at \in {"store", "history", "complete"}
          /\ serving'[g].turn = serving[g].turn
    BY <1>1, <1>3
  <2> QED BY <1>0, <1>1, <1>2, <2>1, JudgedWellStays
<1>10. JudgedOnAll'
  BY <1>0, <1>1, <1>4, JudgedOnAllStays
<1>11. CorrectedOnce'
  <2>1. \A g \in Handlers : serving'[g].at = "rejected" => serving'[g] = serving[g]
    BY <1>3
  <2> QED BY <1>0, <1>1, <1>2, <2>1, CorrectedStays
<1>12. AnsweredOnce'
  BY <1>0, <1>1, <1>2, <1>5, AnsweredStays
<1>13. ToldWell'
  BY <1>0, <1>1, <1>2, <1>5, ToldStays
<1>14. UserRows'
  BY <1>0, <1>1, <1>2, UserRowsStay
<1>15. HistoryInTurn'
  <2> SUFFICES ASSUME InTurn
               PROVE /\ \A u, v \in TurnIds : turns[u].asked # <<>> /\ v < u => turns[v].status # "started"
                     /\ Whole(bridgeHistory', Answered) /\ OfTurns(bridgeHistory', Settled)
                     /\ \A u \in TurnIds : OpenTurn(u) =>
                          /\ Whole(turns[u].asked, Answered) /\ OfTurns(turns[u].asked, Settled)
                          /\ Asks(turns[u].asked, u, Answered)
                     /\ \A u \in TurnIds : \A g \in At(u, {"complete"})' :
                          bridgeHistory' = Append(turns[u].asked, Line(u, "assistant", serving'[g].text))
    <3>1. InTurn' => InTurn
      BY <1>1, <1>2 DEF InTurn
    <3>2. Answered' = Answered /\ Settled' = Settled /\ \A u : OpenTurn(u)' = OpenTurn(u)
      BY <1>1, <1>2, RowsStay DEF Answered, Settled, OpenTurn, DoneTurns
    <3> HIDE DEF t, text
    <3> QED BY <1>1, <1>2, <3>1, <3>2 DEF HistoryInTurn
  <2>1. OpenTurn(t)
    BY <1>1, FinalizedIsOpen
  <2>2. Whole(turns[t].asked, Answered) /\ OfTurns(turns[t].asked, Settled)
    BY <1>0, <1>2, <2>1 DEF HistoryInTurn
  <2>3. t \notin DOMAIN Answered /\ t \in Settled
    BY <1>2, <2>1 DEF Answered, DoneTurns, Settled, OpenTurn
  <2>4. Whole(bridgeHistory', Answered)
    BY <1>1, <1>2, <1>l, <2>2, <2>3, WholeStays
  <2>5. OfTurns(bridgeHistory', Settled)
    <3>1. \A i \in DOMAIN bridgeHistory' :
            \/ i \in DOMAIN turns[t].asked /\ bridgeHistory'[i] = turns[t].asked[i]
            \/ bridgeHistory'[i] = Line(t, "assistant", text)
      BY <1>1, <1>2, <1>l
    <3> QED BY <1>l, <2>2, <2>3, <3>1 DEF OfTurns
  <2>6. ASSUME NEW u \in TurnIds, NEW g \in At(u, {"complete"})'
        PROVE  bridgeHistory' = Append(turns[u].asked, Line(u, "assistant", serving'[g].text))
    <3>1. g \in Handlers /\ serving'[g].at = "complete" /\ serving'[g].turn = u
      BY DEF At
    <3>2. serving[g].at \in Stages /\ serving[g].turn = u
      BY <1>4, <3>1 DEF Stages
    <3>3. u = t
      BY <1>2, <2>1, <3>1, <3>2, FinalizedIsOpen, OneOpen
    <3>4. g = h
      BY <1>0, <1>1, <3>1, <3>2, <3>3 DEF Alone, InTurn
    <3> QED BY <1>1, <1>3, <3>3, <3>4
  <2> QED BY <1>0, <2>4, <2>5, <2>6 DEF HistoryInTurn
<1> QED BY <1>6, <1>7, <1>8, <1>9, <1>10, <1>11, <1>12, <1>13, <1>14, <1>15 DEF BridgeInv

\* The turn is completed, and its caller told.
LEMMA CompleteKeeps ==
    ASSUME BridgeInv, NEW h \in Handlers, CompleteBridgeTurn(h)
    PROVE  BridgeInv'
<1>0. BridgeTypes /\ Opening /\ Alone /\ JudgedWell /\ JudgedOnAll /\ CorrectedOnce
      /\ AnsweredOnce /\ ToldWell /\ UserRows /\ HistoryInTurn
  BY DEF BridgeInv
<1>t. PICK t \in TurnIds, text \in Nat : t = serving[h].turn /\ text = serving[h].text
  BY <1>0, FinalizerIs DEF CompleteBridgeTurn, Stages
<1>1. /\ serving[h].at = "complete" /\ serving[h].at \in Stages
      /\ turns' = [turns EXCEPT ![t].status = "completed"]
      /\ told' = [told EXCEPT ![t] = @ \cup {text}]
      /\ Returns(h)
      /\ UNCHANGED <<mode, rows, bridgeHistory, corrections, overlapped, raced, died, openAt, spent>>
  BY <1>t DEF CompleteBridgeTurn, Stages
<1>2. t \in Nat /\ turns[t].asked # <<>> /\ turns[t] \in Turn
  BY <1>0, <1>1, <1>t DEF Opening, BridgeTypes, TurnIds
<1>3. /\ turns' \in Seq(Turn) /\ Len(turns') = Len(turns) /\ TurnIds' = TurnIds
      /\ turns'[t].status = "completed" /\ turns'[t].asked = turns[t].asked
      /\ turns'[t].base = turns[t].base /\ turns'[t].calls = turns[t].calls
      /\ turns'[t].verdicts = turns[t].verdicts
      /\ \A u \in TurnIds : u # t => turns'[u] = turns[u]
  <2> DEFINE e == [turns[t] EXCEPT !.status = "completed"]
  <2>1. turns' = [turns EXCEPT ![t] = e]
    BY <1>1
  <2>2. /\ e \in Turn /\ e.status = "completed" /\ e.asked = turns[t].asked
        /\ e.base = turns[t].base /\ e.calls = turns[t].calls /\ e.verdicts = turns[t].verdicts
    BY <1>2 DEF Turn
  <2> HIDE DEF e
  <2> QED BY <1>0, <2>1, <2>2, TurnChanges
<1>4. \A u \in TurnIds : /\ turns'[u].asked = turns[u].asked /\ turns'[u].base = turns[u].base
                         /\ turns'[u].calls = turns[u].calls /\ turns'[u].verdicts = turns[u].verdicts
                         /\ turns[u].status = "completed" => turns'[u].status = "completed"
  BY <1>3
<1>5. /\ told' \in Seq(SUBSET Nat) /\ Len(told') = Len(told)
      /\ told'[t] = told[t] \cup {text} /\ \A u \in TurnIds : u # t => told'[u] = told[u]
  BY <1>0, <1>1 DEF BridgeTypes, TurnIds
<1>6. /\ serving' \in [Handlers -> Serving] /\ serving'[h].at = "idle"
      /\ \A g \in Handlers : g # h => serving'[g] = serving[g]
  BY <1>0, <1>1, RequestReturns
<1>7. \A g \in Handlers : serving'[g].at # "idle" =>
        g # h /\ serving'[g] = serving[g] /\ serving[g].turn \in TurnIds
  BY <1>0, <1>6 DEF BridgeTypes
<1>8. \A g \in Handlers : serving'[g].at \in Stages =>
        g # h /\ serving'[g] = serving[g] /\ serving[g].turn \in TurnIds
  BY <1>7 DEF Stages
<1>9. t \notin overlapped => /\ turns[t].status = "started"
                             /\ \A g \in Handlers :
                                  serving[g].at \in Stages /\ serving[g].turn = t => g = h
  BY <1>0, <1>1, <1>t DEF Alone
<1>h. h \in At(t, {"history", "complete"}) /\ h \in At(t, {"complete"})
      /\ h \in At(t, {"store", "history", "complete"})
  BY <1>1, <1>t DEF At
<1>s. text \in AnswerTexts(t) /\ (t \notin overlapped => Stored(t) = text)
  BY <1>0, <1>h, <1>t DEF ToldWell
<1>10. BridgeTypes'
  <2>1. \A g \in Handlers : serving'[g].at # "idle" => serving'[g].turn \in TurnIds
    BY <1>7
  <2> QED BY <1>0, <1>1, <1>3, <1>5, <1>6, <2>1 DEF BridgeTypes
<1>11. Opening'
  <2>1. \A g \in Handlers : serving'[g].at = "bootstrap" =>
          /\ serving[g].at = "bootstrap" /\ serving'[g].turn = serving[g].turn
          /\ turns'[serving[g].turn].status = turns[serving[g].turn].status
    <3>1. \A g \in Handlers : serving[g].at = "bootstrap" => serving[g].turn # t
      BY <1>0, <1>2 DEF Opening
    <3> QED BY <1>3, <1>7, <3>1
  <2>2. \A g \in Handlers : serving'[g].at \in Stages \cup {"acting"} =>
          serving'[g].turn \in TurnIds /\ turns[serving'[g].turn].asked # <<>>
    BY <1>0, <1>7 DEF Opening, Stages
  <2>3. \A u \in TurnIds : turns[u].asked = <<>> =>
          /\ turns'[u].status # "completed" /\ openAt'[u] = openAt[u] /\ told'[u] = told[u]
          /\ AnswerRows(u)' = AnswerRows(u)
    BY <1>0, <1>1, <1>2, <1>3, <1>5, RowsStay DEF Opening
  <2> QED BY <1>0, <1>3, <1>4, <2>1, <2>2, <2>3, OpeningStays
<1>12. Alone'
  BY <1>0, <1>1, <1>3, <1>8, <1>9, AloneStays
<1>13. JudgedWell'
  <2> SUFFICES ASSUME mode = "active", NEW u \in TurnIds \ overlapped,
                      \/ turns'[u].status = "completed"
                      \/ At(u, {"store", "history", "complete"})' # {}
               PROVE  Passed(u)'
    BY <1>1, <1>3 DEF JudgedWell
  <2>1. Passed(u) => Passed(u)'
    BY <1>4 DEF Passed
  <2>2. CASE u = t
    BY <1>0, <1>h, <2>1, <2>2 DEF JudgedWell
  <2>3. CASE u # t
    <3>1. At(u, {"store", "history", "complete"})' \subseteq At(u, {"store", "history", "complete"})
      BY <1>7 DEF At
    <3>2. turns'[u].status = turns[u].status
      BY <1>3, <2>3
    <3> QED BY <1>0, <2>1, <3>1, <3>2 DEF JudgedWell
  <2> QED BY <2>2, <2>3
<1>14. JudgedOnAll'
  BY <1>0, <1>1, <1>4, <1>8, JudgedOnAllStays
<1>15. CorrectedOnce'
  <2>1. \A g \in Handlers : serving'[g].at = "rejected" => serving'[g] = serving[g]
    BY <1>7
  <2> QED BY <1>0, <1>1, <1>3, <1>4, <2>1, CorrectedStays
<1>16. AnsweredOnce'
  <2>r. \A u : AnswerRows(u)' = AnswerRows(u)
    BY <1>1, RowsStay
  <2>1. ASSUME NEW u \in TurnIds \ (overlapped \cup died)
        PROVE  /\ \A i, j \in AnswerRows(u) : i = j
               /\ AnswerRows(u) # {} /\ turns'[u].status # "completed" =>
                    At(u, {"history", "complete"})' # {}
    <3>1. CASE u = t
      BY <1>0, <1>3, <3>1 DEF AnsweredOnce
    <3>2. CASE u # t
      <4>1. At(u, {"history", "complete"}) \subseteq At(u, {"history", "complete"})'
        BY <1>6, <1>t, <3>2 DEF At
      <4>2. turns'[u].status = turns[u].status
        BY <1>3, <3>2
      <4> QED BY <1>0, <4>1, <4>2 DEF AnsweredOnce
    <3> QED BY <3>1, <3>2
  <2>2. ASSUME NEW u \in TurnIds, turns'[u].status = "completed"
        PROVE  AnswerRows(u) # {}
    <3>1. CASE u = t
      BY <1>s, <3>1 DEF AnswerTexts
    <3>2. CASE u # t
      BY <1>0, <1>3, <2>2, <3>2 DEF AnsweredOnce
    <3> QED BY <3>1, <3>2
  <2> HIDE DEF AnswerRows, At
  <2> QED BY <1>1, <1>3, <2>r, <2>1, <2>2 DEF AnsweredOnce
<1>17. ToldWell'
  <2>r. \A u : Stored(u)' = Stored(u) /\ AnswerTexts(u)' = AnswerTexts(u)
    BY <1>1, RowsStay
  <2>1. \A u \in TurnIds : told'[u] \subseteq AnswerTexts(u)
    BY <1>0, <1>5, <1>s DEF ToldWell
  <2>2. ASSUME NEW u \in TurnIds \ overlapped, told'[u] # {}
        PROVE  turns'[u].status = "completed" /\ told'[u] = {Stored(u)}
    <3>1. CASE u = t
      <4>1. told[t] = {}
        BY <1>0, <1>9, <3>1 DEF ToldWell
      <4> QED BY <1>3, <1>5, <1>s, <3>1, <4>1
    <3>2. CASE u # t
      BY <1>0, <1>3, <1>5, <2>2, <3>2 DEF ToldWell
    <3> QED BY <3>1, <3>2
  <2>3. ASSUME NEW u \in TurnIds, NEW g \in At(u, {"history", "complete"})'
        PROVE  /\ serving'[g].text \in AnswerTexts(u)
               /\ u \notin overlapped => Stored(u) = serving'[g].text
    <3>1. g \in At(u, {"history", "complete"}) /\ serving'[g] = serving[g]
      BY <1>7 DEF At
    <3> QED BY <1>0, <3>1 DEF ToldWell
  <2> HIDE DEF AnswerTexts, Stored, At
  <2> QED BY <1>1, <1>3, <2>r, <2>1, <2>2, <2>3 DEF ToldWell
<1>18. UserRows'
  BY <1>0, <1>1, <1>3, UserRowsStay
<1>19. HistoryInTurn'
  <2>i. InTurn' = InTurn
    BY <1>1, <1>3 DEF InTurn
  <2> SUFFICES ASSUME InTurn
               PROVE /\ \A u, v \in TurnIds : turns'[u].asked # <<>> /\ v < u => turns'[v].status # "started"
                     /\ Whole(bridgeHistory, Answered') /\ OfTurns(bridgeHistory, Settled')
                     /\ \A u \in TurnIds : OpenTurn(u)' =>
                          /\ Whole(turns'[u].asked, Answered') /\ OfTurns(turns'[u].asked, Settled')
                          /\ Asks(turns'[u].asked, u, Answered')
                     /\ \A u \in TurnIds : \A g \in At(u, {"complete"})' :
                          bridgeHistory = Append(turns'[u].asked, Line(u, "assistant", serving'[g].text))
    BY <1>1, <1>3, <2>i DEF HistoryInTurn
  <2>1. OpenTurn(t) /\ turns[t].status = "started" /\ t \notin overlapped
    BY <1>1, <1>t, FinalizedIsOpen DEF OpenTurn, InTurn
  <2>2. /\ \A u, v \in TurnIds : turns[u].asked # <<>> /\ v < u => turns[v].status # "started"
        /\ Whole(turns[t].asked, Answered) /\ OfTurns(bridgeHistory, Settled)
        /\ OfTurns(turns[t].asked, Settled) /\ Asks(turns[t].asked, t, Answered)
        /\ bridgeHistory = Append(turns[t].asked, Line(t, "assistant", text))
    BY <1>0, <1>h, <1>t, <2>1 DEF HistoryInTurn
  <2>3. \A u, v \in TurnIds : turns'[u].asked # <<>> /\ v < u => turns'[v].status # "started"
    BY <1>3, <1>4, <2>2
  <2>4. Settled' = Settled
    BY <1>2, <1>3 DEF Settled
  <2>5. /\ DOMAIN Answered = DoneTurns /\ t \notin DoneTurns
        /\ DOMAIN Answered' = DoneTurns \cup {t} /\ Answered'[t] = text
        /\ \A u \in DoneTurns : Answered'[u] = Answered[u]
    <3>1. DoneTurns' = DoneTurns \cup {t} /\ t \notin DoneTurns
      BY <1>3, <2>1 DEF DoneTurns
    <3>2. \A u : Stored(u)' = Stored(u)
      BY <1>1, RowsStay
    <3> HIDE DEF DoneTurns, Stored
    <3> QED BY <1>s, <2>1, <3>1, <3>2 DEF Answered
  <2>6. \A i \in DOMAIN turns[t].asked : turns[t].asked[i].turn \in DoneTurns => turns[t].asked[i].turn < t
    <3> SUFFICES ASSUME NEW u \in DoneTurns PROVE u < t
      OBVIOUS
    <3>1. u \in TurnIds /\ turns[u].asked # <<>> /\ u # t
      BY <1>0, <2>1 DEF DoneTurns, Opening
    <3>2. u \in Nat
      BY <1>0, <3>1 DEF BridgeTypes, TurnIds
    <3>3. ~(t < u)
      BY <2>1, <2>2, <3>1
    <3> QED BY <1>2, <3>1, <3>2, <3>3
  <2>7. Whole(bridgeHistory, Answered')
    <3>1. turns[t].asked \in Seq(Row)
      BY <1>2 DEF Turn
    <3>a. PICK asked \in Seq(Row) : asked = turns[t].asked
      BY <3>1
    <3>2. PICK answered, more : answered = Answered /\ more = Answered'
      OBVIOUS
    <3>3. /\ Whole(asked, answered) /\ Asks(asked, t, answered) /\ t \notin DOMAIN answered
          /\ DOMAIN more = DOMAIN answered \cup {t} /\ more[t] = text
          /\ \A u \in DOMAIN answered : more[u] = answered[u]
          /\ \A i \in DOMAIN asked : asked[i].turn \in DOMAIN answered => asked[i].turn < t
      BY <2>2, <2>5, <2>6, <3>a, <3>2
    <3>4. Whole(Append(asked, Line(t, "assistant", text)), more)
      BY <1>2, <3>3, WholeGrows
    <3> HIDE DEF Answered, DoneTurns
    <3> QED BY <2>2, <3>a, <3>2, <3>4
  <2>8. \A u \in TurnIds : ~OpenTurn(u)'
    <3> SUFFICES ASSUME NEW u \in TurnIds, OpenTurn(u)' PROVE FALSE
      OBVIOUS
    <3>1. u # t
      BY <1>3 DEF OpenTurn
    <3>2. OpenTurn(u)
      BY <1>3, <3>1 DEF OpenTurn
    <3> QED BY <2>1, <3>1, <3>2, OneOpen
  <2>9. \A u \in TurnIds : At(u, {"complete"})' = {}
    <3> SUFFICES ASSUME NEW u \in TurnIds, NEW g \in Handlers, serving'[g].at = "complete",
                        serving'[g].turn = u
                 PROVE  FALSE
      BY DEF At
    <3>1. g # h /\ serving[g].at \in Stages /\ serving[g].turn = u
      BY <1>7 DEF Stages
    <3>2. OpenTurn(u)
      BY <3>1, FinalizedIsOpen
    <3>3. u = t
      BY <2>1, <3>2, OneOpen
    <3> QED BY <1>9, <2>1, <3>1, <3>3
  <2> QED BY <2>2, <2>3, <2>4, <2>7, <2>8, <2>9
<1> QED BY <1>10, <1>11, <1>12, <1>13, <1>14, <1>15, <1>16, <1>17, <1>18, <1>19 DEF BridgeInv

-----------------------------------------------------------------------------
(* Opening a turn *)

LEMMA PromptKeeps ==
    ASSUME BridgeInv, NEW h \in Handlers, PromptFails(h)
    PROVE  BridgeInv'
<1>0. BridgeTypes /\ Opening /\ Alone /\ JudgedWell /\ JudgedOnAll /\ CorrectedOnce
      /\ AnsweredOnce /\ ToldWell /\ UserRows /\ HistoryInTurn
  BY DEF BridgeInv
<1>t. PICK t \in TurnIds : t = serving[h].turn
  BY <1>0 DEF PromptFails, BridgeTypes
<1>1. /\ serving[h].at = "bootstrap" /\ turns' = [turns EXCEPT ![t].status = "failed"]
      /\ Returns(h)
      /\ UNCHANGED <<mode, rows, bridgeHistory, told, corrections, overlapped, raced, died, openAt,
                     spent>>
  BY <1>t DEF PromptFails, ghosts
<1>2. /\ turns[t].asked = <<>> /\ turns[t].status = "started" /\ turns[t] \in Turn
      /\ \A g \in Handlers : serving[g].at = "bootstrap" /\ serving[g].turn = t => g = h
  BY <1>0, <1>1, <1>t DEF Opening, BridgeTypes, TurnIds
<1>3. /\ turns' \in Seq(Turn) /\ Len(turns') = Len(turns) /\ TurnIds' = TurnIds
      /\ turns'[t].status = "failed" /\ turns'[t].asked = turns[t].asked
      /\ turns'[t].base = turns[t].base /\ turns'[t].calls = turns[t].calls
      /\ turns'[t].verdicts = turns[t].verdicts
      /\ \A u \in TurnIds : u # t => turns'[u] = turns[u]
  <2> DEFINE e == [turns[t] EXCEPT !.status = "failed"]
  <2>1. turns' = [turns EXCEPT ![t] = e]
    BY <1>1
  <2>2. /\ e \in Turn /\ e.status = "failed" /\ e.asked = turns[t].asked
        /\ e.base = turns[t].base /\ e.calls = turns[t].calls /\ e.verdicts = turns[t].verdicts
    BY <1>2 DEF Turn
  <2> HIDE DEF e
  <2> QED BY <1>0, <2>1, <2>2, TurnChanges
<1>4. \A u \in TurnIds : /\ turns'[u].asked = turns[u].asked /\ turns'[u].base = turns[u].base
                         /\ turns'[u].calls = turns[u].calls /\ turns'[u].verdicts = turns[u].verdicts
                         /\ turns'[u].status = "completed" <=> turns[u].status = "completed"
                         /\ \/ turns'[u].status = turns[u].status
                            \/ turns[u].status = "started" /\ turns'[u].status = "failed"
  BY <1>2, <1>3
<1>5. /\ serving' \in [Handlers -> Serving] /\ serving'[h].at = "idle"
      /\ \A g \in Handlers : g # h => serving'[g] = serving[g]
  BY <1>0, <1>1, RequestReturns
<1>6. \A g \in Handlers : serving'[g].at # "idle" =>
        g # h /\ serving'[g] = serving[g] /\ serving[g].turn \in TurnIds
  BY <1>0, <1>5 DEF BridgeTypes
<1>7. \A g \in Handlers :
        /\ serving'[g].at \in Stages => serving'[g] = serving[g] /\ serving[g].turn \in TurnIds
        /\ serving[g].at \in Stages => serving'[g] = serving[g]
        /\ serving[g].at \in Stages => serving[g].turn # t
  BY <1>0, <1>1, <1>2, <1>5, <1>6 DEF Stages, Opening
<1>8. BridgeTypes'
  <2>1. \A g \in Handlers : serving'[g].at # "idle" => serving'[g].turn \in TurnIds
    BY <1>6
  <2> QED BY <1>0, <1>1, <1>3, <1>5, <2>1 DEF BridgeTypes
<1>9. Opening'
  <2>1. \A g \in Handlers : serving'[g].at = "bootstrap" =>
          /\ serving[g].at = "bootstrap" /\ serving'[g].turn = serving[g].turn
          /\ turns'[serving[g].turn].status = turns[serving[g].turn].status
    BY <1>2, <1>3, <1>6
  <2>2. \A g \in Handlers : serving'[g].at \in Stages \cup {"acting"} =>
          serving'[g].turn \in TurnIds /\ turns[serving'[g].turn].asked # <<>>
    BY <1>0, <1>6 DEF Opening, Stages
  <2>3. \A u \in TurnIds : turns[u].asked = <<>> =>
          turns'[u].status # "completed" /\ AnswerRows(u)' = AnswerRows(u)
    BY <1>0, <1>1, <1>4, RowsStay DEF Opening
  <2> QED BY <1>0, <1>1, <1>3, <1>4, <2>1, <2>2, <2>3, OpeningStays
<1>10. Alone'
  BY <1>0, <1>1, <1>3, <1>7, AloneStays
<1>11. JudgedWell'
  BY <1>0, <1>1, <1>3, <1>4, <1>7, JudgedWellStays DEF Stages
<1>12. JudgedOnAll'
  BY <1>0, <1>1, <1>4, <1>7, JudgedOnAllStays
<1>13. CorrectedOnce'
  BY <1>0, <1>1, <1>3, <1>4, <1>7, CorrectedStays DEF Stages
<1>14. AnsweredOnce'
  BY <1>0, <1>1, <1>3, <1>4, <1>7, AnsweredStays DEF Stages
<1>15. ToldWell'
  BY <1>0, <1>1, <1>3, <1>4, <1>7, ToldStays DEF Stages
<1>16. UserRows'
  BY <1>0, <1>1, <1>3, UserRowsStay
<1>17. HistoryInTurn'
  BY <1>0, <1>1, <1>3, <1>4, <1>7, HistoryStays DEF Stages
<1> QED BY <1>8, <1>9, <1>10, <1>11, <1>12, <1>13, <1>14, <1>15, <1>16, <1>17 DEF BridgeInv

\* The request of a turn holds the history so far and the message of the turn.
LEMMA AskKeeps ==
    ASSUME BridgeInv, NEW h \in Handlers, AskTurn(h)
    PROVE  BridgeInv'
<1>0. BridgeTypes /\ Opening /\ Alone /\ JudgedWell /\ JudgedOnAll /\ CorrectedOnce
      /\ AnsweredOnce /\ ToldWell /\ UserRows /\ HistoryInTurn
  BY DEF BridgeInv
<1>t. PICK t \in TurnIds : t = serving[h].turn
  BY <1>0 DEF AskTurn, BridgeTypes
<1> DEFINE others == {u \in TurnIds \ {t} : turns[u].status = "started"}
<1>1. /\ serving[h].at = "bootstrap" /\ openAt' = [openAt EXCEPT ![t] = others]
      /\ Returns(h)
      /\ UNCHANGED <<mode, rows, bridgeHistory, told, corrections, overlapped, raced, died, spent>>
  BY <1>t DEF AskTurn
<1>b. PICK owed \in SUBSET BridgeBase :
        turns' = [turns EXCEPT ![t].asked = ProviderMessages(t),
                               ![t].base = IF mode = "off" THEN {} ELSE owed]
  BY <1>t DEF AskTurn
<1>2. /\ turns[t].asked = <<>> /\ turns[t].status = "started" /\ turns[t] \in Turn /\ t \in Nat
      /\ \A g \in Handlers : serving[g].at = "bootstrap" /\ serving[g].turn = t => g = h
      /\ openAt[t] = {} /\ AnswerRows(t) = {}
  BY <1>0, <1>1, <1>t DEF Opening, BridgeTypes, TurnIds
<1>l. Line(t, "user", 0) \in Row /\ Line(t, "user", 0).turn = t /\ Line(t, "user", 0).role = "user"
  BY <1>2 DEF Row, Line
<1>m. ProviderMessages(t) \in Seq(Row) /\ ProviderMessages(t) # <<>>
  <2>1. CASE bridgeHistory # <<>>
    <3>1. bridgeHistory \in Seq(Row) /\ ProviderMessages(t) = Append(bridgeHistory, Line(t, "user", 0))
      BY <1>0, <2>1 DEF ProviderMessages, BridgeTypes
    <3>2. /\ ProviderMessages(t) \in Seq(Row)
          /\ Len(ProviderMessages(t)) = Len(bridgeHistory) + 1 /\ Len(bridgeHistory) \in Nat
      BY <1>l, <3>1
    <3> QED BY <3>2
  <2>2. CASE bridgeHistory = <<>>
    <3>1. rows # <<>>
      BY <1>0 DEF UserRows
    <3> QED BY <1>0, <2>2, <3>1 DEF ProviderMessages, BridgeTypes
  <2> QED BY <2>1, <2>2
<1>3. /\ turns' \in Seq(Turn) /\ Len(turns') = Len(turns) /\ TurnIds' = TurnIds
      /\ turns'[t].status = turns[t].status /\ turns'[t].asked = ProviderMessages(t)
      /\ turns'[t].calls = turns[t].calls /\ turns'[t].verdicts = turns[t].verdicts
      /\ \A u \in TurnIds : u # t => turns'[u] = turns[u]
  <2> DEFINE e == [turns[t] EXCEPT !.asked = ProviderMessages(t),
                                   !.base = IF mode = "off" THEN {} ELSE owed]
  <2>1. turns' = [turns EXCEPT ![t] = e]
    BY <1>b
  <2>2. /\ e \in Turn /\ e.status = turns[t].status /\ e.asked = ProviderMessages(t)
        /\ e.calls = turns[t].calls /\ e.verdicts = turns[t].verdicts
    BY <1>2, <1>m DEF Turn
  <2> HIDE DEF e
  <2> QED BY <1>0, <2>1, <2>2, TurnChanges
<1>4. \A u \in TurnIds :
        turns'[u].status = turns[u].status /\ turns'[u].verdicts = turns[u].verdicts
  BY <1>3
<1>5. /\ openAt' \in Seq(SUBSET Nat) /\ Len(openAt') = Len(openAt) /\ openAt'[t] = others
      /\ \A u \in TurnIds : u # t => openAt'[u] = openAt[u]
  <2>1. openAt \in Seq(SUBSET Nat) /\ t \in DOMAIN openAt /\ DOMAIN openAt = TurnIds
    BY <1>0 DEF BridgeTypes, TurnIds
  <2>2. others \subseteq Nat
    BY <1>0 DEF BridgeTypes, TurnIds
  <2> HIDE DEF others
  <2> QED BY <1>1, <2>1, <2>2
<1> HIDE DEF others
<1>6. /\ serving' \in [Handlers -> Serving] /\ serving'[h].at = "idle"
      /\ \A g \in Handlers : g # h => serving'[g] = serving[g]
  BY <1>0, <1>1, RequestReturns
<1>7. \A g \in Handlers : serving'[g].at # "idle" =>
        g # h /\ serving'[g] = serving[g] /\ serving[g].turn \in TurnIds
  BY <1>0, <1>6 DEF BridgeTypes
<1>8. \A g \in Handlers :
        /\ serving'[g].at \in Stages \cup {"acting"} =>
             serving'[g] = serving[g] /\ serving[g].turn \in TurnIds /\ serving[g].turn # t
        /\ serving[g].at \in Stages => serving'[g] = serving[g]
  BY <1>0, <1>1, <1>2, <1>6, <1>7 DEF Stages, Opening
<1>9. BridgeTypes'
  <2>1. \A g \in Handlers : serving'[g].at # "idle" => serving'[g].turn \in TurnIds
    BY <1>7
  <2> QED BY <1>0, <1>1, <1>3, <1>5, <1>6, <2>1 DEF BridgeTypes
<1>10. Opening'
  <2>1. ASSUME NEW g \in Handlers, serving'[g].at = "bootstrap"
        PROVE  /\ turns'[serving'[g].turn].asked = <<>> /\ turns'[serving'[g].turn].status = "started"
               /\ \A f \in Handlers :
                    serving'[f].at = "bootstrap" /\ serving'[f].turn = serving'[g].turn => f = g
    <3>1. g # h /\ serving'[g] = serving[g] /\ serving[g].turn \in TurnIds /\ serving[g].turn # t
      BY <1>2, <1>7, <2>1
    <3>2. \A f \in Handlers : serving'[f].at = "bootstrap" => serving'[f] = serving[f]
      BY <1>7
    <3>3. turns'[serving[g].turn] = turns[serving[g].turn]
      BY <1>3, <3>1
    <3> QED BY <1>0, <2>1, <3>1, <3>2, <3>3 DEF Opening
  <2>2. \A g \in Handlers : serving'[g].at \in Stages \cup {"acting"} =>
          turns'[serving'[g].turn].asked # <<>>
    BY <1>0, <1>3, <1>8 DEF Opening
  <2>3. ASSUME NEW u \in TurnIds, turns'[u].asked = <<>>
        PROVE  /\ turns'[u].status # "completed" /\ openAt'[u] = {} /\ told'[u] = {}
               /\ AnswerRows(u)' = {}
    <3>1. u # t
      BY <1>3, <1>m, <2>3
    <3>2. turns'[u] = turns[u] /\ openAt'[u] = openAt[u] /\ AnswerRows(u)' = AnswerRows(u)
      BY <1>1, <1>3, <1>5, <3>1, RowsStay
    <3> QED BY <1>0, <1>1, <2>3, <3>2 DEF Opening
  <2> QED BY <1>3, <2>1, <2>2, <2>3 DEF Opening
<1>11. Alone'
  BY <1>0, <1>1, <1>3, <1>8, AloneStays
<1>12. JudgedWell'
  BY <1>0, <1>1, <1>3, <1>4, <1>8, JudgedWellStays DEF Stages
<1>13. JudgedOnAll'
  BY <1>0, <1>1, <1>3, <1>8, JudgedOnAllStays
<1>14. CorrectedOnce'
  BY <1>0, <1>1, <1>3, <1>4, <1>8, CorrectedStays DEF Stages
<1>15. AnsweredOnce'
  BY <1>0, <1>1, <1>3, <1>4, <1>8, AnsweredStays DEF Stages
<1>16. ToldWell'
  BY <1>0, <1>1, <1>3, <1>4, <1>8, ToldStays DEF Stages
<1>17. UserRows'
  BY <1>0, <1>1, <1>3, UserRowsStay
<1>18. HistoryInTurn'
  <2>i. InTurn' => InTurn /\ others = {}
    BY <1>1, <1>2, <1>3, <1>5 DEF InTurn
  <2> SUFFICES ASSUME InTurn, others = {}
               PROVE /\ \A u, v \in TurnIds : turns'[u].asked # <<>> /\ v < u => turns'[v].status # "started"
                     /\ Whole(bridgeHistory, Answered') /\ OfTurns(bridgeHistory, Settled')
                     /\ \A u \in TurnIds : OpenTurn(u)' =>
                          /\ Whole(turns'[u].asked, Answered') /\ OfTurns(turns'[u].asked, Settled')
                          /\ Asks(turns'[u].asked, u, Answered')
                     /\ \A u \in TurnIds : \A g \in At(u, {"complete"})' :
                          bridgeHistory = Append(turns'[u].asked, Line(u, "assistant", serving'[g].text))
    BY <1>1, <1>3, <2>i DEF HistoryInTurn
  <2>1. \A u \in TurnIds : u # t => turns[u].status # "started"
    BY DEF others
  <2>2. /\ \A u, v \in TurnIds : turns[u].asked # <<>> /\ v < u => turns[v].status # "started"
        /\ Whole(bridgeHistory, Answered) /\ OfTurns(bridgeHistory, Settled)
    BY <1>0 DEF HistoryInTurn
  <2>3. Answered' = Answered
    <3>1. DoneTurns' = DoneTurns
      BY <1>3, <1>4 DEF DoneTurns
    <3> QED BY <1>1, <3>1, RowsStay DEF Answered
  <2>4. Settled \subseteq Settled' /\ t \in Settled' /\ t \notin Settled /\ TurnIds \ {t} \subseteq Settled'
    BY <1>2, <1>3, <1>m, <2>1 DEF Settled
  <2>5. ASSUME NEW u \in TurnIds, NEW v \in TurnIds, turns'[u].asked # <<>>, v < u
        PROVE  turns'[v].status # "started"
    <3>1. CASE v = t
      <4>1. u # t
        BY <1>2, <2>5, <3>1
      <4> QED BY <1>3, <1>4, <2>2, <2>5, <3>1, <4>1
    <3>2. CASE v # t
      BY <1>4, <2>1, <3>2
    <3> QED BY <3>1, <3>2
  <2>6. OfTurns(bridgeHistory, Settled')
    BY <2>2, <2>4 DEF OfTurns
  <2>7. ASSUME NEW u \in TurnIds, OpenTurn(u)' PROVE u = t
    BY <1>4, <2>1, <2>7 DEF OpenTurn
  <2>8. \A u \in TurnIds : At(u, {"complete"})' = {}
    <3> SUFFICES ASSUME NEW u \in TurnIds, NEW g \in Handlers, serving'[g].at = "complete",
                        serving'[g].turn = u
                 PROVE  FALSE
      BY DEF At
    <3>1. serving[g].at \in Stages /\ serving[g].turn = u /\ u # t
      BY <1>8 DEF Stages
    <3>2. turns[u].status = "started"
      BY <3>1, FinalizedIsOpen DEF OpenTurn
    <3> QED BY <2>1, <3>1, <3>2
  <2> DEFINE messages == ProviderMessages(t)
  <2>9. /\ Whole(messages, Answered) /\ OfTurns(messages, Settled') /\ Asks(messages, t, Answered)
    <3>1. CASE bridgeHistory # <<>>
      <4>1. messages = Append(bridgeHistory, Line(t, "user", 0)) /\ bridgeHistory \in Seq(Row)
        BY <1>0, <3>1 DEF ProviderMessages, BridgeTypes
      <4> DEFINE n == Len(bridgeHistory)
      <4>2. /\ n \in Nat /\ DOMAIN bridgeHistory = 1..n /\ DOMAIN messages = 1..(n + 1)
            /\ \A i \in 1..n : messages[i] = bridgeHistory[i]
            /\ messages[n + 1] = Line(t, "user", 0)
        BY <1>l, <4>1
      <4> HIDE DEF messages, n
      <4>3. t \notin DOMAIN Answered
        BY <1>2 DEF Answered, DoneTurns
      <4>4. Whole(messages, Answered)
        BY <1>l, <2>2, <4>1, <4>3, WholeStays
      <4>5. OfTurns(messages, Settled')
        BY <1>l, <2>4, <2>6, <4>2 DEF OfTurns
      <4>6. \A j \in 1..n : messages[j].turn # t
        BY <2>2, <2>4, <4>2 DEF OfTurns
      <4>7. n + 1 \in DOMAIN messages
            /\ \A j \in DOMAIN messages : /\ messages[j].turn = t => j = n + 1
                                          /\ ~(j > n + 1)
        BY <4>2, <4>6
      <4>8. Asks(messages, t, Answered)
        BY <4>2, <4>7 DEF Asks
      <4> QED BY <4>4, <4>5, <4>8
    <3>2. CASE bridgeHistory = <<>>
      <4>1. messages = rows
        BY <3>2 DEF ProviderMessages
      <4>2. DOMAIN Answered = {}
        <5>1. DOMAIN bridgeHistory = {}
          BY <3>2
        <5> HIDE DEF Answered
        <5> QED BY <2>2, <5>1 DEF Whole
      <4>3. Whole(rows, Answered)
        BY <4>2 DEF Whole
      <4>4. OfTurns(rows, Settled')
        BY <1>0, <2>4 DEF OfTurns, BridgeTypes
      <4>5. PICK i \in DOMAIN rows : /\ rows[i] = Line(t, "user", 0)
                                     /\ \A j \in DOMAIN rows :
                                          rows[j].turn = t /\ rows[j].role = "user" => j = i
        BY <1>0 DEF UserRows
      <4>6. \A j \in DOMAIN rows : rows[j].turn = t => rows[j].role = "user"
        <5>1. \A j \in DOMAIN rows : rows[j].role \in {"user", "assistant"}
          <6>1. \A j \in DOMAIN rows : rows[j] \in Row
            BY <1>0 DEF BridgeTypes
          <6> QED BY <6>1 DEF Row
        <5>2. \A j \in DOMAIN rows : ~(rows[j].turn = t /\ rows[j].role = "assistant")
          BY <1>2 DEF AnswerRows
        <5> QED BY <5>1, <5>2
      <4>7. Asks(rows, t, Answered)
        BY <4>2, <4>5, <4>6 DEF Asks
      <4> QED BY <4>1, <4>3, <4>4, <4>7
    <3> QED BY <3>1, <3>2
  <2> HIDE DEF messages
  <2>10. \A u \in TurnIds : OpenTurn(u)' =>
           /\ Whole(turns'[u].asked, Answered') /\ OfTurns(turns'[u].asked, Settled')
           /\ Asks(turns'[u].asked, u, Answered')
    <3>1. turns'[t].asked = messages
      BY <1>3 DEF messages
    <3> QED BY <2>3, <2>7, <2>9, <3>1
  <2> QED BY <2>2, <2>3, <2>5, <2>6, <2>8, <2>10
<1> QED BY <1>9, <1>10, <1>11, <1>12, <1>13, <1>14, <1>15, <1>16, <1>17, <1>18 DEF BridgeInv

\* A turn opened is the newest, and nothing is known of it yet.
LEMMA BeginKeeps ==
    ASSUME BridgeInv, NEW h \in Handlers, BeginTurn(h)
    PROVE  BridgeInv'
<1>0. BridgeTypes /\ Opening /\ Alone /\ JudgedWell /\ JudgedOnAll /\ CorrectedOnce
      /\ AnsweredOnce /\ ToldWell /\ UserRows /\ HistoryInTurn
  BY DEF BridgeInv
<1>t. PICK t \in Nat : t = Len(turns) + 1 /\ t \notin TurnIds
  BY <1>0 DEF BridgeTypes, TurnIds
<1>1. /\ serving[h].at = "idle"
      /\ turns' = Append(turns, NewTurn) /\ rows' = Append(rows, Line(t, "user", 0))
      /\ serving' = [serving EXCEPT ![h] = [at |-> "bootstrap", turn |-> t]]
      /\ told' = Append(told, {}) /\ corrections' = Append(corrections, 0)
      /\ openAt' = Append(openAt, {})
      /\ UNCHANGED <<mode, bridgeHistory, overlapped, raced, died, spent>>
  BY <1>t, IdleIs DEF BeginTurn
<1>l. Line(t, "user", 0) \in Row /\ Line(t, "user", 0).turn = t /\ Line(t, "user", 0).role = "user"
  BY DEF Row, Line
<1>n. /\ NewTurn \in Turn /\ NewTurn.status = "started" /\ NewTurn.asked = <<>>
      /\ NewTurn.verdicts = <<>>
  BY DEF NewTurn, Turn
<1>2. /\ turns' \in Seq(Turn) /\ Len(turns') = Len(turns) + 1 /\ Len(turns) \in Nat
      /\ TurnIds = 1..Len(turns) /\ TurnIds' = TurnIds \cup {t}
      /\ turns'[t] = NewTurn /\ \A u \in TurnIds : turns'[u] = turns[u]
  <2>1. turns \in Seq(Turn)
    BY <1>0 DEF BridgeTypes
  <2>2. /\ turns' \in Seq(Turn) /\ Len(turns') = Len(turns) + 1 /\ Len(turns) \in Nat
        /\ TurnIds = 1..Len(turns) /\ TurnIds' = 1..(Len(turns) + 1)
        /\ turns'[Len(turns) + 1] = NewTurn /\ \A u \in TurnIds : turns'[u] = turns[u]
    BY <1>1, <1>n, <2>1 DEF TurnIds
  <2> QED BY <1>t, <2>2
<1>3. /\ told' \in Seq(SUBSET Nat) /\ Len(told') = Len(turns) + 1 /\ told'[t] = {}
      /\ \A u \in TurnIds : told'[u] = told[u]
      /\ corrections' \in Seq(Nat) /\ Len(corrections') = Len(turns) + 1 /\ corrections'[t] = 0
      /\ \A u \in TurnIds : corrections'[u] = corrections[u]
      /\ openAt' \in Seq(SUBSET Nat) /\ Len(openAt') = Len(turns) + 1 /\ openAt'[t] = {}
      /\ \A u \in TurnIds : openAt'[u] = openAt[u]
  <2>1. /\ told \in Seq(SUBSET Nat) /\ Len(told) = Len(turns)
        /\ corrections \in Seq(Nat) /\ Len(corrections) = Len(turns)
        /\ openAt \in Seq(SUBSET Nat) /\ Len(openAt) = Len(turns)
    BY <1>0 DEF BridgeTypes
  <2>2. /\ told' \in Seq(SUBSET Nat) /\ Len(told') = Len(turns) + 1 /\ told'[t] = {}
        /\ \A u \in TurnIds : told'[u] = told[u]
    BY <1>1, <1>2, <1>t, <2>1
  <2>3. /\ corrections' \in Seq(Nat) /\ Len(corrections') = Len(turns) + 1 /\ corrections'[t] = 0
        /\ \A u \in TurnIds : corrections'[u] = corrections[u]
    BY <1>1, <1>2, <1>t, <2>1
  <2>4. /\ openAt' \in Seq(SUBSET Nat) /\ Len(openAt') = Len(turns) + 1 /\ openAt'[t] = {}
        /\ \A u \in TurnIds : openAt'[u] = openAt[u]
    BY <1>1, <1>2, <1>t, <2>1
  <2> QED BY <2>2, <2>3, <2>4
<1>4. /\ serving' \in [Handlers -> Serving]
      /\ serving'[h].at = "bootstrap" /\ serving'[h].turn = t
      /\ \A g \in Handlers : g # h => serving'[g] = serving[g]
  <2> DEFINE s == [at |-> "bootstrap", turn |-> t]
  <2>1. s \in Serving /\ s.at = "bootstrap" /\ s.turn = t
    BY DEF Serving, Bootstrap
  <2>2. serving' = [serving EXCEPT ![h] = s]
    BY <1>1
  <2> HIDE DEF s
  <2> QED BY <1>0, <2>1, <2>2, RequestChanges
<1>5. \A g \in Handlers : serving[g].at # "idle" =>
        g # h /\ serving'[g] = serving[g] /\ serving[g].turn \in TurnIds /\ serving[g].turn # t
  BY <1>0, <1>1, <1>4, <1>t DEF BridgeTypes
<1>6. \A g \in Handlers : serving'[g].at \in Stages \cup {"acting"} =>
        serving'[g] = serving[g] /\ serving[g].turn \in TurnIds /\ serving[g].turn # t
  BY <1>4, <1>5 DEF Stages
<1>7. \A u : /\ AnswerRows(u)' = AnswerRows(u) /\ AnswerTexts(u)' = AnswerTexts(u)
             /\ AnswerRows(u) # {} => Stored(u)' = Stored(u)
  BY <1>0, <1>1, <1>l, OtherRow
<1>8. AnswerRows(t) = {}
  BY <1>0, <1>t DEF AnswerRows, BridgeTypes
<1>9. /\ Len(rows) \in Nat /\ DOMAIN rows = 1..Len(rows) /\ DOMAIN rows' = 1..(Len(rows) + 1)
      /\ \A i \in 1..Len(rows) : rows'[i] = rows[i] /\ rows[i].turn \in TurnIds
      /\ rows'[Len(rows) + 1] = Line(t, "user", 0) /\ rows' \in Seq(Row)
  BY <1>0, <1>1, <1>l DEF BridgeTypes
<1>a. \A u, stages : stages \subseteq Stages => /\ At(u, stages)' = At(u, stages)
                                                /\ At(t, stages) = {}
  <2> SUFFICES ASSUME NEW u, NEW stages \in SUBSET Stages
               PROVE  At(u, stages)' = At(u, stages) /\ At(t, stages) = {}
    OBVIOUS
  <2>1. \A g \in Handlers : serving'[g].at \in stages <=> serving[g].at \in stages
    BY <1>1, <1>4 DEF Stages
  <2>2. \A g \in Handlers : serving[g].at \in stages =>
          serving'[g] = serving[g] /\ serving[g].turn # t
    BY <1>5 DEF Stages
  <2> QED BY <2>1, <2>2 DEF At
<1>s. /\ {"store", "history", "complete"} \subseteq Stages /\ {"history", "complete"} \subseteq Stages
      /\ {"rejected"} \subseteq Stages /\ {"complete"} \subseteq Stages
  BY DEF Stages
<1>10. BridgeTypes'
  <2>1. \A g \in Handlers : serving'[g].at # "idle" => serving'[g].turn \in TurnIds'
    BY <1>2, <1>4, <1>5
  <2>2. \A i \in DOMAIN rows' : rows'[i].turn \in TurnIds'
    BY <1>2, <1>9, <1>l
  <2>3. (overlapped \cup raced \cup died)' \subseteq TurnIds'
    BY <1>0, <1>1, <1>2 DEF BridgeTypes
  <2> QED BY <1>0, <1>1, <1>2, <1>3, <1>4, <1>9, <2>1, <2>2, <2>3 DEF BridgeTypes
<1>11. Opening'
  <2>1. ASSUME NEW g \in Handlers, serving'[g].at = "bootstrap"
        PROVE  /\ turns'[serving'[g].turn].asked = <<>> /\ turns'[serving'[g].turn].status = "started"
               /\ \A f \in Handlers :
                    serving'[f].at = "bootstrap" /\ serving'[f].turn = serving'[g].turn => f = g
    <3>1. CASE g = h
      BY <1>2, <1>4, <1>5, <1>n, <3>1
    <3>2. CASE g # h
      <4>1. serving'[g] = serving[g] /\ serving[g].turn \in TurnIds /\ serving[g].turn # t
        BY <1>4, <1>5, <2>1, <3>2
      <4>2. turns'[serving[g].turn] = turns[serving[g].turn]
        BY <1>2, <4>1
      <4> QED BY <1>0, <1>4, <2>1, <4>1, <4>2 DEF Opening
    <3> QED BY <3>1, <3>2
  <2>2. \A g \in Handlers : serving'[g].at \in Stages \cup {"acting"} =>
          turns'[serving'[g].turn].asked # <<>>
    BY <1>0, <1>2, <1>6 DEF Opening
  <2>3. ASSUME NEW u \in TurnIds', turns'[u].asked = <<>>
        PROVE  /\ turns'[u].status # "completed" /\ openAt'[u] = {} /\ told'[u] = {}
               /\ AnswerRows(u)' = {}
    <3>1. CASE u = t
      BY <1>2, <1>3, <1>7, <1>8, <1>n, <3>1
    <3>2. CASE u # t
      BY <1>0, <1>2, <1>3, <1>7, <2>3, <3>2 DEF Opening
    <3> QED BY <3>1, <3>2
  <2> QED BY <2>1, <2>2, <2>3 DEF Opening
<1>12. Alone'
  BY <1>0, <1>1, <1>2, <1>6, AloneStays
<1>13. JudgedWell'
  <2> SUFFICES ASSUME mode = "active", NEW u \in TurnIds' \ overlapped,
                      \/ turns'[u].status = "completed"
                      \/ At(u, {"store", "history", "complete"})' # {}
               PROVE  Passed(u)'
    BY <1>1 DEF JudgedWell
  <2>1. u \in TurnIds
    BY <1>2, <1>a, <1>n, <1>s
  <2>2. turns'[u] = turns[u] /\ At(u, {"store", "history", "complete"})' = At(u, {"store", "history", "complete"})
    BY <1>2, <1>a, <1>s, <2>1
  <2> QED BY <1>0, <2>1, <2>2 DEF JudgedWell, Passed
<1>14. JudgedOnAll'
  BY <1>0, <1>1, <1>2, <1>6, JudgedOnAllStays
<1>15. CorrectedOnce'
  <2> SUFFICES ASSUME NEW u \in TurnIds'
               PROVE  /\ corrections'[u] <= 1 /\ corrections'[u] <= Rejections(u)'
                      /\ \A g \in At(u, {"rejected"}) :
                           /\ corrections'[u] + 1 <= Rejections(u)'
                           /\ \A f \in At(u, {"rejected"}) : f # g => 2 <= Rejections(u)'
    BY <1>a, <1>s DEF CorrectedOnce
  <2>1. CASE u = t
    <3>1. turns'[u].verdicts = <<>>
      BY <1>2, <1>n, <2>1
    <3>2. {k \in DOMAIN turns'[u].verdicts : ~turns'[u].verdicts[k].accepted} = {}
      BY <3>1
    <3>3. Rejections(u)' = Cardinality({})
      BY <3>2 DEF Rejections
    <3> QED BY <1>3, <1>a, <1>s, <2>1, <3>3, FS_EmptySet
  <2>2. CASE u # t
    <3>1. u \in TurnIds /\ Rejections(u)' = Rejections(u) /\ corrections'[u] = corrections[u]
      BY <1>2, <1>3, <2>2 DEF Rejections
    <3> HIDE DEF Rejections
    <3> QED BY <1>0, <3>1 DEF CorrectedOnce
  <2> QED BY <2>1, <2>2
<1>16. AnsweredOnce'
  <2>1. ASSUME NEW u \in TurnIds' \ (overlapped \cup died)
        PROVE  /\ \A i, j \in AnswerRows(u) : i = j
               /\ AnswerRows(u) # {} /\ turns'[u].status # "completed" =>
                    At(u, {"history", "complete"}) # {}
    <3>1. CASE u = t
      BY <1>8, <3>1
    <3>2. CASE u # t
      BY <1>0, <1>2, <3>2 DEF AnsweredOnce
    <3> QED BY <3>1, <3>2
  <2>2. ASSUME NEW u \in TurnIds', turns'[u].status = "completed" PROVE AnswerRows(u) # {}
    BY <1>0, <1>2, <1>n, <2>2 DEF AnsweredOnce
  <2> HIDE DEF AnswerRows, At
  <2> QED BY <1>1, <1>7, <1>a, <1>s, <2>1, <2>2 DEF AnsweredOnce
<1>17. ToldWell'
  <2>1. \A u \in TurnIds' : told'[u] \subseteq AnswerTexts(u)
    BY <1>0, <1>2, <1>3 DEF ToldWell
  <2>2. ASSUME NEW u \in TurnIds' \ overlapped, told'[u] # {}
        PROVE  turns'[u].status = "completed" /\ told'[u] = {Stored(u)'}
    <3>1. u \in TurnIds /\ told'[u] = told[u] /\ turns'[u] = turns[u]
      BY <1>2, <1>3, <2>2
    <3>2. turns[u].status = "completed" /\ told[u] = {Stored(u)}
      BY <1>0, <2>2, <3>1 DEF ToldWell
    <3>3. AnswerRows(u) # {}
      BY <1>0, <3>1, <3>2 DEF AnsweredOnce
    <3> QED BY <1>7, <3>1, <3>2, <3>3
  <2>3. ASSUME NEW u \in TurnIds', NEW g \in At(u, {"history", "complete"})
        PROVE  /\ serving'[g].text \in AnswerTexts(u)
               /\ u \notin overlapped => Stored(u)' = serving'[g].text
    <3>1. u \in TurnIds /\ g \in Handlers /\ serving'[g] = serving[g]
      BY <1>2, <1>5, <1>a, <1>s, <2>3 DEF At
    <3>2. serving[g].text \in AnswerTexts(u) /\ (u \notin overlapped => Stored(u) = serving[g].text)
      BY <1>0, <2>3, <3>1 DEF ToldWell
    <3>3. AnswerRows(u) # {}
      BY <3>2 DEF AnswerTexts
    <3> QED BY <1>7, <3>1, <3>2, <3>3
  <2> HIDE DEF AnswerTexts, Stored, At
  <2>4. \A u : AnswerTexts(u)' = AnswerTexts(u)
    BY <1>7
  <2>5. \A u : At(u, {"history", "complete"})' = At(u, {"history", "complete"})
    BY <1>a, <1>s
  <2> QED BY <1>1, <2>1, <2>2, <2>3, <2>4, <2>5 DEF ToldWell
<1>18. UserRows'
  <2> SUFFICES ASSUME NEW u \in TurnIds'
               PROVE  \E i \in DOMAIN rows' :
                        /\ rows'[i] = Line(u, "user", 0)
                        /\ \A j \in DOMAIN rows' :
                             rows'[j].turn = u /\ rows'[j].role = "user" => j = i
    BY DEF UserRows
  <2>1. CASE u = t
    <3>1. \A j \in 1..Len(rows) : rows'[j].turn # u
      BY <1>9, <1>t, <2>1
    <3> QED BY <1>9, <2>1, <3>1
  <2>2. CASE u # t
    <3>1. PICK i \in DOMAIN rows : /\ rows[i] = Line(u, "user", 0)
                                   /\ \A j \in DOMAIN rows :
                                        rows[j].turn = u /\ rows[j].role = "user" => j = i
      BY <1>0, <1>2, <2>2 DEF UserRows
    <3>2. i \in DOMAIN rows' /\ rows'[i] = Line(u, "user", 0)
      BY <1>9, <3>1
    <3>3. \A j \in DOMAIN rows' : rows'[j].turn = u /\ rows'[j].role = "user" => j = i
      BY <1>9, <1>l, <2>2, <3>1
    <3> QED BY <3>2, <3>3
  <2> QED BY <2>1, <2>2
<1>19. HistoryInTurn'
  <2>i. InTurn' => InTurn
    BY <1>1, <1>2, <1>3 DEF InTurn
  <2>1. DoneTurns' = DoneTurns /\ Settled' = Settled
    BY <1>2, <1>n, <1>t DEF DoneTurns, Settled
  <2>2. Answered' = Answered
    <3>1. \A u \in DoneTurns : AnswerRows(u) # {}
      BY <1>0 DEF DoneTurns, AnsweredOnce
    <3>2. \A u \in DoneTurns : Stored(u)' = Stored(u)
      BY <1>7, <3>1
    <3> HIDE DEF DoneTurns, Stored
    <3> QED BY <2>1, <3>2 DEF Answered
  <2> SUFFICES ASSUME InTurn
               PROVE /\ \A u, v \in TurnIds' : turns'[u].asked # <<>> /\ v < u => turns'[v].status # "started"
                     /\ Whole(bridgeHistory, Answered) /\ OfTurns(bridgeHistory, Settled)
                     /\ \A u \in TurnIds' : OpenTurn(u)' =>
                          /\ Whole(turns'[u].asked, Answered) /\ OfTurns(turns'[u].asked, Settled)
                          /\ Asks(turns'[u].asked, u, Answered)
                     /\ \A u \in TurnIds' : \A g \in At(u, {"complete"}) :
                          bridgeHistory = Append(turns'[u].asked, Line(u, "assistant", serving'[g].text))
    <3> HIDE DEF Answered, Settled, At
    <3> QED BY <1>1, <1>a, <1>s, <2>1, <2>2, <2>i DEF HistoryInTurn
  <2>3. ASSUME NEW u \in TurnIds', NEW v \in TurnIds', turns'[u].asked # <<>>, v < u
        PROVE  turns'[v].status # "started"
    <3>1. u \in TurnIds
      BY <1>2, <1>n, <2>3
    <3>2. v \in TurnIds
      BY <1>2, <1>t, <2>3, <3>1
    <3> QED BY <1>0, <1>2, <2>3, <3>1, <3>2 DEF HistoryInTurn
  <2>4. ASSUME NEW u \in TurnIds', OpenTurn(u)'
        PROVE  /\ Whole(turns'[u].asked, Answered) /\ OfTurns(turns'[u].asked, Settled)
               /\ Asks(turns'[u].asked, u, Answered)
    <3>1. u \in TurnIds /\ turns'[u] = turns[u]
      BY <1>2, <1>n, <2>4 DEF OpenTurn
    <3>2. OpenTurn(u)
      BY <2>4, <3>1 DEF OpenTurn
    <3> QED BY <1>0, <3>1, <3>2 DEF HistoryInTurn
  <2>5. ASSUME NEW u \in TurnIds', NEW g \in At(u, {"complete"})
        PROVE  bridgeHistory = Append(turns'[u].asked, Line(u, "assistant", serving'[g].text))
    <3>1. u \in TurnIds /\ turns'[u] = turns[u] /\ serving'[g] = serving[g]
      BY <1>2, <1>5, <1>a, <1>s, <2>5 DEF At
    <3> QED BY <1>0, <2>5, <3>1 DEF HistoryInTurn
  <2> QED BY <1>0, <2>3, <2>4, <2>5 DEF HistoryInTurn
<1> QED BY <1>10, <1>11, <1>12, <1>13, <1>14, <1>15, <1>16, <1>17, <1>18, <1>19 DEF BridgeInv

-----------------------------------------------------------------------------
(* The invariant and what it says *)

LEMMA BridgeInitial == BridgeInit => BridgeInv
<1> SUFFICES ASSUME BridgeInit PROVE BridgeInv
  OBVIOUS
<1>1. /\ mode \in BridgeModes /\ turns = <<>> /\ rows = <<>> /\ bridgeHistory = <<>>
      /\ told = <<>> /\ corrections = <<>> /\ openAt = <<>>
      /\ overlapped = {} /\ raced = {} /\ died = {}
      /\ spent = [actions |-> 0, finalizes |-> 0, deaths |-> 0]
  BY DEF BridgeInit
<1>2. \A h \in Handlers : serving[h].at = "idle"
  BY DEF BridgeInit, Idle
<1>3. serving \in [Handlers -> Serving]
  BY DEF BridgeInit, Serving
<1>4. TurnIds = {} /\ DoneTurns = {}
  BY <1>1 DEF TurnIds, DoneTurns
<1>5. BridgeTypes
  BY <1>1, <1>2, <1>3, <1>4 DEF BridgeTypes
<1>6. Opening /\ Alone /\ JudgedOnAll
  BY <1>2, <1>4 DEF Opening, Alone, JudgedOnAll, Stages
<1>7. JudgedWell /\ CorrectedOnce /\ AnsweredOnce /\ ToldWell /\ UserRows
  BY <1>4 DEF JudgedWell, CorrectedOnce, AnsweredOnce, ToldWell, UserRows
<1>8. HistoryInTurn
  <2>1. Whole(bridgeHistory, Answered) /\ OfTurns(bridgeHistory, Settled)
    BY <1>1, <1>4 DEF Whole, OfTurns, Answered
  <2> QED BY <1>4, <2>1 DEF HistoryInTurn
<1> QED BY <1>5, <1>6, <1>7, <1>8 DEF BridgeInv

LEMMA BridgeStutters == BridgeInv /\ UNCHANGED bridgeVars => BridgeInv'
<1> SUFFICES ASSUME BridgeInv, UNCHANGED bridgeVars PROVE BridgeInv'
  OBVIOUS
<1>1. UNCHANGED <<mode, turns, rows, bridgeHistory, serving, told, corrections, overlapped, raced,
                  died, openAt, spent>>
  BY DEF bridgeVars
<1>2. /\ serving' \in [Handlers -> Serving] /\ died' \subseteq TurnIds
      /\ spent' \in [actions : Nat, finalizes : Nat, deaths : Nat]
  BY <1>1 DEF BridgeInv, BridgeTypes
<1> QED BY <1>1, <1>2, RequestsEnd

LEMMA BridgeStep == BridgeInv /\ [BridgeNext]_bridgeVars => BridgeInv'
<1> SUFFICES ASSUME BridgeInv, [BridgeNext]_bridgeVars PROVE BridgeInv'
  OBVIOUS
<1>1. ASSUME NEW h \in Handlers, BeginTurn(h) PROVE BridgeInv'
  BY <1>1, BeginKeeps
<1>2. ASSUME NEW h \in Handlers, AskTurn(h) PROVE BridgeInv'
  BY <1>2, AskKeeps
<1>3. ASSUME NEW h \in Handlers, PromptFails(h) PROVE BridgeInv'
  BY <1>3, PromptKeeps
<1>4. ASSUME NEW h \in Handlers, NEW t \in Known, BeginAction(h, t) PROVE BridgeInv'
  BY <1>4, ActionKeeps
<1>5. ASSUME NEW h \in Handlers, NEW t \in Known, AlreadyFinalized(h, t) PROVE BridgeInv'
  BY <1>5, RepeatKeeps
<1>6. ASSUME NEW h \in Handlers, NEW t \in Known, BeginFinalize(h, t) PROVE BridgeInv'
  BY <1>6, FinalizeKeeps
<1>7. ASSUME NEW h \in Handlers, FinishAction(h) PROVE BridgeInv'
  BY <1>7, CallRecordedKeeps
<1>8. ASSUME NEW h \in Handlers, NoValidator(h) PROVE BridgeInv'
  BY <1>8, NoValidatorKeeps
<1>9. ASSUME NEW h \in Handlers, ValidatorFails(h) \/ DraftPasses(h) \/ DraftFails(h)
      PROVE  BridgeInv'
  BY <1>9, JudgingKeeps
<1>10. ASSUME NEW h \in Handlers, RejectDraft(h) PROVE BridgeInv'
  BY <1>10, RejectKeeps
<1>11. ASSUME NEW h \in Handlers, StoreBridgeAnswer(h) PROVE BridgeInv'
  BY <1>11, StoreKeeps
<1>12. ASSUME NEW h \in Handlers, WriteBridgeHistory(h) PROVE BridgeInv'
  BY <1>12, WriteKeeps
<1>13. ASSUME NEW h \in Handlers, CompleteBridgeTurn(h) PROVE BridgeInv'
  BY <1>13, CompleteKeeps
<1>14. CASE BridgeCrash
  BY <1>14, DeathKeeps
<1>15. CASE UNCHANGED bridgeVars
  BY <1>15, BridgeStutters
<1> QED BY <1>1, <1>2, <1>3, <1>4, <1>5, <1>6, <1>7, <1>8, <1>9, <1>10, <1>11, <1>12, <1>13, <1>14,
           <1>15 DEF BridgeNext

\* Whatever requests run at once and wherever the process dies: what a turn is
\* judged on, answered with and remembered by stays of one piece.
THEOREM BridgeInvariant == BridgeSpec => []BridgeInv
<1>1. BridgeInit => BridgeInv
  BY BridgeInitial
<1>2. BridgeInv /\ [BridgeNext]_bridgeVars => BridgeInv'
  BY BridgeStep
<1> QED BY <1>1, <1>2, PTL DEF BridgeSpec

\* finalize never accepts, in the active mode, a draft that was not judged to pass
\* on all that its turn owes, and asks a caller for one correction at most, also
\* of drafts that are rejected at once.
THEOREM BridgeJudges == BridgeSpec => []DraftsAreJudged
<1>1. BridgeInv => DraftsAreJudged
  <2> SUFFICES ASSUME BridgeInv PROVE DraftsAreJudged
    OBVIOUS
  <2>1. FailClosed
    <3> SUFFICES ASSUME mode = "active", NEW t \in TurnIds \ overlapped
                 PROVE  /\ turns[t].status = "completed" => Last(turns[t].verdicts).judged = "pass"
                        /\ \A h \in Finalizing(t) : t \notin raced =>
                             /\ turns[t].base \subseteq serving[h].on
                             /\ \A k \in DOMAIN turns[t].calls :
                                  turns[t].calls[k].result # "ok" =>
                                    Duty("action", turns[t].calls[k].id) \in serving[h].on
      BY DEF FailClosed
    <3>1. turns[t].status = "completed" => Last(turns[t].verdicts).judged = "pass"
      BY DEF BridgeInv, JudgedWell, Passed
    <3>2. ASSUME NEW h \in Finalizing(t), t \notin raced
          PROVE  /\ turns[t].base \subseteq serving[h].on
                 /\ \A k \in DOMAIN turns[t].calls :
                      turns[t].calls[k].result # "ok" =>
                        Duty("action", turns[t].calls[k].id) \in serving[h].on
      <4>1. h \in Handlers /\ serving[h].at \in Stages /\ serving[h].turn = t
        BY DEF Finalizing, Stages
      <4> QED BY <3>2, <4>1 DEF BridgeInv, JudgedOnAll
    <3> QED BY <3>1, <3>2
  <2>2. OneCorrection
    BY DEF OneCorrection, BridgeInv, CorrectedOnce
  <2> QED BY <2>1, <2>2 DEF DraftsAreJudged
<1> QED BY <1>1, BridgeInvariant, PTL

\* Callers, rows and history agree: a turn has the one answer its callers were
\* told, and the history every completed exchange, once and in order.
THEOREM BridgeAgrees == BridgeSpec => []AnswersAgree
<1>1. BridgeInv => AnswersAgree
  <2> SUFFICES ASSUME BridgeInv PROVE AnswersAgree
    OBVIOUS
  <2>0. BridgeTypes /\ Opening /\ Alone /\ AnsweredOnce /\ ToldWell /\ HistoryInTurn
    BY DEF BridgeInv
  <2>1. BridgeTypeOK
    <3>1. \A t \in TurnIds : turns[t] \in Turn
      BY <2>0 DEF BridgeTypes, TurnIds
    <3>2. \A h \in Handlers : serving[h] # Idle => serving[h].at # "idle"
      BY <2>0 DEF BridgeTypes, Serving, Bootstrap, Acting, Finalization, Stages
    <3>3. \A t \in TurnIds :
            /\ turns[t].status \in {"started", "completed", "failed"}
            /\ turns[t].status = "completed" => turns[t].asked # <<>>
            /\ turns[t].base \subseteq BridgeBase
      BY <2>0, <3>1 DEF Turn, Opening
    <3>4. \A h \in Handlers : serving[h] # Idle => serving[h].turn \in TurnIds
      BY <2>0, <3>2 DEF BridgeTypes
    <3> QED BY <2>0, <3>3, <3>4 DEF BridgeTypeOK, BridgeTypes
  <2>2. OutcomeAgrees
    <3> SUFFICES ASSUME NEW t \in TurnIds \ (overlapped \cup died)
                 PROVE  /\ turns[t].status = "completed" => Cardinality(AnswerRows(t)) = 1
                        /\ turns[t].status = "failed" => AnswerRows(t) = {}
      BY DEF OutcomeAgrees
    <3>1. ASSUME turns[t].status = "completed" PROVE Cardinality(AnswerRows(t)) = 1
      <4>1. PICK i : i \in AnswerRows(t)
        BY <2>0, <3>1 DEF AnsweredOnce
      <4>2. AnswerRows(t) = {i}
        BY <2>0, <4>1 DEF AnsweredOnce
      <4> QED BY <4>2, FS_Singleton
    <3>2. ASSUME turns[t].status = "failed", AnswerRows(t) # {} PROVE FALSE
      <4>1. At(t, {"history", "complete"}) # {}
        BY <2>0, <3>2 DEF AnsweredOnce
      <4>2. PICK h \in Handlers : serving[h].at \in Stages /\ serving[h].turn = t
        BY <4>1 DEF At, Stages
      <4> QED BY <2>0, <3>2, <4>2 DEF Alone
    <3> QED BY <3>1, <3>2
  <2>3. ToldIsStored
    <3> SUFFICES ASSUME NEW t \in TurnIds
                 PROVE  /\ told[t] \subseteq {rows[i].text : i \in AnswerRows(t)}
                        /\ t \notin overlapped => Cardinality(told[t]) <= 1
      BY DEF ToldIsStored
    <3>1. told[t] \subseteq {rows[i].text : i \in AnswerRows(t)}
      BY <2>0 DEF ToldWell, AnswerTexts
    <3>2. ASSUME t \notin overlapped PROVE Cardinality(told[t]) <= 1
      <4>1. CASE told[t] = {}
        BY <4>1, FS_EmptySet
      <4>2. CASE told[t] # {}
        <5>1. told[t] = {Stored(t)}
          BY <2>0, <3>2, <4>2 DEF ToldWell
        <5>2. Cardinality({Stored(t)}) = 1
          BY FS_Singleton
        <5> QED BY <5>1, <5>2
      <4> QED BY <4>1, <4>2
    <3> QED BY <3>1, <3>2
  <2>4. HistoryWhole
    <3> SUFFICES ASSUME overlapped = {},
                        \A t \in TurnIds : openAt[t] = {} /\ turns[t].status # "started"
                 PROVE  /\ \A t \in TurnIds : turns[t].status = "completed" =>
                             {Line(t, "user", 0), Line(t, "assistant", Stored(t))} \subseteq ToSet(bridgeHistory)
                        /\ \A i, j \in DOMAIN bridgeHistory :
                             /\ i < j /\ turns[bridgeHistory[i].turn].status = "completed"
                             /\ turns[bridgeHistory[j].turn].status = "completed"
                             => \/ bridgeHistory[i].turn < bridgeHistory[j].turn
                                \/ /\ bridgeHistory[i].turn = bridgeHistory[j].turn
                                   /\ bridgeHistory[i].role = "user" /\ bridgeHistory[j].role = "assistant"
      BY DEF HistoryWhole
    <3>1. Whole(bridgeHistory, Answered) /\ OfTurns(bridgeHistory, Settled)
      BY <2>0 DEF HistoryInTurn, InTurn
    <3>2. DOMAIN Answered = DoneTurns /\ \A t \in DoneTurns : Answered[t] = Stored(t)
      BY DEF Answered
    <3>3. ASSUME NEW t \in TurnIds, turns[t].status = "completed"
          PROVE  {Line(t, "user", 0), Line(t, "assistant", Stored(t))} \subseteq ToSet(bridgeHistory)
      <4>1. t \in DOMAIN Answered /\ Answered[t] = Stored(t)
        BY <3>2, <3>3 DEF DoneTurns
      <4>2. PICK i \in DOMAIN bridgeHistory : bridgeHistory[i] = Line(t, "user", 0)
        BY <3>1, <4>1 DEF Whole
      <4>3. PICK j \in DOMAIN bridgeHistory : bridgeHistory[j] = Line(t, "assistant", Stored(t))
        BY <3>1, <4>1 DEF Whole
      <4> QED BY <4>2, <4>3 DEF ToSet
    <3>4. \A i \in DOMAIN bridgeHistory :
            turns[bridgeHistory[i].turn].status = "completed" => bridgeHistory[i].turn \in DOMAIN Answered
      BY <3>1, <3>2 DEF OfTurns, Settled, DoneTurns
    <3>5. \A i, j \in DOMAIN bridgeHistory :
            /\ i < j /\ turns[bridgeHistory[i].turn].status = "completed"
            /\ turns[bridgeHistory[j].turn].status = "completed"
            => \/ bridgeHistory[i].turn < bridgeHistory[j].turn
               \/ /\ bridgeHistory[i].turn = bridgeHistory[j].turn
                  /\ bridgeHistory[i].role = "user" /\ bridgeHistory[j].role = "assistant"
      BY <3>1, <3>4 DEF Whole
    <3> QED BY <3>3, <3>5
  <2> QED BY <2>1, <2>2, <2>3, <2>4 DEF AnswersAgree
<1> QED BY <1>1, BridgeInvariant, PTL

-----------------------------------------------------------------------------
(* The native turn *)

Text == Seq({"plain", "ended", "bare"})
Types == {"started", "completed", "returned", "note", "answer", "failed"}
AnyEvent == [type : Types, text : Text \cup Seq(Nat)]
Message == [role : {"assistant"}, text : Text, uses : Seq(Nat)]
Use == [id : Nat, op : Ops]
Call == [id : Nat, op : Ops, result : Results]
Draft == [raw : Seq(Message), calls : Seq(Call), retries : 0..MaxRetries]

\* What the variables range over; the stream and the list that waits hold
\* positions of the log.
TurnTypes ==
    /\ setting \in [stream : BOOLEAN, active : BOOLEAN] /\ base \subseteq BaseDuties
    /\ at \in {"request", "tool", "running", "judge", "accepted", "store", "completed", "failed"}
    /\ first \in Draft /\ draft \in Draft /\ queue \in Seq(Use)
    /\ verdict.text \in Text /\ seen \in BOOLEAN

LogTypes ==
    /\ log \in Seq(AnyEvent)
    /\ live \in Seq(1..Len(log)) /\ pending \in Seq(1..Len(log))

\* Tool uses wait while tools run, and what is judged has been said.
TurnStages ==
    /\ at \in {"tool", "running"} <=> queue # <<>>
    /\ at \in {"judge", "accepted", "store", "completed"} => draft.raw # <<>>

\* An accepted text is the last one of the draft, was final or owed it, and passed
\* on what the calls of both drafts oblige it to.
Accepted ==
    at \in {"accepted", "store", "completed"} /\ setting.active =>
        /\ verdict.text = Public(FinalText)
        /\ verdict.passed = Duties
        /\ Marked(FinalText) \/ Fallback

Kept == at = "completed" => stored.text = verdict.text

AnswerInv == TurnTypes /\ LogTypes /\ TurnStages /\ Accepted /\ Kept

USE AnswerAssumption

-----------------------------------------------------------------------------
(* Texts and positions *)

\* The least element of a set of numbers.
LEMMA LeastOf ==
    ASSUME NEW S \in SUBSET Nat, S # {}
    PROVE  \E m \in S : \A k \in S : m <= k
<1>1. PICK m \in S : \A k \in S : ~(<<k, m>> \in OpToRel(<, Nat))
  BY NatLessThanWellFounded, WFMin
<1>2. \A k \in S : ~(k < m)
  BY <1>1 DEF OpToRel
<1>3. \A k \in S : m <= k
  BY <1>2
<1> QED BY <1>3

\* Joining sequences of events gives a sequence of events.
LEMMA Joined ==
    ASSUME NEW M, NEW s \in Seq(Seq(M))
    PROVE  FlattenSeq(s) \in Seq(M)
<1> DEFINE n == Len(s)
           Joins(f, m) == f = [i \in 1..m |-> IF i = 1 THEN s[i] ELSE f[i - 1] \o s[i]]
           Bad == {m \in 0..n : ~\E f : Joins(f, m) /\ f \in [1..m -> Seq(M)]}
<1>1. n \in Nat /\ \A i \in 1..n : s[i] \in Seq(M)
  OBVIOUS
<1> HIDE DEF n, Joins
<1>2. Bad = {}
  <2>1. SUFFICES ASSUME Bad # {} PROVE FALSE
    OBVIOUS
  <2>2. PICK m \in Bad : \A k \in Bad : m <= k
    <3>1. Bad \in SUBSET Nat
      BY <1>1
    <3> HIDE DEF Bad
    <3> QED BY <2>1, <3>1, LeastOf
  <2>3. m \in 0..n /\ m # 0
    <3> DEFINE none == [i \in 1..0 |-> <<>>]
    <3>1. Joins(none, 0) /\ none \in [1..0 -> Seq(M)]
      BY DEF Joins
    <3> HIDE DEF none
    <3> QED BY <3>1
  <2>4. m - 1 \in 0..n /\ m - 1 \notin Bad
    BY <1>1, <2>2, <2>3
  <2>5. PICK f : Joins(f, m - 1) /\ f \in [1..(m - 1) -> Seq(M)]
    BY <2>4
  <2> DEFINE g == [i \in 1..m |-> IF i = 1 THEN s[i]
                                  ELSE IF i = m THEN f[m - 1] \o s[m] ELSE f[i]]
  <2>6. \A i \in 1..m : g[i] = IF i = 1 THEN s[i] ELSE g[i - 1] \o s[i]
    <3> SUFFICES ASSUME NEW i \in 1..m, i # 1 PROVE g[i] = g[i - 1] \o s[i]
      OBVIOUS
    <3>1. i - 1 \in 1..(m - 1) /\ i - 1 \in 1..m /\ i - 1 # m
      BY <1>1, <2>3
    <3>2. f[i - 1] = IF i - 1 = 1 THEN s[i - 1] ELSE f[(i - 1) - 1] \o s[i - 1]
      BY <2>5, <3>1 DEF Joins
    <3>3. g[i - 1] = f[i - 1]
      BY <3>1, <3>2
    <3>4. CASE i = m
      BY <3>3, <3>4
    <3>5. CASE i # m
      <4>1. i \in 1..(m - 1)
        BY <2>3, <3>5
      <4>2. f[i] = f[i - 1] \o s[i]
        BY <2>5, <4>1 DEF Joins
      <4> QED BY <3>3, <3>5, <4>2
    <3> QED BY <3>4, <3>5
  <2>7. \A i \in 1..m : g[i] \in Seq(M)
    <3> SUFFICES ASSUME NEW i \in 1..m PROVE g[i] \in Seq(M)
      OBVIOUS
    <3>1. i \in 1..n /\ s[i] \in Seq(M) /\ s[m] \in Seq(M)
      BY <1>1, <2>3
    <3>2. i # 1 /\ i = m => m - 1 \in 1..(m - 1)
      BY <2>3
    <3>3. i # 1 /\ i # m => i \in 1..(m - 1)
      BY <2>3
    <3>4. i # 1 /\ i = m => f[m - 1] \in Seq(M) /\ f[m - 1] \o s[m] \in Seq(M)
      BY <2>5, <3>1, <3>2
    <3>5. i # 1 /\ i # m => f[i] \in Seq(M)
      BY <2>5, <3>3
    <3> QED BY <3>1, <3>4, <3>5
  <2>8. g = [i \in 1..m |-> g[i]]
    OBVIOUS
  <2> HIDE DEF g
  <2>9. Joins(g, m) /\ g \in [1..m -> Seq(M)]
    BY <2>6, <2>7, <2>8 DEF Joins
  <2> QED BY <2>2, <2>9
<1>3. PICK f : Joins(f, n) /\ f \in [1..n -> Seq(M)]
  <2>1. n \in 0..n
    BY <1>1
  <2>2. n \notin Bad
    BY <1>2
  <2> QED BY <2>1, <2>2
<1> DEFINE F == CHOOSE h : Joins(h, n)
<1>4. Joins(F, n)
  BY <1>3
<1>5. n # 0 => FlattenSeq(s) = F[n]
  BY DEF FlattenSeq, Joins, n
<1> HIDE DEF F
<1>6. \A i \in 1..n : F[i] = f[i]
  <2> DEFINE Off == {i \in 1..n : F[i] # f[i]}
  <2>1. SUFFICES ASSUME Off # {} PROVE FALSE
    OBVIOUS
  <2>2. PICK m \in Off : \A k \in Off : m <= k
    <3>1. Off \in SUBSET Nat
      BY <1>1
    <3> HIDE DEF Off
    <3> QED BY <2>1, <3>1, LeastOf
  <2>3. m \in 1..n /\ F[m] # f[m]
    BY <2>2
  <2>4. F[m] = IF m = 1 THEN s[m] ELSE F[m - 1] \o s[m]
    BY <1>4, <2>3 DEF Joins
  <2>5. f[m] = IF m = 1 THEN s[m] ELSE f[m - 1] \o s[m]
    BY <1>3, <2>3 DEF Joins
  <2>6. m # 1 => m - 1 \in 1..n /\ m - 1 \notin Off
    BY <1>1, <2>2, <2>3
  <2> QED BY <2>3, <2>4, <2>5, <2>6
<1>7. CASE n = 0
  <2>1. s = <<>> /\ FlattenSeq(s) = s
    BY <1>7 DEF FlattenSeq, n
  <2>2. FlattenSeq(s) = <<>>
    BY <2>1
  <2> QED BY <2>2
<1>8. CASE n # 0
  <2>1. n \in 1..n
    BY <1>1, <1>8
  <2> QED BY <1>3, <1>5, <1>6, <1>8, <2>1
<1> QED BY <1>7, <1>8

\* A sequence of positions stays one when the log grows.
LEMMA SeqGrows ==
    ASSUME NEW m \in Nat, NEW n \in Nat, m <= n, NEW s \in Seq(1..m)
    PROVE  s \in Seq(1..n)
<1>1. Len(s) \in Nat /\ s \in [1..Len(s) -> 1..m]
  OBVIOUS
<1>2. \A i \in 1..Len(s) : s[i] \in 1..n
  BY <1>1
<1>3. s = [i \in 1..Len(s) |-> s[i]]
  BY <1>1
<1> HIDE <1>1
<1> QED BY <1>1, <1>2, <1>3

\* The new positions are those after the log.
LEMMA PositionsAre ==
    ASSUME LogTypes, NEW events \in Seq(AnyEvent)
    PROVE  Positions(events) \in Seq(1..(Len(log) + Len(events)))
<1>1. Len(log) \in Nat /\ Len(events) \in Nat /\ DOMAIN events = 1..Len(events)
  BY DEF LogTypes
<1> DEFINE n == Len(log)
           p == [i \in 1..Len(events) |-> n + i]
<1>2. Positions(events) = p
  BY <1>1 DEF Positions
<1>3. n \in Nat
  BY <1>1
<1> HIDE DEF n
<1>4. \A i \in 1..Len(events) : n + i \in 1..(n + Len(events))
  BY <1>1, <1>3
<1>5. p \in Seq(1..(n + Len(events)))
  BY <1>1, <1>4
<1> QED BY <1>2, <1>5 DEF n

\* Stripping a text of its marker leaves a text.
LEMMA PublicText == ASSUME NEW text \in Text PROVE Public(text) \in Text
<1>1. CASE ~Marked(text)
  BY <1>1 DEF Public
<1>2. CASE Marked(text)
  <2>1. Front(text) \in Text
    BY <1>2 DEF Text, Front, Marked
  <2>2. Append(Front(text), "plain") \in Text
    BY <2>1 DEF Text
  <2> QED BY <1>2, <2>1, <2>2 DEF Public
<1> QED BY <1>1, <1>2

\* The last text of a draft.
LEMMA FinalTextIs ==
    ASSUME draft \in Draft, draft.raw # <<>>
    PROVE  FinalText \in Text
<1>1. draft.raw \in Seq(Message)
  BY DEF Draft
<1>2. draft.raw[Len(draft.raw)] \in Message
  BY <1>1
<1> QED BY <1>2 DEF FinalText, Last, Message

\* What is judged does not change while the drafts do not.
LEMMA DutiesStay ==
    ASSUME UNCHANGED <<setting, base, first, draft>>
    PROVE  FinalText' = FinalText /\ Duties' = Duties /\ (Fallback' <=> Fallback)
BY DEF FinalText, Duties, Manifest, JudgedCalls, Fallback, Corrected

-----------------------------------------------------------------------------
(* The log and the stream *)

\* Record keeps positions in the log, whether they are shown or wait.
LEMMA Recorded ==
    ASSUME LogTypes, NEW tools \in Seq(AnyEvent), NEW events \in Seq(AnyEvent),
           Record(tools, events)
    PROVE  LogTypes'
<1> DEFINE more == IF Streams THEN events ELSE <<>>
<1>1. more \in Seq(AnyEvent) /\ log' = (log \o tools) \o more
  BY DEF Record
<1> HIDE DEF more
<1>2. /\ log \o tools \in Seq(AnyEvent) /\ Len(log \o tools) = Len(log) + Len(tools)
      /\ Len(log) \in Nat /\ Len(tools) \in Nat /\ Len(more) \in Nat /\ Len(events) \in Nat
  BY <1>1 DEF LogTypes
<1>3. log' \in Seq(AnyEvent) /\ Len(log') = Len(log) + Len(tools) + Len(more)
  BY <1>1, <1>2
<1>4. live \in Seq(1..Len(log')) /\ pending \in Seq(1..Len(log'))
  BY <1>2, <1>3, SeqGrows DEF LogTypes
<1>5. CASE Streams /\ events # <<>>
  <2>1. more = events
    BY <1>5 DEF more
  <2>2. tools \o events \in Seq(AnyEvent) /\ Len(tools \o events) = Len(tools) + Len(events)
    OBVIOUS
  <2>3. Positions(tools \o events) \in Seq(1..Len(log'))
    <3>1. Positions(tools \o events) \in Seq(1..(Len(log) + Len(tools \o events)))
      BY <2>2, PositionsAre
    <3>2. Len(log) + Len(tools \o events) = Len(log')
      BY <1>2, <1>3, <2>1, <2>2
    <3> QED BY <3>1, <3>2
  <2>4. live' = live \o pending \o Positions(tools \o events) /\ pending' = <<>>
    BY <1>5 DEF Record
  <2>5. live' \in Seq(1..Len(log')) /\ pending' \in Seq(1..Len(log'))
    BY <1>4, <2>3, <2>4
  <2> QED BY <1>3, <2>5 DEF LogTypes
<1>6. CASE ~(Streams /\ events # <<>>)
  <2>1. Positions(tools) \in Seq(1..(Len(log) + Len(tools)))
    BY PositionsAre
  <2>2. Positions(tools) \in Seq(1..Len(log'))
    BY <1>2, <1>3, <2>1, SeqGrows
  <2>3. live' = live /\ (pending' = pending \/ pending' = pending \o Positions(tools))
    BY <1>6 DEF Record
  <2>4. pending \o Positions(tools) \in Seq(1..Len(log'))
    BY <1>4, <2>2
  <2>5. pending' \in Seq(1..Len(log'))
    BY <1>4, <2>3, <2>4
  <2> QED BY <1>3, <1>4, <2>3, <2>5 DEF LogTypes
<1> QED BY <1>5, <1>6

\* So does what appends to the log and shows some of it, or none.
LEMMA Shown ==
    ASSUME LogTypes, NEW events \in Seq(AnyEvent), log' = log \o events, pending' = pending,
           live' = live \/ live' = live \o Positions(events)
    PROVE  LogTypes'
<1>1. /\ log' \in Seq(AnyEvent) /\ Len(log') = Len(log) + Len(events)
      /\ Len(log) \in Nat /\ Len(events) \in Nat
  BY DEF LogTypes
<1>2. live \in Seq(1..Len(log')) /\ pending \in Seq(1..Len(log'))
  BY <1>1, SeqGrows DEF LogTypes
<1>3. Positions(events) \in Seq(1..Len(log'))
  BY <1>1, PositionsAre
<1>4. live \o Positions(events) \in Seq(1..Len(log'))
  BY <1>2, <1>3
<1> QED BY <1>1, <1>2, <1>4 DEF LogTypes

\* So does one more event, shown or not.
LEMMA Appended ==
    ASSUME LogTypes, NEW e \in AnyEvent, log' = Append(log, e), pending' = pending,
           live' = live \/ live' = Append(live, Len(log) + 1)
    PROVE  LogTypes'
<1>1. log' \in Seq(AnyEvent) /\ Len(log') = Len(log) + 1 /\ Len(log) \in Nat
  BY DEF LogTypes
<1>2. live \in Seq(1..Len(log')) /\ pending \in Seq(1..Len(log'))
  BY <1>1, SeqGrows DEF LogTypes
<1>3. Len(log) + 1 \in 1..Len(log')
  BY <1>1
<1>4. Append(live, Len(log) + 1) \in Seq(1..Len(log'))
  BY <1>2, <1>3
<1> QED BY <1>1, <1>2, <1>4 DEF LogTypes

LEMMA LogStays ==
    ASSUME LogTypes, UNCHANGED <<log, live, pending>>
    PROVE  LogTypes'
BY DEF LogTypes

\* The blocks of a message without their markers.
LEMMA StripType == ASSUME NEW text \in Text PROVE StripBlocks(text) \in Text
<1>1. \A i \in DOMAIN text : StripBlock(text[i]) \in {"plain", "ended", "bare"}
  BY DEF Text, StripBlock
<1>2. DOMAIN text = 1..Len(text) /\ Len(text) \in Nat
  BY DEF Text
<1> QED BY <1>1, <1>2 DEF StripBlocks, Text

\* The texts of a draft, recorded as notes or as the answer, are events.
LEMMA TextsRecorded ==
    ASSUME NEW raw \in Seq(Message), NEW rejected \in BOOLEAN
    PROVE  FlattenSeq([i \in DOMAIN raw |-> [k \in DOMAIN raw[i].text |->
                Event(ContentType(raw[i], rejected), <<raw[i].text[k]>>)]]) \in Seq(AnyEvent)
<1> DEFINE Part(i) == [k \in DOMAIN raw[i].text |->
                          Event(ContentType(raw[i], rejected), <<raw[i].text[k]>>)]
<1>1. ASSUME NEW i \in 1..Len(raw) PROVE Part(i) \in Seq(AnyEvent)
  <2>m. raw[i] \in Message
    OBVIOUS
  <2>1. raw[i].text \in Text
    BY <2>m DEF Message
  <2> DEFINE text == raw[i].text
             type == ContentType(raw[i], rejected)
  <2>2. text \in Seq({"plain", "ended", "bare"}) /\ type \in Types
    BY <2>1 DEF ContentType, Text, Types
  <2>3. Part(i) = [k \in 1..Len(text) |-> Event(type, <<text[k]>>)] /\ Len(text) \in Nat
    BY <2>2
  <2> HIDE DEF text, type, Part
  <2>4. \A k \in 1..Len(text) : <<text[k]>> \in Text
    BY <2>2 DEF Text
  <2>5. \A k \in 1..Len(text) : Event(type, <<text[k]>>) \in AnyEvent
    BY <2>2, <2>4 DEF Event, AnyEvent
  <2> QED BY <2>3, <2>5
<1>2. DOMAIN raw = 1..Len(raw) /\ Len(raw) \in Nat
  OBVIOUS
<1> DEFINE parts == [i \in DOMAIN raw |-> Part(i)]
<1>3. parts \in Seq(Seq(AnyEvent))
  <2> HIDE DEF Part
  <2> QED BY <1>1, <1>2
<1>4. FlattenSeq(parts) \in Seq(AnyEvent)
  <2> HIDE DEF parts
  <2> QED BY <1>3, Joined
<1> QED BY <1>4

\* So are those an answer is completed with.
LEMMA ContentRecorded ==
    ASSUME TurnTypes, draft.raw # <<>>
    PROVE  ContentEvents \in Seq(AnyEvent)
<1> DEFINE Of(raw, rejected) ==
              FlattenSeq([i \in DOMAIN raw |-> [k \in DOMAIN raw[i].text |->
                  Event(ContentType(raw[i], rejected), <<raw[i].text[k]>>)]])
<1>1. first.raw \in Seq(Message) /\ draft.raw \in Seq(Message)
  BY DEF TurnTypes, Draft
<1>2. AcceptedRaw \in Seq(Message)
  <2>1. Last(draft.raw) \in Message /\ Front(draft.raw) \in Seq(Message)
    BY <1>1 DEF Last, Front
  <2> DEFINE last == Last(draft.raw)
             front == Front(draft.raw)
  <2>2. last \in Message /\ front \in Seq(Message)
    BY <2>1
  <2>3. AcceptedRaw = IF setting.active
                      THEN Append(front, [last EXCEPT !.text = StripBlocks(last.text)])
                      ELSE draft.raw
    BY DEF AcceptedRaw
  <2> HIDE DEF last, front
  <2>4. StripBlocks(last.text) \in Text
    BY <2>2, StripType DEF Message
  <2>5. [last EXCEPT !.text = StripBlocks(last.text)] \in Message
    BY <2>2, <2>4 DEF Message
  <2> QED BY <1>1, <2>2, <2>3, <2>5
<1>3. Of(first.raw, TRUE) \in Seq(AnyEvent)
  BY <1>1, TextsRecorded
<1>4. Of(AcceptedRaw, FALSE) \in Seq(AnyEvent)
  BY <1>2, TextsRecorded
<1>5. ContentEvents = Of(first.raw, TRUE) \o Of(AcceptedRaw, FALSE)
  BY DEF ContentEvents
<1> DEFINE rejected == Of(first.raw, TRUE)
           accepted == Of(AcceptedRaw, FALSE)
<1>6. rejected \in Seq(AnyEvent) /\ accepted \in Seq(AnyEvent) /\ ContentEvents = rejected \o accepted
  BY <1>3, <1>4, <1>5
<1> HIDE DEF rejected, accepted
<1> QED BY <1>6

-----------------------------------------------------------------------------
(* The steps *)

LEMMA AnswerInitial == AnswerInit => AnswerInv
<1> SUFFICES ASSUME AnswerInit PROVE AnswerInv
  OBVIOUS
<1>1. NoDraft \in Draft
  BY DEF NoDraft, Draft
<1>2. TurnTypes
  <2>1. verdict.text = <<>> /\ verdict.text \in Text
    BY DEF AnswerInit, Nothing, Text
  <2>2. first \in Draft /\ draft \in Draft
    BY <1>1 DEF AnswerInit
  <2>3. queue = <<>> /\ seen = FALSE
    BY DEF AnswerInit
  <2>4. seen \in BOOLEAN
    BY <2>3, Zenon
  <2>5. queue \in Seq(Use)
    BY <2>3
  <2> QED BY <2>1, <2>2, <2>4, <2>5 DEF AnswerInit, TurnTypes
<1>3. LogTypes
  BY DEF AnswerInit, LogTypes
<1> QED BY <1>2, <1>3 DEF AnswerInit, AnswerInv, TurnStages, Accepted, Kept

\* A failed turn is judged no more.
LEMMA FailKeeps == ASSUME AnswerInv, FailTurn, queue = <<>> PROVE AnswerInv'
<1>1. Event("failed", <<>>) \in AnyEvent
  BY DEF Event, AnyEvent, Text, Types
<1>2. LogTypes'
  <2>1. LogTypes /\ log' = Append(log, Event("failed", <<>>)) /\ pending' = pending
        /\ (live' = live \/ live' = Append(live, Len(log) + 1))
    BY DEF FailTurn, AnswerInv
  <2> QED BY <1>1, <2>1, Appended
<1>3. TurnTypes' /\ TurnStages' /\ Accepted' /\ Kept'
  BY DEF FailTurn, AnswerInv, TurnTypes, TurnStages, Accepted, Kept
<1> QED BY <1>2, <1>3 DEF AnswerInv

LEMMA ThinkKeeps == ASSUME AnswerInv, OnlyThinks PROVE AnswerInv'
<1>1. LogTypes'
  BY LogStays DEF OnlyThinks, AnswerInv
<1>2. draft \in Draft /\ draft.retries + 1 \in 0..MaxRetries
  BY DEF AnswerInv, TurnTypes, OnlyThinks, MayRetry, Draft
<1>3. draft' \in Draft
  BY <1>2 DEF OnlyThinks, Draft
<1>4. TurnTypes'
  BY <1>3 DEF AnswerInv, TurnTypes, OnlyThinks
<1>5. TurnStages' /\ Accepted' /\ Kept'
  BY DEF AnswerInv, OnlyThinks, TurnStages, Accepted, Kept
<1> QED BY <1>1, <1>4, <1>5 DEF AnswerInv

\* What the stream shows of a message are events.
LEMMA TextsAreEvents ==
    ASSUME NEW text \in Texts \cup NoteTexts, NEW uses
    PROVE  TextEvents(text, uses) \in Seq(AnyEvent)
<1>t. text \in Text /\ DOMAIN text = 1..Len(text) /\ Len(text) \in Nat
  BY DEF Text
<1>1. CASE ShownType(uses) = {}
  BY <1>1 DEF TextEvents
<1>2. CASE ShownType(uses) # {}
  <2> DEFINE type == CHOOSE type \in ShownType(uses) : TRUE
  <2>1. type \in Types
    <3>1. type \in ShownType(uses)
      BY <1>2
    <3>2. ShownType(uses) \subseteq Types
      BY DEF ShownType, Types
    <3> QED BY <3>1, <3>2
  <2> HIDE DEF type
  <2>2. \A i \in 1..Len(text) : <<StripBlock(text[i])>> \in Text
    BY <1>t DEF Text, StripBlock
  <2>3. \A i \in 1..Len(text) : Event(type, <<StripBlock(text[i])>>) \in AnyEvent
    BY <2>1, <2>2 DEF Event, AnyEvent
  <2>4. TextEvents(text, uses) = [i \in 1..Len(text) |-> Event(type, <<StripBlock(text[i])>>)]
    BY <1>t, <1>2 DEF TextEvents, type
  <2> QED BY <1>t, <2>3, <2>4
<1> QED BY <1>1, <1>2

\* What the model says is a text of its message, with the ids of the calls.
LEMMA SpeakKeeps ==
    ASSUME AnswerInv, NEW text \in Texts \cup NoteTexts, NEW uses \in Uses, Speaks(text, uses)
    PROVE  AnswerInv'
<1>1. text \in Text /\ DOMAIN text = 1..Len(text) /\ Len(text) \in Nat
  BY DEF Text
<1>2. Calls \in Seq(Call) /\ Len(Calls) \in Nat
  BY DEF AnswerInv, TurnTypes, Draft, Calls
<1>3. uses \in Seq(Use)
  <2> DEFINE start == Len(Calls)
  <2>1. PICK n \in 0..(MaxCalls - start) : \E ops \in [1..n -> Ops] :
               uses = [i \in 1..Len(ops) |-> [id |-> start + i, op |-> ops[i]]]
    BY DEF Uses
  <2>o. PICK ops \in [1..n -> Ops] :
               uses = [i \in 1..Len(ops) |-> [id |-> start + i, op |-> ops[i]]]
    BY <2>1
  <2>2. Len(ops) = n /\ n \in Nat /\ start \in Nat
    BY <1>2
  <2> HIDE DEF start
  <2>3. \A i \in 1..n : [id |-> start + i, op |-> ops[i]] \in Use
    BY <2>2 DEF Use
  <2> QED BY <2>o, <2>2, <2>3
<1>4. Ids(uses) \in Seq(Nat)
  <2>1. Len(uses) \in Nat /\ DOMAIN uses = 1..Len(uses) /\ \A i \in 1..Len(uses) : uses[i] \in Use
    BY <1>3
  <2>2. \A i \in 1..Len(uses) : uses[i].id \in Nat
    BY <2>1 DEF Use
  <2>3. Ids(uses) = [i \in 1..Len(uses) |-> uses[i].id]
    BY <2>1 DEF Ids
  <2> QED BY <2>1, <2>2, <2>3
<1>5. Said(text, Ids(uses)) \in Message
  BY <1>1, <1>4 DEF Said, Message
<1>6. draft \in Draft /\ draft' = [draft EXCEPT !.raw = Append(draft.raw, Said(text, Ids(uses)))]
  BY DEF Speaks, AnswerInv, TurnTypes
<1>7. draft' \in Draft /\ draft'.raw # <<>>
  <2>1. draft.raw \in Seq(Message)
    BY <1>6 DEF Draft
  <2>2. Append(draft.raw, Said(text, Ids(uses))) \in Seq(Message)
        /\ Append(draft.raw, Said(text, Ids(uses))) # <<>>
    BY <1>5, <2>1
  <2> HIDE DEF Said, Ids
  <2> QED BY <1>6, <2>2 DEF Draft
<1>8. TextEvents(text, uses) \in Seq(AnyEvent)
  BY TextsAreEvents
<1>9. LogTypes'
  <2>1. LogTypes /\ Record(<<>>, TextEvents(text, uses)) /\ <<>> \in Seq(AnyEvent)
    BY DEF AnswerInv, Speaks
  <2> QED BY <1>8, <2>1, Recorded
<1>10. /\ queue' = uses /\ at' = (IF uses = <<>> THEN "judge" ELSE "tool")
       /\ UNCHANGED <<setting, base, first, verdict, stored>> /\ seen' \in BOOLEAN
  BY DEF Speaks
<1>11. TurnTypes' /\ TurnStages' /\ Accepted' /\ Kept'
  BY <1>3, <1>7, <1>10 DEF AnswerInv, TurnTypes, TurnStages, Accepted, Kept
<1> QED BY <1>9, <1>11 DEF AnswerInv

\* The first of the calls that wait.
LEMMA HeadIs ==
    ASSUME AnswerInv, at \in {"tool", "running"}
    PROVE  /\ Head(queue) \in Use /\ Tail(queue) \in Seq(Use)
           /\ \A type \in Types : Event(type, <<Head(queue).id>>) \in AnyEvent
<1>1. queue \in Seq(Use) /\ queue # <<>>
  BY DEF AnswerInv, TurnTypes, TurnStages
<1>2. Head(queue) \in Use /\ Tail(queue) \in Seq(Use)
  BY <1>1
<1>3. <<Head(queue).id>> \in Seq(Nat)
  BY <1>2 DEF Use
<1> QED BY <1>2, <1>3 DEF Event, AnyEvent

LEMMA StartKeeps == ASSUME AnswerInv, StartTool PROVE AnswerInv'
<1> DEFINE tools == <<Event("started", <<Head(queue).id>>)>>
<1>1. Event("started", <<Head(queue).id>>) \in AnyEvent
  BY HeadIs DEF StartTool, Types
<1>2. tools \in Seq(AnyEvent) /\ <<>> \in Seq(AnyEvent) /\ LogTypes /\ Record(tools, <<>>)
  BY <1>1 DEF StartTool, AnswerInv
<1>3. LogTypes'
  <2> HIDE DEF tools
  <2> QED BY <1>2, Recorded
<1>4. TurnTypes' /\ TurnStages' /\ Accepted' /\ Kept'
  BY DEF StartTool, AnswerInv, TurnTypes, TurnStages, Accepted, Kept
<1> QED BY <1>3, <1>4 DEF AnswerInv

LEMMA FinishKeeps ==
    ASSUME AnswerInv, NEW result \in Results, FinishTool(result)
    PROVE  AnswerInv'
<1> DEFINE call == [id |-> Head(queue).id, op |-> Head(queue).op, result |-> result]
           tools == <<Event("completed", <<call.id>>)>>
           shown == <<Event("returned", <<call.id>>)>>
<1>1. at = "running" /\ Record(tools, shown)
  BY DEF FinishTool
<1>2. Head(queue) \in Use /\ Tail(queue) \in Seq(Use)
  BY <1>1, HeadIs
<1>3. call \in Call
  BY <1>2 DEF Use, Call
<1>4. tools \in Seq(AnyEvent) /\ shown \in Seq(AnyEvent)
  <2>1. "completed" \in Types /\ "returned" \in Types
    BY DEF Types
  <2>2. Event("completed", <<call.id>>) \in AnyEvent /\ Event("returned", <<call.id>>) \in AnyEvent
    BY <1>1, <2>1, HeadIs
  <2> QED BY <2>2
<1>5. LogTypes'
  <2> HIDE DEF tools, shown
  <2> QED BY <1>1, <1>4, Recorded DEF AnswerInv
<1>6. draft \in Draft /\ draft' = [draft EXCEPT !.calls = Append(draft.calls, call)]
  BY DEF FinishTool, AnswerInv, TurnTypes
<1>7. draft' \in Draft
  <2> HIDE DEF call
  <2>1. Append(draft.calls, call) \in Seq(Call)
    BY <1>3, <1>6 DEF Draft
  <2> QED BY <1>6, <2>1 DEF Draft
<1>8. /\ queue' = Tail(queue) /\ at' = (IF Tail(queue) = <<>> THEN "request" ELSE "tool")
      /\ UNCHANGED <<setting, base, first, verdict, seen, stored>>
  BY DEF FinishTool
<1>9. TurnTypes' /\ TurnStages' /\ Accepted' /\ Kept'
  BY <1>2, <1>7, <1>8 DEF AnswerInv, TurnTypes, TurnStages, Accepted, Kept
<1> QED BY <1>5, <1>9 DEF AnswerInv

LEMMA JudgeRejects == ASSUME AnswerInv, at = "judge", Reject PROVE AnswerInv'
<1>1. queue = <<>>
  BY DEF AnswerInv, TurnStages
<1>2. CASE Corrected
  BY <1>1, <1>2, FailKeeps DEF Reject
<1>3. CASE ~Corrected
  <2>1. NoDraft \in Draft
    BY DEF NoDraft, Draft
  <2>2. LogTypes'
    BY <1>3, LogStays DEF Reject, AnswerInv
  <2>3. TurnTypes' /\ TurnStages' /\ Accepted' /\ Kept'
    BY <1>1, <1>3, <2>1 DEF Reject, AnswerInv, TurnTypes, TurnStages, Accepted, Kept
  <2> QED BY <2>2, <2>3 DEF AnswerInv
<1> QED BY <1>2, <1>3

\* An accepted draft passed on all its duties.
LEMMA AcceptKeeps ==
    ASSUME AnswerInv, at = "judge", Marked(FinalText) \/ Fallback, Accept(Duties)
    PROVE  AnswerInv'
<1>1. FinalText \in Text
  BY FinalTextIs DEF AnswerInv, TurnTypes, TurnStages
<1>2. /\ UNCHANGED <<setting, base, first, draft, queue, log, live, pending, seen, stored>>
      /\ at' = "accepted" /\ verdict' = [text |-> Public(FinalText), passed |-> Duties]
  BY DEF Accept
<1>3. verdict'.text = Public(FinalText) /\ verdict'.passed = Duties /\ verdict'.text \in Text
  BY <1>1, <1>2, PublicText
<1>4. LogTypes'
  BY <1>2, LogStays DEF AnswerInv
<1>5. TurnTypes' /\ TurnStages' /\ Kept'
  BY <1>2, <1>3 DEF AnswerInv, TurnTypes, TurnStages, Kept
<1>6. Accepted'
  BY <1>2, <1>3, DutiesStay DEF Accepted
<1> QED BY <1>4, <1>5, <1>6 DEF AnswerInv

LEMMA JudgeKeeps == ASSUME AnswerInv, Judge PROVE AnswerInv'
<1>1. at = "judge"
  BY DEF Judge
<1>2. CASE ~(Marked(FinalText) \/ Fallback)
  BY <1>1, <1>2, JudgeRejects DEF Judge
<1>3. CASE Marked(FinalText) \/ Fallback
  <2>1. Accept(Duties) \/ Reject
    BY <1>3 DEF Judge
  <2> QED BY <1>1, <1>3, <2>1, AcceptKeeps, JudgeRejects
<1> QED BY <1>2, <1>3

LEMMA UnjudgedKeeps == ASSUME AnswerInv, Unjudged PROVE AnswerInv'
<1>1. FinalText \in Text
  BY FinalTextIs DEF AnswerInv, TurnTypes, TurnStages, Unjudged
<1>2. LogTypes'
  BY LogStays DEF Unjudged, AnswerInv
<1>3. verdict'.text = FinalText
  BY DEF Unjudged
<1>4. TurnTypes' /\ TurnStages' /\ Accepted' /\ Kept'
  BY <1>1, <1>3 DEF Unjudged, AnswerInv, TurnTypes, TurnStages, Accepted, Kept
<1> QED BY <1>2, <1>4 DEF AnswerInv

LEMMA ShowKeeps == ASSUME AnswerInv, ShowAnswer PROVE AnswerInv'
<1>1. Event("answer", verdict.text) \in AnyEvent
  BY DEF AnswerInv, TurnTypes, Event, AnyEvent, Types
<1>2. LogTypes'
  BY <1>1, Appended DEF ShowAnswer, AnswerInv
<1>3. UNCHANGED <<setting, base, first, draft, queue, verdict, stored>>
      /\ at = "accepted" /\ at' = "store" /\ seen' = TRUE
  BY DEF ShowAnswer
<1>4. TurnTypes' /\ TurnStages' /\ Kept'
  BY <1>3 DEF AnswerInv, TurnTypes, TurnStages, Kept
<1>5. Accepted'
  BY <1>3, DutiesStay DEF AnswerInv, Accepted
<1> QED BY <1>2, <1>4, <1>5 DEF AnswerInv

LEMMA TurnCompletes == ASSUME AnswerInv, Complete PROVE AnswerInv'
<1>1. /\ UNCHANGED <<setting, base, first, draft, queue, verdict, pending, seen>>
      /\ at \in {"accepted", "store"} /\ at' = "completed"
      /\ stored' = [text |-> verdict.text, history |-> AddedHistory]
  BY DEF Complete
<1>2. stored'.text = verdict'.text
  BY <1>1
<1>3. TurnTypes' /\ TurnStages' /\ Kept'
  BY <1>1, <1>2 DEF AnswerInv, TurnTypes, TurnStages, Kept
<1>4. Accepted'
  BY <1>1, DutiesStay DEF AnswerInv, Accepted
<1>5. LogTypes'
  <2> DEFINE events == IF Unrecorded THEN ContentEvents ELSE <<>>
  <2>1. ContentEvents \in Seq(AnyEvent)
    BY <1>1, ContentRecorded DEF AnswerInv, TurnStages
  <2>2. events \in Seq(AnyEvent) /\ log' = log \o events
    BY <2>1 DEF Complete
  <2>3. live' = live \/ live' = live \o Positions(events)
    <3>1. CASE setting.stream /\ Unrecorded
      BY <3>1 DEF Complete
    <3>2. CASE ~(setting.stream /\ Unrecorded)
      <4>1. live' = live \o <<>>
        BY <3>2 DEF Complete
      <4> QED BY <4>1 DEF AnswerInv, LogTypes
    <3> QED BY <3>1, <3>2
  <2> HIDE DEF events
  <2> QED BY <1>1, <2>2, <2>3, Shown DEF AnswerInv
<1> QED BY <1>3, <1>4, <1>5 DEF AnswerInv

LEMMA AnswerStep == AnswerInv /\ [AnswerNext]_answerVars => AnswerInv'
<1> SUFFICES ASSUME AnswerInv, [AnswerNext]_answerVars PROVE AnswerInv'
  OBVIOUS
<1>1. CASE UNCHANGED answerVars
  <2>1. LogTypes'
    BY <1>1, LogStays DEF AnswerInv, answerVars
  <2>2. TurnTypes' /\ TurnStages' /\ Kept'
    BY <1>1 DEF AnswerInv, answerVars, TurnTypes, TurnStages, Kept
  <2>3. Accepted'
    BY <1>1, DutiesStay DEF AnswerInv, answerVars, Accepted
  <2> QED BY <2>1, <2>2, <2>3 DEF AnswerInv
<1>2. CASE OnlyThinks
  BY <1>2, ThinkKeeps
<1>3. CASE ProviderFails
  <2>1. queue = <<>> /\ FailTurn
    BY <1>3 DEF ProviderFails, AnswerInv, TurnStages
  <2> QED BY <2>1, FailKeeps
<1>4. CASE \E text \in Texts \cup NoteTexts, uses \in Uses : Speaks(text, uses)
  BY <1>4, SpeakKeeps
<1>5. CASE StartTool
  BY <1>5, StartKeeps
<1>6. CASE \E result \in Results : FinishTool(result)
  BY <1>6, FinishKeeps
<1>7. CASE Unjudged
  BY <1>7, UnjudgedKeeps
<1>8. CASE Judge
  BY <1>8, JudgeKeeps
<1>9. CASE JudgeFails
  <2>1. queue = <<>> /\ FailTurn
    BY <1>9 DEF JudgeFails, AnswerInv, TurnStages
  <2> QED BY <2>1, FailKeeps
<1>10. CASE ShowAnswer
  BY <1>10, ShowKeeps
<1>11. CASE Complete
  BY <1>11, TurnCompletes
<1> QED BY <1>1, <1>2, <1>3, <1>4, <1>5, <1>6, <1>7, <1>8, <1>9, <1>10, <1>11 DEF AnswerNext

\* The inductive invariant of a turn.
THEOREM AnswerInvariant == AnswerSpec => []AnswerInv
BY AnswerInitial, AnswerStep, PTL DEF AnswerSpec

-----------------------------------------------------------------------------
(* What is stored was judged *)

\* The duties of a turn name every call that failed and every inspection that no
\* later call of the same operation made good.
LEMMA DutiesNameFailures ==
    ASSUME AnswerInv, NEW k \in DOMAIN Calls
    PROVE  /\ Calls[k].result # "ok" => Duty("action", Calls[k].id) \in Duties
           /\ Calls[k].op \in Inspections =>
                \/ Duty("capability", Calls[k].id) \in Duties
                \/ \E j \in (k + 1)..Len(Calls) :
                     Calls[j].op = Calls[k].op /\ Calls[j].result = "ok"
<1> DEFINE calls == Calls
<1>1. JudgedCalls = calls /\ ToolDuties(calls) \subseteq Duties
  BY DEF JudgedCalls, Duties, Manifest, Calls
<1> HIDE DEF calls
<1>2. ASSUME NEW i \in DOMAIN calls
      PROVE  /\ calls[i].result # "ok" => Duty("action", calls[i].id) \in ToolDuties(calls)
             /\ calls[i].op \in Inspections =>
                  \/ Duty("capability", calls[i].id) \in ToolDuties(calls)
                  \/ Recovered(calls, i)
  BY DEF ToolDuties
<1>3. ASSUME NEW i \in DOMAIN calls, Recovered(calls, i)
      PROVE  \E j \in (i + 1)..Len(calls) : calls[j].op = calls[i].op /\ calls[j].result = "ok"
  BY <1>3 DEF Recovered
<1>4. k \in DOMAIN calls
  BY DEF calls
<1>5. /\ calls[k].result # "ok" => Duty("action", calls[k].id) \in Duties
      /\ calls[k].op \in Inspections =>
           \/ Duty("capability", calls[k].id) \in Duties
           \/ \E j \in (k + 1)..Len(calls) : calls[j].op = calls[k].op /\ calls[j].result = "ok"
  BY <1>1, <1>2, <1>3, <1>4
<1> QED BY <1>5 DEF calls

\* Only an answer that was judged on all it owes, and found final, completes a turn:
\* _enforce_native_answer_obligations and _merge_answer_recovery_results, for any
\* texts, tool calls and obligations.
THEOREM AnswersAreJudged == AnswerSpec => []AnswerIsJudged
<1>1. AnswerInv => AnswerIsJudged
  <2> SUFFICES ASSUME AnswerInv PROVE AnswerIsJudged
    OBVIOUS
  <2>1. AnswerTypeOK
    <3>1. draft.retries \in 0..MaxRetries
      BY DEF AnswerInv, TurnTypes, Draft
    <3>2. ToSet(live) \cup ToSet(pending) \subseteq DOMAIN log
      BY DEF AnswerInv, LogTypes, ToSet
    <3> QED BY <3>1, <3>2 DEF AnswerTypeOK, AnswerInv, TurnTypes, TurnStages
  <2>2. NoFailureUnjudged
    <3> SUFFICES ASSUME at = "completed", setting.active, NEW k \in DOMAIN Calls
                 PROVE  /\ Calls[k].result # "ok" => Duty("action", Calls[k].id) \in verdict.passed
                        /\ Calls[k].op \in Inspections =>
                             \/ Duty("capability", Calls[k].id) \in verdict.passed
                             \/ \E j \in (k + 1)..Len(Calls) :
                                  Calls[j].op = Calls[k].op /\ Calls[j].result = "ok"
      BY DEF NoFailureUnjudged
    <3>1. verdict.passed = Duties
      BY DEF AnswerInv, Accepted
    <3> QED BY <3>1, DutiesNameFailures
  <2>3. OnlyFinalIsStored
    <3> SUFFICES ASSUME at = "completed", setting.active
                 PROVE  /\ stored.text = Public(FinalText)
                        /\ Marked(FinalText) \/ (Corrected /\ Finality \in verdict.passed)
      BY DEF OnlyFinalIsStored
    <3>1. /\ stored.text = verdict.text /\ verdict.text = Public(FinalText)
          /\ verdict.passed = Duties /\ (Marked(FinalText) \/ Fallback)
      BY DEF AnswerInv, Accepted, Kept
    <3>2. Fallback => Corrected /\ Finality \in Duties
      BY DEF Fallback, Duties
    <3> QED BY <3>1, <3>2
  <2> QED BY <2>1, <2>2, <2>3 DEF AnswerIsJudged
<1> QED BY <1>1, AnswerInvariant, PTL

-----------------------------------------------------------------------------
(* The stream shows the log *)

Rising(s) == \A i, j \in DOMAIN s : i < j => s[i] < s[j]

\* What is shown lies before what waits, until no tool can run any more.
Ahead == \A i \in DOMAIN live, j \in DOMAIN pending : live[i] < pending[j]
Working == at \in {"request", "tool", "running", "judge"}

\* Every event is shown or waits, and only while a tool runs does any wait.
WholeTurn ==
    /\ \A p \in 1..Len(log) : p \in ToSet(live) \/ p \in ToSet(pending)
    /\ at # "running" => pending = <<>>

StreamInv ==
    /\ Rising(live) /\ Rising(pending)
    /\ Working => Ahead
    /\ setting.stream /\ ~Corrected => WholeTurn

\* The elements of a sequence of positions.
LEMMA ElementsAre ==
    ASSUME NEW S, NEW s \in Seq(S)
    PROVE  (\A i \in DOMAIN s : s[i] \in S) /\ ToSet(s) \subseteq S
BY DEF ToSet

\* Two rising sequences, the one before the other, make a rising one.
LEMMA RisingJoin ==
    ASSUME NEW n \in Nat, NEW s \in Seq(1..n), NEW t \in Seq(1..n), Rising(s), Rising(t),
           \A i \in DOMAIN s, j \in DOMAIN t : s[i] < t[j]
    PROVE  Rising(s \o t)
<1>1. Len(s) \in Nat /\ Len(t) \in Nat /\ DOMAIN s = 1..Len(s) /\ DOMAIN t = 1..Len(t)
  OBVIOUS
<1>2. DOMAIN (s \o t) = 1..(Len(s) + Len(t))
  OBVIOUS
<1>3. ASSUME NEW i \in 1..Len(s) PROVE (s \o t)[i] = s[i]
  OBVIOUS
<1>4. ASSUME NEW i \in 1..(Len(s) + Len(t)), Len(s) < i
      PROVE  (s \o t)[i] = t[i - Len(s)] /\ i - Len(s) \in 1..Len(t)
  BY <1>1, <1>4
<1> DEFINE joined == s \o t
           m == Len(s)
<1>5. /\ DOMAIN joined = 1..(m + Len(t)) /\ m \in Nat
      /\ \A i \in 1..m : joined[i] = s[i]
      /\ \A i \in 1..(m + Len(t)) : m < i => joined[i] = t[i - m] /\ i - m \in 1..Len(t)
  BY <1>1, <1>2, <1>3, <1>4
<1> HIDE DEF joined, m
<1>6. SUFFICES ASSUME NEW i \in 1..(m + Len(t)), NEW j \in 1..(m + Len(t)), i < j
               PROVE  joined[i] < joined[j]
  BY <1>5 DEF Rising, joined
<1>7. CASE j <= m
  <2>1. i \in 1..m /\ j \in 1..m
    BY <1>1, <1>5, <1>6, <1>7
  <2> QED BY <1>1, <1>5, <1>6, <2>1 DEF Rising, m
<1>8. CASE m < i
  <2>1. m < j /\ i - m < j - m
    BY <1>1, <1>5, <1>6, <1>8
  <2> QED BY <1>1, <1>5, <1>8, <2>1 DEF Rising
<1>9. CASE i <= m /\ m < j
  <2>1. i \in 1..m
    BY <1>1, <1>5, <1>9
  <2> QED BY <1>1, <1>5, <1>9, <2>1 DEF m
<1> QED BY <1>1, <1>5, <1>7, <1>8, <1>9

\* What a joined sequence holds.
LEMMA JoinHolds ==
    ASSUME NEW M, NEW s \in Seq(M), NEW t \in Seq(M)
    PROVE  ToSet(s) \cup ToSet(t) = ToSet(s \o t)
<1>1. /\ Len(s) \in Nat /\ Len(t) \in Nat /\ DOMAIN s = 1..Len(s) /\ DOMAIN t = 1..Len(t)
      /\ DOMAIN (s \o t) = 1..(Len(s) + Len(t))
  OBVIOUS
<1>2. \A i \in DOMAIN s : i \in DOMAIN (s \o t) /\ (s \o t)[i] = s[i]
  BY <1>1
<1>3. \A i \in DOMAIN t : Len(s) + i \in DOMAIN (s \o t) /\ (s \o t)[Len(s) + i] = t[i]
  BY <1>1
<1>4. ASSUME NEW i \in DOMAIN (s \o t)
      PROVE  (s \o t)[i] \in ToSet(s) \/ (s \o t)[i] \in ToSet(t)
  <2>1. CASE i <= Len(s)
    BY <1>1, <1>2, <2>1 DEF ToSet
  <2>2. CASE Len(s) < i
    <3>1. i - Len(s) \in DOMAIN t /\ (s \o t)[i] = t[i - Len(s)]
      BY <1>1, <2>2
    <3> QED BY <3>1 DEF ToSet
  <2> QED BY <1>1, <2>1, <2>2
<1> DEFINE joined == s \o t
<1>5. /\ \A i \in DOMAIN s : s[i] \in ToSet(joined)
      /\ \A i \in DOMAIN t : t[i] \in ToSet(joined)
  BY <1>2, <1>3 DEF ToSet
<1>6. \A i \in DOMAIN joined : joined[i] \in ToSet(s) \cup ToSet(t)
  BY <1>4
<1> HIDE DEF joined
<1>7. ToSet(s) \cup ToSet(t) \subseteq ToSet(joined)
  BY <1>5 DEF ToSet
<1>8. ToSet(joined) \subseteq ToSet(s) \cup ToSet(t)
  BY <1>6 DEF ToSet
<1> QED BY <1>7, <1>8 DEF joined

\* The new positions rise, lie behind the log, and are all that is behind it.
LEMMA PositionsRise ==
    ASSUME LogTypes, NEW events \in Seq(AnyEvent)
    PROVE  /\ Rising(Positions(events))
           /\ \A i \in DOMAIN Positions(events) : Len(log) < Positions(events)[i]
           /\ \A p \in 1..(Len(log) + Len(events)) :
                p \in 1..Len(log) \/ p \in ToSet(Positions(events))
<1> DEFINE n == Len(log)
           p == Positions(events)
<1>1. n \in Nat /\ Len(events) \in Nat /\ DOMAIN events = 1..Len(events)
  BY DEF LogTypes
<1>2. DOMAIN p = 1..Len(events) /\ \A i \in 1..Len(events) : p[i] = n + i
  BY <1>1 DEF Positions
<1> HIDE DEF n, p
<1>3. Rising(p) /\ \A i \in DOMAIN p : n < p[i]
  BY <1>1, <1>2 DEF Rising
<1>4. ASSUME NEW q \in 1..(n + Len(events)), q \notin 1..n PROVE q \in ToSet(p)
  <2>1. q - n \in 1..Len(events) /\ p[q - n] = q
    BY <1>1, <1>2, <1>4
  <2> QED BY <1>2, <2>1 DEF ToSet
<1> QED BY <1>3, <1>4 DEF n, p

\* Recording keeps the order, and while the stream is on it loses nothing.
LEMMA RecordKeepsStream ==
    ASSUME AnswerInv, StreamInv, Working,
           NEW tools \in Seq(AnyEvent), NEW events \in Seq(AnyEvent), Record(tools, events),
           at' = "running" \/ events # <<>> \/ (tools = <<>> /\ at # "running"),
           UNCHANGED <<setting, first>>
    PROVE  StreamInv'
<1>1. LogTypes /\ LogTypes'
  BY Recorded DEF AnswerInv
<1> DEFINE more == IF Streams THEN events ELSE <<>>
           n == Len(log)
<1>2. /\ more \in Seq(AnyEvent) /\ log' = (log \o tools) \o more /\ log \in Seq(AnyEvent)
      /\ n \in Nat /\ live \in Seq(1..n) /\ pending \in Seq(1..n)
  BY <1>1 DEF Record, LogTypes
<1> HIDE DEF more
<1>3. Len(log') = n + Len(tools) + Len(more)
      /\ Len(tools) \in Nat /\ Len(more) \in Nat /\ Len(events) \in Nat
  BY <1>2
<1> DEFINE m == Len(log')
<1>4. m \in Nat /\ n <= m /\ m = n + Len(tools) + Len(more)
  BY <1>2, <1>3
<1> HIDE DEF n, m
<1>5. live \in Seq(1..m) /\ pending \in Seq(1..m) /\ live \in Seq(1..n) /\ pending \in Seq(1..n)
  BY <1>2, <1>4, SeqGrows
<1>6. Rising(live) /\ Rising(pending) /\ Ahead
  BY DEF StreamInv
<1>7. /\ \A i \in DOMAIN live : live[i] \in 1..n
      /\ \A i \in DOMAIN pending : pending[i] \in 1..n
  BY <1>5, ElementsAre
<1>l. m \in Nat /\ n \in Nat /\ n + Len(tools) \in Nat /\ n <= m /\ n + Len(tools) <= m
  BY <1>2, <1>3, <1>4
<1>8. CASE Streams /\ events # <<>>
  <2> DEFINE all == tools \o events
             new == Positions(all)
             old == live \o pending
  <2>1. more = events /\ all \in Seq(AnyEvent) /\ Len(all) = Len(tools) + Len(events)
    BY <1>8 DEF more
  <2>2. live' = old \o new /\ pending' = <<>>
    BY <1>8 DEF Record
  <2> HIDE DEF all
  <2>3. new \in Seq(1..m) /\ Rising(new) /\ \A i \in DOMAIN new : n < new[i]
    <3>1. new \in Seq(1..(n + Len(all)))
      BY <1>1, <2>1, PositionsAre DEF n
    <3>2. n + Len(all) = m
      BY <1>2, <1>3, <1>4, <2>1
    <3>3. Rising(new) /\ \A i \in DOMAIN new : n < new[i]
      BY <1>1, <2>1, PositionsRise DEF n
    <3> QED BY <3>1, <3>2, <3>3
  <2>4. \A q \in 1..m : q \in 1..n \/ q \in ToSet(new)
    <3>1. \A q \in 1..(n + Len(all)) : q \in 1..n \/ q \in ToSet(new)
      BY <1>1, <2>1, PositionsRise DEF n
    <3>2. n + Len(all) = m
      BY <1>2, <1>3, <1>4, <2>1
    <3> QED BY <3>1, <3>2
  <2> HIDE DEF new
  <2>5. old \in Seq(1..m) /\ old \in Seq(1..n) /\ Rising(old)
    <3>1. old \in Seq(1..m) /\ old \in Seq(1..n)
      BY <1>5
    <3>2. \A i \in DOMAIN live, j \in DOMAIN pending : live[i] < pending[j]
      BY <1>6 DEF Ahead
    <3> QED BY <1>2, <1>6, <3>1, <3>2, RisingJoin
  <2>6. ToSet(old) = ToSet(live) \cup ToSet(pending)
    BY <1>5, JoinHolds
  <2> HIDE DEF old
  <2>7. \A i \in DOMAIN old, j \in DOMAIN new : old[i] < new[j]
    <3>1. \A i \in DOMAIN old : old[i] \in 1..n
      BY <2>5, ElementsAre
    <3>2. \A j \in DOMAIN new : new[j] \in 1..m /\ n < new[j]
      BY <2>3, ElementsAre
    <3> HIDE DEF new
    <3> QED BY <1>l, <3>1, <3>2
  <2>8. Rising(live') /\ Rising(pending') /\ Ahead'
    <3>1. Rising(old \o new)
      BY <1>4, <2>3, <2>5, <2>7, RisingJoin
    <3>2. Rising(pending') /\ Ahead'
      BY <2>2 DEF Rising, Ahead
    <3> QED BY <2>2, <3>1, <3>2
  <2>9. ASSUME WholeTurn PROVE WholeTurn'
    <3>1. ToSet(live') = ToSet(old) \cup ToSet(new)
      BY <2>2, <2>3, <2>5, JoinHolds
    <3>2. \A q \in 1..n : q \in ToSet(live) \/ q \in ToSet(pending)
      BY <2>9 DEF WholeTurn, n
    <3>3. \A q \in 1..m : q \in ToSet(live')
      BY <2>4, <2>6, <3>1, <3>2
    <3> QED BY <2>2, <3>3 DEF WholeTurn, m
  <2> QED BY <2>8, <2>9 DEF StreamInv, Corrected
<1>9. CASE ~(Streams /\ events # <<>>)
  <2> DEFINE new == Positions(tools)
  <2>1. live' = live /\ pending' = (IF setting.stream THEN pending \o new ELSE pending)
    BY <1>9 DEF Record
  <2>2. new \in Seq(1..m) /\ Rising(new) /\ \A i \in DOMAIN new : n < new[i]
    <3>1. new \in Seq(1..(n + Len(tools)))
      BY <1>1, PositionsAre DEF n
    <3>3. new \in Seq(1..m)
      <4> HIDE DEF new
      <4> QED BY <1>l, <3>1, SeqGrows
    <3>4. Rising(new) /\ \A i \in DOMAIN new : n < new[i]
      BY <1>1, PositionsRise DEF n
    <3> QED BY <3>3, <3>4
  <2>3. \A q \in 1..(n + Len(tools)) : q \in 1..n \/ q \in ToSet(new)
    BY <1>1, PositionsRise DEF n
  <2>c. tools = <<>> => new = <<>>
    BY DEF Positions
  <2> HIDE DEF new
  <2> DEFINE waits == pending \o new
  <2>4. \A i \in DOMAIN pending, j \in DOMAIN new : pending[i] < new[j]
    <3>1. \A j \in DOMAIN new : new[j] \in 1..m /\ n < new[j]
      BY <2>2, ElementsAre
    <3> QED BY <1>l, <1>7, <3>1
  <2>5. Rising(waits)
    BY <1>4, <1>5, <1>6, <2>2, <2>4, RisingJoin
  <2>6. ToSet(waits) = ToSet(pending) \cup ToSet(new)
    BY <1>5, <2>2, JoinHolds
  <2>7. waits \in Seq(1..m)
    BY <1>5, <2>2
  <2>8. \A i \in DOMAIN live, j \in DOMAIN waits : live[i] < waits[j]
    <3>1. \A q \in ToSet(pending), i \in DOMAIN live : live[i] < q
      BY <1>6 DEF Ahead, ToSet
    <3>2. \A q \in ToSet(new), i \in DOMAIN live : live[i] < q
      <4>1. \A j \in DOMAIN new : new[j] \in 1..m /\ n < new[j]
        BY <2>2, ElementsAre
      <4>2. \A q \in ToSet(new) : q \in 1..m /\ n < q
        BY <4>1 DEF ToSet
      <4> QED BY <1>l, <1>7, <4>2
    <3>3. \A j \in DOMAIN waits : waits[j] \in ToSet(waits)
      BY DEF ToSet
    <3> QED BY <2>6, <3>1, <3>2, <3>3
  <2>9. Rising(live') /\ Rising(pending') /\ Ahead'
    <3> HIDE DEF waits
    <3>1. pending' = waits \/ pending' = pending
      BY <2>1 DEF waits
    <3>2. Rising(pending')
      BY <1>6, <2>5, <3>1
    <3>3. Ahead'
      BY <1>6, <2>1, <2>8, <3>1 DEF Ahead
    <3> QED BY <1>6, <2>1, <3>2, <3>3
  <2>10. ASSUME setting.stream, ~Corrected, WholeTurn PROVE WholeTurn'
    <3>1. events = <<>> /\ more = <<>>
      BY <1>9, <2>10 DEF Streams, more
    <3>2. m = n + Len(tools)
      BY <1>2, <1>3, <1>4, <3>1
    <3>3. pending' = waits /\ live' = live
      BY <2>1, <2>10
    <3>4. \A q \in 1..n : q \in ToSet(live) \/ q \in ToSet(pending)
      BY <2>10 DEF WholeTurn, n
    <3>5. \A q \in 1..m : q \in ToSet(live') \/ q \in ToSet(pending')
      <4> HIDE DEF waits
      <4> QED BY <2>3, <2>6, <3>2, <3>3, <3>4
    <3>6. at' # "running" => pending' = <<>>
      <4>1. SUFFICES ASSUME at' # "running" PROVE pending' = <<>>
        OBVIOUS
      <4>2. tools = <<>> /\ at # "running"
        BY <3>1, <4>1
      <4>3. pending = <<>> /\ new = <<>>
        BY <2>10, <2>c, <4>2 DEF WholeTurn
      <4> QED BY <3>3, <4>3
    <3> QED BY <3>5, <3>6 DEF WholeTurn, m
  <2> QED BY <2>9, <2>10 DEF StreamInv, Corrected
<1> QED BY <1>8, <1>9

\* Once no tool can run any more, what is recorded is shown behind all that was shown.
LEMMA ShownKeepsStream ==
    ASSUME AnswerInv, StreamInv, NEW events \in Seq(AnyEvent), log' = log \o events,
           live' = live \/ live' = live \o Positions(events),
           setting.stream /\ ~Corrected => live' = live \o Positions(events) /\ at # "running",
           pending' = pending, at' \notin {"request", "tool", "running", "judge"},
           UNCHANGED <<setting, first>>
    PROVE  StreamInv'
<1> DEFINE n == Len(log)
           m == Len(log')
           new == Positions(events)
<1>1. LogTypes
  BY DEF AnswerInv
<1>2. n \in Nat /\ Len(events) \in Nat /\ m = n + Len(events) /\ m \in Nat /\ n <= m
  BY <1>1 DEF LogTypes
<1>3. /\ new \in Seq(1..(n + Len(events))) /\ Rising(new)
      /\ \A i \in DOMAIN new : n < new[i]
      /\ \A q \in 1..(n + Len(events)) : q \in 1..n \/ q \in ToSet(new)
  BY <1>1, PositionsAre, PositionsRise
<1>4. live \in Seq(1..n)
  BY <1>1 DEF LogTypes
<1> HIDE DEF n, m, new
<1>5. live \in Seq(1..m) /\ new \in Seq(1..m)
  BY <1>2, <1>3, <1>4, SeqGrows
<1>6. \A i \in DOMAIN live, j \in DOMAIN new : live[i] < new[j]
  <2>1. \A i \in DOMAIN live : live[i] \in 1..n
    BY <1>4, ElementsAre
  <2>2. \A j \in DOMAIN new : new[j] \in 1..m /\ n < new[j]
    BY <1>3, <1>5, ElementsAre
  <2> QED BY <1>2, <2>1, <2>2
<1>7. Rising(live) /\ Rising(pending)
  BY DEF StreamInv
<1>8. Rising(live \o new)
  BY <1>2, <1>3, <1>5, <1>6, <1>7, RisingJoin
<1>9. Rising(live') /\ Rising(pending') /\ ~Working'
  BY <1>7, <1>8 DEF new, Working
<1>10. ASSUME setting.stream, ~Corrected PROVE WholeTurn'
  <2>1. WholeTurn /\ at # "running" /\ live' = live \o new
    BY <1>10 DEF StreamInv, new
  <2>2. pending = <<>> /\ \A q \in 1..n : q \in ToSet(live)
    BY <2>1 DEF WholeTurn, ToSet, n
  <2>3. ToSet(live') = ToSet(live) \cup ToSet(new)
    BY <1>5, <2>1, JoinHolds
  <2>4. \A q \in 1..m : q \in ToSet(live')
    BY <1>2, <1>3, <2>2, <2>3
  <2> QED BY <2>2, <2>4 DEF WholeTurn, m
<1> QED BY <1>9, <1>10 DEF StreamInv, Corrected

\* One event, shown where there is a stream.
LEMMA OneShown ==
    ASSUME AnswerInv, StreamInv, NEW e \in AnyEvent, log' = Append(log, e),
           live' = (IF setting.stream THEN Append(live, Len(log) + 1) ELSE live),
           setting.stream /\ ~Corrected => at # "running",
           pending' = pending, at' \notin {"request", "tool", "running", "judge"},
           UNCHANGED <<setting, first>>
    PROVE  StreamInv'
<1> DEFINE events == <<e>>
<1>1. log \in Seq(AnyEvent) /\ live \in Seq(1..Len(log)) /\ Len(log) \in Nat
  BY DEF AnswerInv, LogTypes
<1>2. events \in Seq(AnyEvent) /\ log' = log \o events
  BY <1>1
<1>3. Positions(events) = <<Len(log) + 1>>
  BY <1>1 DEF Positions
<1>4. Append(live, Len(log) + 1) = live \o Positions(events)
  <2> DEFINE n == Len(log) + 1
             m == Len(log)
             s == live
  <2>1. s \in Seq(1..m) /\ n \in Nat
    BY <1>1
  <2> HIDE DEF n, m, s
  <2>2. Append(s, n) = s \o <<n>>
    <3>1. Len(s) \in Nat /\ DOMAIN s = 1..Len(s)
      BY <2>1
    <3>2. s \o <<n>> = [i \in 1..(Len(s) + 1) |-> IF i <= Len(s) THEN s[i] ELSE n]
      BY <2>1, <3>1
    <3> QED BY <2>1, <3>1, <3>2
  <2> QED BY <1>3, <2>2 DEF n, s
<1> HIDE DEF events
<1> QED BY <1>2, <1>4, ShownKeepsStream

LEMMA FailKeepsStream ==
    ASSUME AnswerInv, StreamInv, FailTurn, at # "running"
    PROVE  StreamInv'
<1>1. Event("failed", <<>>) \in AnyEvent
  BY DEF Event, AnyEvent, Text, Types
<1> QED BY <1>1, OneShown DEF FailTurn

\* What neither records nor starts a tool keeps the stream as it is.
LEMMA StillKeepsStream ==
    ASSUME AnswerInv, StreamInv, UNCHANGED <<setting, log, live, pending>>,
           at # "running" \/ at' = at, Working' => Working, Corrected' \/ first' = first
    PROVE  StreamInv'
<1>1. Rising(live') /\ Rising(pending')
  BY DEF StreamInv, Rising
<1>2. Working' => Ahead'
  BY DEF StreamInv, Ahead
<1>3. WholeTurn /\ (at # "running" \/ at' = at) => WholeTurn'
  BY DEF WholeTurn, ToSet
<1> QED BY <1>1, <1>2, <1>3 DEF StreamInv, Corrected

LEMMA RejectKeepsStream ==
    ASSUME AnswerInv, StreamInv, at = "judge", Reject
    PROVE  StreamInv'
<1>1. CASE Corrected
  BY <1>1, FailKeepsStream DEF Reject
<1>2. CASE ~Corrected
  <2>1. UNCHANGED <<setting, log, live, pending>> /\ at' = "request" /\ first' = draft
    BY <1>2 DEF Reject
  <2>2. Corrected'
    BY <2>1 DEF Corrected, AnswerInv, TurnStages
  <2> QED BY <2>1, <2>2, StillKeepsStream DEF Working
<1> QED BY <1>1, <1>2

LEMMA SpeakKeepsStream ==
    ASSUME AnswerInv, StreamInv, NEW text \in Texts \cup NoteTexts, NEW uses \in Uses,
           Speaks(text, uses)
    PROVE  StreamInv'
<1>1. at = "request" /\ at' \in {"judge", "tool"} /\ Record(<<>>, TextEvents(text, uses))
      /\ UNCHANGED <<setting, first>>
  BY DEF Speaks
<1>2. TextEvents(text, uses) \in Seq(AnyEvent) /\ <<>> \in Seq(AnyEvent)
  BY TextsAreEvents
<1> QED BY <1>1, <1>2, RecordKeepsStream DEF Working

LEMMA StartKeepsStream == ASSUME AnswerInv, StreamInv, StartTool PROVE StreamInv'
<1> DEFINE tools == <<Event("started", <<Head(queue).id>>)>>
<1>1. Event("started", <<Head(queue).id>>) \in AnyEvent
  BY HeadIs DEF StartTool, Types
<1>2. /\ tools \in Seq(AnyEvent) /\ <<>> \in Seq(AnyEvent) /\ Record(tools, <<>>)
      /\ at = "tool" /\ at' = "running" /\ UNCHANGED <<setting, first>>
  BY <1>1 DEF StartTool
<1> HIDE DEF tools
<1> QED BY <1>2, RecordKeepsStream DEF Working

LEMMA FinishKeepsStream ==
    ASSUME AnswerInv, StreamInv, NEW result \in Results, FinishTool(result)
    PROVE  StreamInv'
<1> DEFINE tools == <<Event("completed", <<Head(queue).id>>)>>
           shown == <<Event("returned", <<Head(queue).id>>)>>
<1>1. at = "running" /\ Record(tools, shown) /\ UNCHANGED <<setting, first>>
  BY DEF FinishTool
<1>2. "completed" \in Types /\ "returned" \in Types
  BY DEF Types
<1>3. tools \in Seq(AnyEvent) /\ shown \in Seq(AnyEvent) /\ shown # <<>>
  BY <1>1, <1>2, HeadIs
<1> HIDE DEF tools, shown
<1> QED BY <1>1, <1>3, RecordKeepsStream DEF Working

LEMMA ShowKeepsStream == ASSUME AnswerInv, StreamInv, ShowAnswer PROVE StreamInv'
<1>1. Event("answer", verdict.text) \in AnyEvent
  BY DEF AnswerInv, TurnTypes, Event, AnyEvent, Types
<1> QED BY <1>1, OneShown DEF ShowAnswer

LEMMA CompleteKeepsStream == ASSUME AnswerInv, StreamInv, Complete PROVE StreamInv'
<1> DEFINE events == IF Unrecorded THEN ContentEvents ELSE <<>>
<1>1. at \in {"accepted", "store"} /\ at' = "completed" /\ UNCHANGED <<setting, first, pending>>
  BY DEF Complete
<1>2. ContentEvents \in Seq(AnyEvent)
  BY <1>1, ContentRecorded DEF AnswerInv, TurnStages
<1>3. events \in Seq(AnyEvent) /\ log' = log \o events
  BY <1>2 DEF Complete
<1>4. live' = (IF setting.stream /\ Unrecorded THEN live \o Positions(ContentEvents) ELSE live)
  <2>1. live \o <<>> = live
    BY DEF AnswerInv, LogTypes
  <2> QED BY <2>1 DEF Complete
<1>5. live \o Positions(<<>>) = live
  BY DEF AnswerInv, LogTypes, Positions
<1>6. /\ live' = live \/ live' = live \o Positions(events)
      /\ setting.stream => live' = live \o Positions(events)
  BY <1>4, <1>5
<1> HIDE DEF events
<1> QED BY <1>1, <1>3, <1>6, ShownKeepsStream

LEMMA StreamStep == AnswerInv /\ StreamInv /\ [AnswerNext]_answerVars => StreamInv'
<1> SUFFICES ASSUME AnswerInv, StreamInv, [AnswerNext]_answerVars PROVE StreamInv'
  OBVIOUS
<1>1. CASE UNCHANGED answerVars
  BY <1>1, StillKeepsStream DEF answerVars, Working
<1>2. CASE OnlyThinks
  BY <1>2, StillKeepsStream DEF OnlyThinks, Working
<1>3. CASE ProviderFails
  BY <1>3, FailKeepsStream DEF ProviderFails
<1>4. CASE \E text \in Texts \cup NoteTexts, uses \in Uses : Speaks(text, uses)
  BY <1>4, SpeakKeepsStream
<1>5. CASE StartTool
  BY <1>5, StartKeepsStream
<1>6. CASE \E result \in Results : FinishTool(result)
  BY <1>6, FinishKeepsStream
<1>7. CASE Unjudged
  BY <1>7, StillKeepsStream DEF Unjudged, Working
<1>8. CASE Judge
  <2>1. at = "judge"
    BY <1>8 DEF Judge
  <2>2. Reject \/ Accept(Duties)
    BY <1>8 DEF Judge
  <2>3. ASSUME Accept(Duties) PROVE StreamInv'
    BY <2>1, <2>3, StillKeepsStream DEF Accept, Working
  <2> QED BY <2>1, <2>2, <2>3, RejectKeepsStream
<1>9. CASE JudgeFails
  BY <1>9, FailKeepsStream DEF JudgeFails
<1>10. CASE ShowAnswer
  BY <1>10, ShowKeepsStream
<1>11. CASE Complete
  BY <1>11, CompleteKeepsStream
<1> QED BY <1>1, <1>2, <1>3, <1>4, <1>5, <1>6, <1>7, <1>8, <1>9, <1>10, <1>11 DEF AnswerNext

\* The stream shows events in the order of the log, and all of them unless the turn
\* is corrected: the pending_runtime_events of the stream and its flush, for any
\* texts, tool calls and obligations.
THEOREM StreamShowsTheLog == AnswerSpec => [](LiveInOrder /\ SeenLive)
<1>1. AnswerInit => AnswerInv /\ StreamInv
  <2>1. AnswerInit => StreamInv
    BY DEF AnswerInit, StreamInv, Rising, Ahead, Working, WholeTurn
  <2> QED BY <2>1, AnswerInitial
<1>2. AnswerInv /\ StreamInv => LiveInOrder /\ SeenLive
  <2> SUFFICES ASSUME AnswerInv, StreamInv PROVE LiveInOrder /\ SeenLive
    OBVIOUS
  <2>1. LiveInOrder
    BY DEF StreamInv, Rising, LiveInOrder
  <2>2. ASSUME Ended, setting.stream, ~Corrected PROVE ToSet(live) = DOMAIN log
    <3>1. WholeTurn /\ at # "running"
      BY <2>2 DEF StreamInv, Ended
    <3>2. log \in Seq(AnyEvent) /\ live \in Seq(1..Len(log)) /\ DOMAIN log = 1..Len(log)
      BY DEF AnswerInv, LogTypes
    <3>3. ToSet(live) \subseteq 1..Len(log)
      BY <3>2, ElementsAre
    <3>4. \A p \in 1..Len(log) : p \in ToSet(live)
      BY <3>1 DEF WholeTurn, ToSet
    <3> QED BY <3>2, <3>3, <3>4
  <2> QED BY <2>1, <2>2 DEF SeenLive
<1> QED BY <1>1, <1>2, AnswerStep, StreamStep, PTL DEF AnswerSpec

=============================================================================
