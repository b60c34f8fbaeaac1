--------------------------- MODULE HistoryBudget ----------------------------
(***************************************************************************)
(* How much of a session's history is sent word for word: the estimate of  *)
(* a request in tokens (runtime/context_accounting.py), the trigger of a   *)
(* compaction (runtime/maintenance_scheduler.py) and the partition plan    *)
(* (build_history_partition_plan).  ProviderHistory, which lets the plan   *)
(* compact any prefix, has the races of the jobs; here a job runs at once  *)
(* or never, and sizes matter.                                             *)
(*                                                                         *)
(* A ratio is in half characters per token.                                *)
(***************************************************************************)
EXTENDS Integers, FiniteSets, SequencesExt

CONSTANTS
    TurnChars,      \* sizes of a turn, in characters
    SystemChars,    \* sizes of the rest of a request
    SummaryChars,   \* sizes of a summary
    Reported,       \* ratios a provider's usage may amount to
    Usable,         \* those between 1 and 12 characters per token
    FallbackRatio,  \* context_estimated_chars_per_token
    Recent,         \* observations that count (limit=20)
    Trigger, Limit, Window, SummaryTokens, VerbatimTokens, SafetyTokens,
    MaxUnits        \* bound: turns of the session

\* Settings.validate: what config.py requires of the budget.
ASSUME BudgetAssumption ==
    /\ {Trigger, Limit, Window, SummaryTokens, VerbatimTokens} \subseteq Nat \ {0}
    /\ {SafetyTokens, Recent, MaxUnits} \subseteq Nat
    /\ Limit <= Window /\ Trigger <= Limit
    /\ SummaryTokens + VerbatimTokens + SafetyTokens < Limit
    /\ FallbackRatio \in Usable /\ Usable \subseteq Nat \ {0}

VARIABLES
    units,      \* the completed turns, by their size
    artifact,   \* the active compaction: [covered, size, of, ratio]
    observed,   \* ratios of the context.accounting.observed traces
    asked,      \* the turn in flight: what its preflight measured
    budgetJob   \* the compaction job that waits

budgetVars == <<units, artifact, observed, asked, budgetJob>>

NoArtifact == [covered |-> 0, size |-> 0, of |-> 0, ratio |-> FallbackRatio]
NoTurn == [at |-> "none"]

\* A bug: rounded down.
TokensFaultDown(chars, ratio) == (2 * chars) \div ratio

\* _estimate_tokens: rounded up.
Tokens(chars, ratio) == (2 * chars + ratio - 1) \div ratio

\* The tokens of turns, each estimated alone; those from i to j.
TokensOf(turns, ratio) == FoldLeft(LAMBDA sum, c : sum + Tokens(c, ratio), 0, turns)
SpanTokens(i, j, ratio) == TokensOf(SubSeq(units, i, j), ratio)
SpanChars(i, j) == FoldLeft(+, 0, SubSeq(units, i, j))

-----------------------------------------------------------------------------
(* The estimate of a request *)

\* A bug: every reported ratio counts.
CountedFaultAll(ratio) == TRUE

Counted(ratio) == ratio \in Usable

\* _calibrated_chars_per_token: the median of the newest observations in range.
Calibrated ==
    LET skipped == IF Len(observed) > Recent THEN Len(observed) - Recent ELSE 0
        newest == SubSeq(observed, 1 + skipped, Len(observed))
        values == SortSeq(SelectSeq(newest, Counted), LAMBDA a, b : a < b)
        n == Len(values) IN
    IF n = 0 THEN FallbackRatio
    ELSE IF n % 2 = 1 THEN values[(n + 1) \div 2]
    ELSE (values[n \div 2] + values[n \div 2 + 1]) \div 2

\* build_context_accounting_preflight: all that is not provider history, the
\* summary included, is external context.
Preflight(system) ==
    LET ratio == Calibrated
        tail == SpanChars(artifact.covered + 1, Len(units))
        total == Tokens(system + artifact.size + tail, ratio) IN
    [at |-> "asked", ratio |-> ratio, covered |-> artifact.covered,
     chars |-> system + artifact.size + tail,
     external |-> IF total > Tokens(tail, ratio) THEN total - Tokens(tail, ratio) ELSE 0]

AskModel(system) ==
    /\ asked = NoTurn /\ Len(units) < MaxUnits
    /\ asked' = Preflight(system)
    /\ UNCHANGED <<units, artifact, observed, budgetJob>>

\* The turn completes and what the provider reports is observed; a compaction is
\* scheduled when the history the model got and the rest reach the trigger.
TurnDone(chars, ratio) ==
    LET grown == Append(units, chars)
        tokens == TokensOf(SubSeq(grown, asked.covered + 1, Len(grown)), asked.ratio) IN
    /\ asked # NoTurn
    /\ units' = grown
    /\ observed' = Append(observed, ratio)
    /\ budgetJob' = IF tokens + asked.external >= Trigger
                    THEN [n |-> Len(grown), ratio |-> asked.ratio] ELSE NoTurn
    /\ asked' = NoTurn
    /\ UNCHANGED artifact

-----------------------------------------------------------------------------
(* The partition plan *)

\* A bug: the turn that goes over the budget is kept too.
FitsFaultBefore(i, ratio) == SpanTokens(i + 1, Len(units), ratio) <= VerbatimTokens

\* A bug: the room of the summary is given to the turns once there is one.
FitsFaultRoom(i, ratio) ==
    SpanTokens(i, Len(units), ratio)
        <= VerbatimTokens + (IF artifact = NoArtifact THEN 0 ELSE SummaryTokens)

Fits(i, ratio) == SpanTokens(i, Len(units), ratio) <= VerbatimTokens

NewestTokens(ratio) == Tokens(Last(units), ratio)

\* The newest turn alone is kept whole when it is over the budget but not over the
\* window of the model; when it is, nothing is compacted.
TooLarge(ratio) == NewestTokens(ratio) > VerbatimTokens /\ NewestTokens(ratio) > Window

\* build_history_partition_plan: the oldest turn that is kept, going back from the
\* newest as long as the budget lasts.
FirstKept(ratio) ==
    IF NewestTokens(ratio) > VerbatimTokens THEN Len(units)
    ELSE CHOOSE i \in 1..Len(units) :
            Fits(i, ratio) /\ (i = 1 \/ ~Fits(i - 1, ratio))

Compacted(ratio) == FirstKept(ratio) - 1

\* generate_history_compaction on the snapshot it was scheduled for.  Where the
\* plan compacts no turn more than the summary covers, that one stays; where it
\* compacts fewer, a new summary is made from scratch.
Compact(size) ==
    /\ budgetJob # NoTurn /\ budgetJob.n = Len(units)
    /\ ~TooLarge(budgetJob.ratio)
    /\ Compacted(budgetJob.ratio) \notin {0, artifact.covered}
    /\ artifact' = [covered |-> Compacted(budgetJob.ratio), size |-> size, of |-> Len(units),
                    ratio |-> budgetJob.ratio]
    /\ budgetJob' = NoTurn
    /\ UNCHANGED <<units, observed, asked>>

\* The job is stale, has nothing to do, or fails.
JobEnds ==
    /\ budgetJob # NoTurn
    /\ budgetJob' = NoTurn
    /\ UNCHANGED <<units, artifact, observed, asked>>

BudgetInit ==
    /\ units = <<>> /\ artifact = NoArtifact /\ observed = <<>>
    /\ asked = NoTurn /\ budgetJob = NoTurn

BudgetNext ==
    \/ \E system \in SystemChars : AskModel(system)
    \/ \E chars \in TurnChars, ratio \in Reported : TurnDone(chars, ratio)
    \/ \E size \in SummaryChars : Compact(size)
    \/ JobEnds

BudgetSpec == BudgetInit /\ [][BudgetNext]_budgetVars

-----------------------------------------------------------------------------
(* Properties *)

\* The tokens the kept turns had for the plan, when it was made.
KeptTokens(from) == SpanTokens(from, artifact.of, artifact.ratio)

\* A summary leaves turns word for word as far as the budget goes and no further;
\* the one exception is the newest turn alone, and that fits the model's window.
PlanKeepsMost ==
    artifact # NoArtifact =>
        /\ artifact.covered < artifact.of
        /\ \/ /\ KeptTokens(artifact.covered + 1) <= VerbatimTokens
              /\ KeptTokens(artifact.covered) > VerbatimTokens
           \/ /\ artifact.covered + 1 = artifact.of
              /\ KeptTokens(artifact.of) \in (VerbatimTokens + 1)..Window

\* What a provider reports, however absurd, never makes the estimate use a ratio
\* outside its range: it is divided by.
RatioInRange == \E low, high \in Usable : low <= Calibrated /\ Calibrated <= high

\* A summarised turn is sent word for word again only if the calibration has risen
\* since: at one ratio more turns never make the plan compact fewer.
CoverageGrows ==
    [][artifact'.covered < artifact.covered => artifact'.ratio > artifact.ratio]_artifact

\* A compaction is not missed for rounding: a turn that schedules none leaves a
\* next request, as the model would get it with what this one had beside the
\* history, below the trigger.
TriggerNotMissed ==
    [][asked # NoTurn /\ budgetJob' = NoTurn =>
        Tokens(asked.chars + Last(units'), asked.ratio) < Trigger]_units

\* Plans and estimates at any moment.
PlanIsRight == PlanKeepsMost /\ RatioInRange

\* Plans and estimates from one turn to the next.
BudgetSteps == CoverageGrows /\ TriggerNotMissed

=============================================================================
