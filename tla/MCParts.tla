------------------------------ MODULE MCParts -------------------------------
(***************************************************************************)
(* Instances for TLC of the parts that share no rows and no process state: *)
(* the organs' commands, the posture of a turn, the recall of memories,    *)
(* the budget of the history, the reference reducer, the commands of the   *)
(* shell, the rows derived from memories, the saved preferences, the review*)
(* of a previous turn and the repair of source messages.  A behaviour runs *)
(* one of them; the others rest in a first state of theirs.                *)
(***************************************************************************)
EXTENDS FocusVolition, ContextAffect, MemoryRecall, HistoryBudget, ReducerLoop,
        MindShell, RetrievalIndex, RuntimePreferences, Retrospection, ProvenanceRepair, TLC

CONSTANTS turn, turn2, m1, m2, s1, s2, p1, p2

VARIABLE part  \* the part this behaviour is about

TwoTurns == {turn, turn2}
TwoIndexed == {m1, m2}
TwoSavers == {s1, s2}
TwoLegacy == {p1, p2}
PartsSymmetry == Permutations(TwoTurns) \cup Permutations(TwoIndexed)

Says(counts) == [e \in CuedEmotions |-> IF e \in DOMAIN counts THEN counts[e] ELSE 0]
Plain == [cues |-> Says([curiosity |-> 0]), resolved |-> FALSE, question |-> FALSE,
          conflicts |-> 0, unselected |-> FALSE, failed |-> 0, completed |-> FALSE]
\* A plain message, two moods, a resolution, and what context and events add.
SomeInputs ==
    {Plain, [Plain EXCEPT !.cues = Says([curiosity |-> 2])],
     [Plain EXCEPT !.cues = Says([frustration |-> 3]), !.failed = 4],
     [Plain EXCEPT !.cues = Says([frustration |-> 3]), !.resolved = TRUE],
     [Plain EXCEPT !.question = TRUE, !.unselected = TRUE],
     [Plain EXCEPT !.conflicts = 3, !.cues = Says([caution |-> 1])],
     [Plain EXCEPT !.failed = 1, !.completed = TRUE]}

SomeSettings ==
    {[affect |-> "model", focus |-> "model", metacognition |-> "inject",
      routing |-> "active", default |-> "idle"],
     [affect |-> "shadow", focus |-> "off", metacognition |-> "shadow",
      routing |-> "shadow", default |-> "interactive"],
     [affect |-> "off", focus |-> "model", metacognition |-> "off",
      routing |-> "off", default |-> "idle"]}

FourMemories == 1..4
TheSurfaces == <<[memory |-> 3, promotable |-> TRUE], [memory |-> 2, promotable |-> FALSE],
                 [memory |-> 1, promotable |-> TRUE], [memory |-> 4, promotable |-> TRUE]>>
TheFacts == [m \in 1..4 |-> CASE m = 1 -> {[key |-> "k", value |-> 0]}
                              [] m = 2 -> {[key |-> "k", value |-> 1], [key |-> "l", value |-> 0]}
                              [] m = 3 -> {[key |-> "k", value |-> 0], [key |-> "k", value |-> 1]}
                              [] m = 4 -> {[key |-> "l", value |-> 0]}]
Signals(s, strong, g, u) == [score |-> s, strong |-> strong, graph |-> g, user |-> u]
TheBase == {<<Signals(4, TRUE, 0, FALSE), Signals(3, FALSE, 2, TRUE),
              Signals(2, FALSE, 0, FALSE), Signals(1, TRUE, 0, TRUE)>>}
TheSparse == {<<>>, <<1, 2, 4>>}
TheGraph == {<<>>, <<3, 1>>}
TheScores == {0, 4, 5}
TheModes == {[hybrid |-> "active", configured |-> TRUE], [hybrid |-> "active", configured |-> FALSE],
             [hybrid |-> "shadow", configured |-> TRUE], [hybrid |-> "off", configured |-> FALSE]}

FourNumbersTwoTwins ==
    {[seq |-> 1, id |-> 5], [seq |-> 2, id |-> 3], [seq |-> 2, id |-> 4],
     [seq |-> 3, id |-> 6], [seq |-> 4, id |-> 1], [seq |-> 4, id |-> 2]}

\* Ids as they should be, and ids that spell other routes.
SomeIds == {PlainId, <<"facts">>, <<"facts", "backfill">>, <<"write">>, <<"messages", "m">>,
            <<"s", "summarize">>}

TwoPreferences == <<"timezone", "language">>
AnyRows == [source : Sources, content : {"x", "y"}, fixture : BOOLEAN]

\* The parts of the last three modules.
smallVars == <<preferenceVars, retroVars, repairVars>>
SmallNext(p) ==
    \/ /\ p = "preferences" /\ PreferencesNext /\ UNCHANGED <<retroVars, repairVars>>
    \/ /\ p = "retrospection" /\ RetroNext /\ UNCHANGED <<preferenceVars, repairVars>>
    \/ /\ p = "repair" /\ RepairNext /\ UNCHANGED <<preferenceVars, retroVars>>

PartsInit ==
    /\ part \in {"organs", "posture", "recall", "budget", "reducer", "shell", "index",
                "preferences", "retrospection", "repair"}
    /\ FocusVolitionInit /\ PostureInit /\ RecallInit /\ BudgetInit /\ LoopInit
    /\ ShellInit /\ IndexInit /\ PreferencesInit /\ RetroInit /\ RepairInit
    /\ part # "posture" => settings.affect = "off"
    /\ part # "recall" => mode.hybrid = "off"
    /\ part # "repair" =>
         \A m \in Legacy : record[m].fixture /\ record[m].content = "x"
                          /\ record[m].source = "source_complete_valid"

PartsNext ==
    /\ UNCHANGED part
    /\ \/ /\ part = "organs" /\ FocusVolitionNext
          /\ UNCHANGED <<postureVars, recallVars, budgetVars, loopVars, shellVars, indexVars,
                         smallVars>>
       \/ /\ part = "posture" /\ PostureNext
          /\ UNCHANGED <<organVars, recallVars, budgetVars, loopVars, shellVars, indexVars,
                         smallVars>>
       \/ /\ part = "recall" /\ RecallNext
          /\ UNCHANGED <<organVars, postureVars, budgetVars, loopVars, shellVars, indexVars,
                         smallVars>>
       \/ /\ part = "budget" /\ BudgetNext
          /\ UNCHANGED <<organVars, postureVars, recallVars, loopVars, shellVars, indexVars,
                         smallVars>>
       \/ /\ part = "reducer" /\ LoopNext
          /\ UNCHANGED <<organVars, postureVars, recallVars, budgetVars, shellVars, indexVars,
                         smallVars>>
       \/ /\ part = "shell" /\ ShellNext
          /\ UNCHANGED <<organVars, postureVars, recallVars, budgetVars, loopVars, indexVars,
                         smallVars>>
       \/ /\ part = "index" /\ IndexNext
          /\ UNCHANGED <<organVars, postureVars, recallVars, budgetVars, loopVars, shellVars,
                         smallVars>>
       \/ /\ SmallNext(part)
          /\ UNCHANGED <<organVars, postureVars, recallVars, budgetVars, loopVars, shellVars,
                         indexVars>>

PartsSpec ==
    PartsInit /\ [][PartsNext]_<<part, organVars, postureVars, recallVars, budgetVars, loopVars,
                                shellVars, indexVars, smallVars>>

=============================================================================
