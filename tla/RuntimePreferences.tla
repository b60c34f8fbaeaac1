------------------------ MODULE RuntimePreferences --------------------------
(***************************************************************************)
(* The preferences of the dashboard (runtime/preferences.py).  A save reads*)
(* all of them, validates what it was asked together with what it read, and*)
(* then writes every preference, one commit each.  Two saves may overlap,  *)
(* and the process may die between two commits.  Every turn loads the      *)
(* preferences, so a stored value the validation refuses would fail it.    *)
(***************************************************************************)
EXTENDS Naturals, Sequences

CONSTANTS
    Savers,           \* requests that may be served at the same time
    Preferences,      \* sequence of the preferences, in the order they are written
    GoodValues, BadValues, \* values the validation takes and refuses
    DefaultValue,     \* what the environment says of each
    MaxSaves, MaxSaveCrashes

ASSUME PreferencesAssumption ==
    /\ Preferences \in Seq(STRING) \ {<<>>}
    /\ DefaultValue \in GoodValues /\ GoodValues \cap BadValues = {}
    /\ "unset" \notin GoodValues \cup BadValues /\ "unnamed" \notin GoodValues \cup BadValues

VARIABLES
    setting,    \* preference -> its stored value, or "unset"
    saving,     \* saver -> the save it serves
    saves, saveCrashes,
    overlapped, \* whether two saves were ever under way together
    cutSave     \* whether a save died, or lost the race to create a row

preferenceVars == <<setting, saving, saves, saveCrashes, overlapped, cutSave>>

PreferenceSet == {Preferences[i] : i \in 1..Len(Preferences)}
SaveIdle == [at |-> "idle"]

\* load_runtime_preferences: the stored values over those of the environment.
Loaded == [p \in PreferenceSet |-> IF setting[p] = "unset" THEN DefaultValue ELSE setting[p]]

\* A bug: what is not named falls back to the environment.
NextValueFaultDefault(asked, p) == IF asked[p] = "unnamed" THEN DefaultValue ELSE asked[p]
\* What a save will write: what it was asked, else what it read.
NextValue(asked, p) == IF asked[p] = "unnamed" THEN Loaded[p] ELSE asked[p]

\* A bug: only the first preference is validated.
AcceptedFaultFirst(next) == next[Preferences[1]] \in GoodValues
\* The six validations, all made before the first write.
Accepted(next) == \A p \in PreferenceSet : next[p] \in GoodValues

BeginSave(s, asked) ==
    /\ saving[s].at = "idle" /\ saves < MaxSaves
    /\ saves' = saves + 1
    /\ LET next == [p \in PreferenceSet |-> NextValue(asked, p)] IN
       saving' = [saving EXCEPT ![s] =
                    IF Accepted(next)
                    THEN [at |-> "find", asked |-> asked, next |-> next, i |-> 1, seen |-> "unset"]
                    ELSE SaveIdle]
    /\ overlapped' = (overlapped \/ \E other \in Savers \ {s} : saving[other].at # "idle")
    /\ UNCHANGED <<setting, saveCrashes, cutSave>>

\* upsert_app_setting: the row is looked for, then written or created.
FindSetting(s) ==
    /\ saving[s].at = "find"
    /\ saving' = [saving EXCEPT ![s].at = "put",
                                ![s].seen = setting[Preferences[saving[s].i]]]
    /\ UNCHANGED <<setting, saves, saveCrashes, overlapped, cutSave>>

\* A bug: the loop ends one preference early.
AfterPutFaultEarly(s, i) ==
    IF i + 1 = Len(Preferences) THEN SaveIdle
    ELSE [saving[s] EXCEPT !.at = "find", !.i = i + 1]
AfterPut(s, i) ==
    IF i = Len(Preferences) THEN SaveIdle ELSE [saving[s] EXCEPT !.at = "find", !.i = i + 1]

\* A row that was found is written where it differs from what was found.
PutSetting(s) ==
    /\ saving[s].at = "put"
    /\ LET i == saving[s].i
           p == Preferences[i]
           asNew == saving[s].seen = "unset" IN
       \/ /\ asNew => setting[p] = "unset"
          /\ setting' = IF saving[s].seen = saving[s].next[p] THEN setting
                        ELSE [setting EXCEPT ![p] = saving[s].next[p]]
          /\ saving' = [saving EXCEPT ![s] = AfterPut(s, i)]
          /\ UNCHANGED cutSave
       \/ \* The other save created the row in between: the key is taken.
          /\ asNew /\ setting[p] # "unset"
          /\ saving' = [saving EXCEPT ![s] = SaveIdle]
          /\ cutSave' = TRUE
          /\ UNCHANGED setting
    /\ UNCHANGED <<saves, saveCrashes, overlapped>>

SaveCrash ==
    /\ saveCrashes < MaxSaveCrashes
    /\ \E s \in Savers : saving[s].at # "idle"
    /\ saving' = [s \in Savers |-> SaveIdle]
    /\ saveCrashes' = saveCrashes + 1
    /\ cutSave' = TRUE
    /\ UNCHANGED <<setting, saves, overlapped>>

PreferencesInit ==
    /\ setting = [p \in PreferenceSet |-> "unset"]
    /\ saving = [s \in Savers |-> SaveIdle]
    /\ saves = 0 /\ saveCrashes = 0 /\ overlapped = FALSE /\ cutSave = FALSE

PreferencesNext ==
    \/ \E s \in Savers : FindSetting(s) \/ PutSetting(s)
    \/ \E s \in Savers, asked \in [PreferenceSet -> GoodValues \cup BadValues \cup {"unnamed"}] :
         BeginSave(s, asked)
    \/ SaveCrash

PreferencesSpec == PreferencesInit /\ [][PreferencesNext]_preferenceVars

-----------------------------------------------------------------------------
(* Properties *)

\* load_runtime_preferences never meets a value its validation refuses, so no
\* order of saves and deaths makes the turns of the session fail.
EveryTurnLoads ==
    \A p \in PreferenceSet : setting[p] \in GoodValues \cup {"unset"}

\* save_runtime_preferences writes all preferences or, when nothing cut a save,
\* none: no reader finds the environment's value for some of them only.
WholeUnlessCut ==
    (\A s \in Savers : saving[s].at = "idle") /\ ~cutSave =>
      \A p, q \in PreferenceSet : setting[p] = "unset" <=> setting[q] = "unset"

\* A preference changes only to what a save was asked for it, or is created
\* with what it was worth; only saves that overlapped write what they read back.
OnlyNamedChange ==
    [][\A p \in PreferenceSet :
         setting'[p] # setting[p] =>
           \/ overlapped
           \/ \E s \in Savers : saving[s].at = "put" /\ saving[s].asked[p] = setting'[p]
           \/ setting[p] = "unset" /\ setting'[p] = DefaultValue]_preferenceVars

\* No order of saves and deaths leaves preferences a turn cannot load, or a part of
\* them that a death does not explain.
PreferencesSound == EveryTurnLoads /\ WholeUnlessCut

=============================================================================
