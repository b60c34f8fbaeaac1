--------------------------- MODULE ContextAffect ---------------------------
(***************************************************************************)
(* What a human turn puts before the model besides the dialogue            *)
(* (mind/context.py), the affect appraisal that goes into it               *)
(* (mind/affect.py) and the agent mode that routes it                      *)
(* (mind/agent_modes.py, mind/mode.py).  Intensities are thousandths, the  *)
(* precision the code rounds them to; a tie of the rounding goes either    *)
(* way.  A message is what its cues are: the appraisal sees nothing else.  *)
(***************************************************************************)
EXTENDS Integers, Sequences, FiniteSets, SequencesExt

CONSTANTS
    Inputs,     \* what the appraisal of a turn may see
    Settings,   \* [affect, focus, metacognition, routing, default]
    MaxBuilds   \* bound on human turns

CuedEmotions == {"curiosity", "tenderness", "frustration", "caution", "enthusiasm",
                 "sadness"}
\* Cues of the message, then the memory context, then the recent events.
InputShape == [cues : [CuedEmotions -> 0..3], resolved : BOOLEAN, question : BOOLEAN,
               conflicts : Nat, unselected : BOOLEAN, failed : Nat, completed : BOOLEAN]
ASSUME InputAssumption == \A input \in Inputs : input \in InputShape
ASSUME BuildBound == MaxBuilds \in Nat

VARIABLES
    settings,   \* the settings of this process
    preferred,  \* the stored agent mode, "unset" before the first mode set
    latest,     \* the latest affect state, NoState before the first
    age,        \* how old it is: under 5, under 20, under 60 minutes, or more
    built,      \* what the last human turn was shown, and from what
    echo,       \* states in a row that only the previous state caused
    builds      \* human turns so far

postureVars == <<settings, preferred, latest, age, built, echo, builds>>

-----------------------------------------------------------------------------
(* Affect *)

\* EMOTION_PROTOTYPES in their order: of equal intensities the first wins.
Emotions == <<"curiosity", "tenderness", "frustration", "caution", "relief",
              "enthusiasm", "sadness">>
EmotionSet == ToSet(Emotions)
Threshold == 280
NoState == [emotion |-> "none", intensity |-> 0]
AtMost(n, limit) == IF n < limit THEN n ELSE limit
AtLeast(n, limit) == IF n < limit THEN limit ELSE n

CueScore(n) == IF n = 0 THEN 0 ELSE AtMost(440, 180 + 80 * AtMost(3, n))

\* What the message says of an emotion; a resolution silences frustration.
FromMessage(input, emotion) ==
    LET cues == IF emotion \in CuedEmotions /\ ~(emotion = "frustration" /\ input.resolved)
                THEN CueScore(input.cues[emotion]) ELSE 0 IN
    CASE emotion = "relief" -> IF input.resolved THEN 440 ELSE 0
      [] emotion = "curiosity" -> cues + (IF input.question /\ cues < 180 THEN 160 ELSE 0)
      [] OTHER -> cues

\* What the memory context and the recent events add.
FromContext(input, emotion) ==
    CASE emotion = "caution" ->
           (IF input.conflicts > 0 THEN AtMost(350, 150 + 50 * input.conflicts) ELSE 0)
           + (IF input.unselected THEN 80 ELSE 0)
           + AtMost(300, 80 * input.failed)
      [] emotion = "frustration" ->
           IF input.failed > 0 THEN AtMost(500, 180 + 80 * input.failed) ELSE 0
      [] emotion = "relief" -> IF input.failed > 0 /\ input.completed THEN 220 ELSE 0
      [] OTHER -> 0

\* A bug: the carry of a state older than an hour is that of an old one.
DecayFaultForever(a) == CASE a = 0 -> 55 [] a = 1 -> 35 [] OTHER -> 15

\* A bug: a state decays by its age only after five minutes.
DecayFaultFresh(a) == CASE a = 0 -> 100 [] a = 1 -> 35 [] a = 2 -> 15 [] a = 3 -> 0

\* Percent of the previous intensity that is left, by its age.
Decay(a) == CASE a = 0 -> 55 [] a = 1 -> 35 [] a = 2 -> 15 [] a = 3 -> 0

Rounded(n, d) == IF 2 * (n % d) = d THEN {n \div d, n \div d + 1}
                 ELSE {(2 * n + d) \div (2 * d)}

\* A bug: a frustration that a message resolves carries on like any other state.
CarriesFaultUnresolved(input, previous, a) ==
    Rounded(previous.intensity * Decay(a), 100)

\* What is left of the previous state, less when it was frustration and the
\* message tells of a resolution.
Carries(input, previous, a) ==
    LET kept == IF previous.emotion = "frustration" /\ input.resolved THEN 15 ELSE 100 IN
    Rounded(previous.intensity * Decay(a) * kept, 10000)

\* _appraise_variables
Appraised(input, previous, carry) ==
    [emotion \in EmotionSet |->
        AtLeast(AtMost(1000, FromMessage(input, emotion) + FromContext(input, emotion)
                             + (IF previous.emotion = emotion THEN carry ELSE 0)), 0)]

\* _compose_emotion
Composed(variables) ==
    LET top == CHOOSE i \in 1..Len(Emotions) :
                 /\ \A j \in 1..Len(Emotions) : variables[Emotions[j]] <= variables[Emotions[i]]
                 /\ \A j \in 1..(i - 1) : variables[Emotions[j]] < variables[Emotions[i]]
        intensity == variables[Emotions[top]] IN
    IF intensity < Threshold THEN NoState
    ELSE [emotion |-> Emotions[top], intensity |-> intensity]

\* What the turn itself would raise, with nothing before it.
FromScratch(input) == Composed(Appraised(input, NoState, 0))
Silent(input) == \A e \in EmotionSet : FromMessage(input, e) + FromContext(input, e) = 0

-----------------------------------------------------------------------------
(* Agent mode and the routing of blocks *)

AgentModes == {"idle", "interactive", "scouting"}
Resumable == {"idle", "scouting"}
\* MODE_CAPABILITIES of the automatic blocks; the others are not routed.
TagsOf(block) ==
    CASE block \in {"message_context", "affective_context", "metacognitive_context"}
           -> {"interactive", "scouting"}
      [] block \in {"session_context", "agent_mode_context", "scarlet_state",
                    "focus_context"} -> AgentModes

PreferredMode == IF preferred # "unset" THEN preferred ELSE settings.default

\* A bug: the mode the model chose goes before the one the turn imposes.
ActiveTagFaultPreferred(systemMode) ==
    IF preferred # "unset" THEN preferred ELSE systemMode

\* resolve_agent_mode: the mode a human turn imposes goes before the stored one.
ActiveTag(systemMode) ==
    IF systemMode \in AgentModes THEN systemMode ELSE PreferredMode

OnlyIf(condition, block) == IF condition THEN <<block>> ELSE <<>>

Delivered(block, tag) == settings.routing # "active" \/ tag \in TagsOf(block)
Routed(blocks, tag) ==
    LET kept[i \in 0..Len(blocks)] ==
          IF i = 0 THEN <<>>
          ELSE kept[i-1] \o OnlyIf(Delivered(blocks[i], tag), blocks[i])
    IN kept[Len(blocks)]

-----------------------------------------------------------------------------
(* The turn *)

\* The blocks of build_runtime_context_payload, in their order.
Blocks(focused, affected) ==
    <<"session_context", "agent_mode_context", "message_context">>
    \o OnlyIf(settings.focus = "model" /\ focused, "focus_context")
    \o OnlyIf(settings.affect = "model" /\ affected, "affective_context")
    \o <<"scarlet_state">>
    \o OnlyIf(settings.metacognition = "inject", "metacognitive_context")

\* build_affective_context: off appraises nothing, shadow stores its state too.
Made(input) ==
    IF settings.affect \notin {"shadow", "model"} THEN {NoState}
    ELSE {Composed(Appraised(input, latest, carry)) : carry \in Carries(input, latest, age)}

\* build_memory_context and build_runtime_context_payload of a human turn.
BuildContext ==
    /\ builds < MaxBuilds
    /\ builds' = builds + 1
    /\ \E input \in Inputs, focused \in BOOLEAN :
         \E made \in Made(input) :
           /\ latest' = IF made = NoState THEN latest ELSE made
           /\ age' = IF made = NoState THEN age ELSE 0
           /\ echo' = IF ~Silent(input) THEN 0
                      ELSE IF made = NoState THEN echo ELSE echo + 1
           /\ LET tag == ActiveTag("interactive") IN
                built' = [before |-> latest, age |-> age, made |-> made,
                          scratch |-> FromScratch(input), silent |-> Silent(input),
                          relieved |-> input.resolved /\ input.failed = 0,
                          focused |-> focused, tag |-> tag,
                          blocks |-> Routed(Blocks(focused, made # NoState), tag)]
    /\ UNCHANGED <<settings, preferred>>

\* A bug: the mode of a human turn may be stored.
SetModeFaultAny(mode) ==
    /\ preferred' = mode
    /\ UNCHANGED <<settings, latest, age, built, echo, builds>>

\* mode set: an unsupported mode, interactive and a missing reason are refused.
SetMode(mode) ==
    /\ mode \in Resumable
    /\ preferred' = mode
    /\ UNCHANGED <<settings, latest, age, built, echo, builds>>

Elapse ==
    /\ age < 3
    /\ age' = age + 1
    /\ UNCHANGED <<settings, preferred, latest, built, echo, builds>>

NothingBuilt == [blocks |-> <<>>]

PostureInit ==
    /\ settings \in Settings
    /\ preferred = "unset" /\ latest = NoState /\ age = 3
    /\ built = NothingBuilt /\ echo = 0 /\ builds = 0

PostureNext ==
    \/ BuildContext
    \/ \E mode \in AgentModes : SetMode(mode)
    \/ Elapse

PostureSpec == PostureInit /\ [][PostureNext]_postureVars

-----------------------------------------------------------------------------
(* Properties *)

\* Types; interactive is never stored as the mode to resume.
PostureTypeOK ==
    /\ preferred \in Resumable \cup {"unset"}
    /\ latest = NoState \/ latest \in [emotion : EmotionSet, intensity : Threshold..1000]
    /\ age \in 0..3

\* A turn that raises nothing of its own can only keep the last emotion, weaker,
\* and after two of them in a row no third (_decay_factor).
SilenceFades ==
    /\ built # NothingBuilt /\ built.silent /\ built.made # NoState =>
         /\ built.made.emotion = built.before.emotion
         /\ built.made.intensity < built.before.intensity
    /\ echo <= 2

\* After an hour the appraisal is what it would be with no state before it.
HourForgets ==
    built # NothingBuilt /\ built.age = 3 /\ settings.affect \in {"shadow", "model"}
    => built.made = built.scratch

\* A message that tells of a resolution does not end in frustration when no
\* recent event failed, however strong the frustration was (affect.py:582).
ResolutionCalms ==
    built # NothingBuilt /\ built.relieved => built.made.emotion # "frustration"

\* The model is shown every block the settings and the rows call for, in every
\* routing mode and whatever mode was chosen, and no affect of an earlier turn.
HumanTurnWhole ==
    built # NothingBuilt => built.blocks = Blocks(built.focused, built.made # NoState)

\* What is put before the model is of this turn: an emotion fades, ends with the hour
\* or with what caused it, and no block is left out.
AffectOfTheTurn ==
    /\ PostureTypeOK /\ SilenceFades /\ HourForgets /\ ResolutionCalms /\ HumanTurnWhole

=============================================================================
