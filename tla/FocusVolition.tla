--------------------------- MODULE FocusVolition ---------------------------
(***************************************************************************)
(* The focus and the volition organs (mind/focus.py, mind/volition.py and  *)
(* their rows in storage/repository/organs.py).  A focus command runs in a *)
(* turn; every repository call in it commits on its own, so the commands   *)
(* of two turns interleave between their commits, and the death of the     *)
(* process leaves what was committed.  A handler reads its target first    *)
(* and writes a column only when the value differs from the one it read.   *)
(***************************************************************************)
EXTENDS Integers, Sequences, FiniteSets, SequencesExt

CONSTANTS
    Turns,          \* turns that give organ commands
    MaxFocuses,     \* bound on focus records
    MaxIntentions,  \* bound on intention records
    MaxOps,         \* bound on commands given
    MaxCrashes      \* bound on deaths of the process

ASSUME FocusBounds == /\ MaxFocuses \in Nat /\ MaxIntentions \in Nat
                      /\ MaxOps \in Nat /\ MaxCrashes \in Nat

VARIABLES
    foci,        \* focus records, in the order of their creation
    recency,     \* ids of the focus records, the latest updated last
    edges,       \* the focus transitions
    intentions,  \* intention records
    command,     \* turn -> the command it is executing
    given,       \* commands given so far
    deaths,      \* deaths of the process so far
    excused,     \* focuses that were revived, or set while another set ran
    reviewed     \* intention -> reviews answered, and those no command met

focusVars == <<foci, recency, edges, excused>>
volitionVars == <<intentions, reviewed>>
organVars == <<foci, recency, edges, intentions, command, given, deaths,
               excused, reviewed>>

None == 0
Foreground == {"active", "held"}
Open == {"active", "deferred", "in_review"}
FocusEnd == [defer |-> "deferred", resolve |-> "resolved", impossible |-> "impossible"]
IntentionEnd == [resolve |-> "resolved", mark_impossible |-> "impossible",
                 deprecate |-> "deprecated"]
EdgeOfClose == [defer |-> "deferred", resolve |-> "resolved_into",
                impossible |-> "blocked_by"]
SetActions == {"set", "shift"}
KeepActions == {"update", "hold"}

Idle == [at |-> "idle", do |-> "none", target |-> None, read |-> "none",
         seen |-> 0, left |-> <<>>, alone |-> TRUE]
Busy == {t \in Turns : command[t].at # "idle"}
OfSet(t) == command[t].at # "idle" /\ command[t].do \in SetActions

\* ORDER BY updated_at DESC: places of the order of recency, the latest first.
LatestFirst(places) ==
    CHOOSE s \in SetToSeqs(places) : \A i, j \in DOMAIN s : i < j => s[i] > s[j]
\* list_active_focus_records: active or held, the latest updated first.
ActiveFocuses ==
    LET order == LatestFirst({i \in DOMAIN recency : foci[recency[i]].status \in Foreground}) IN
    [k \in DOMAIN order |-> recency[order[k]]]
\* get_active_focus
ActiveFocus == IF ActiveFocuses = <<>> THEN None ELSE ActiveFocuses[1]
\* A bug: an update leaves the old place of the record in the order.
TouchedFaultTwice(f) == Append(recency, f)

\* updated_at: the record becomes the latest.
Touched(f) == Append(RemoveAt(recency, CHOOSE i \in DOMAIN recency : recency[i] = f), f)
\* The owner's record of that id, or the active focus when none is named.
TargetFocus(id) == IF id = None THEN ActiveFocus ELSE id
\* A column is written when its value is not the one the session has read.
Column(stored, read, value) == IF value = read THEN stored ELSE value

Take(t, cmd) ==
    /\ given < MaxOps
    /\ command[t].at = "idle"
    /\ given' = given + 1
    /\ command' = [u \in Turns |->
                     IF u = t THEN [cmd EXCEPT !.alone = (Busy = {})]
                     ELSE [command[u] EXCEPT !.alone = command[u].at = "idle"]]

Goto(t, stage) == command' = [command EXCEPT ![t].at = stage]
Finish(t) == command' = [command EXCEPT ![t] = Idle]

-----------------------------------------------------------------------------
(* Focus *)

\* A bug: only the focus the answer calls the previous one.
ReplacedFaultFirst == SelectSeq(<<ActiveFocus>>, LAMBDA f : f # None)

\* What a new focus replaces: the whole foreground, not only the previous focus.
Replaced == ActiveFocuses

\* set or shift: the whole foreground is read, and closed record by record.
BeginSet(t, do) ==
    /\ Len(foci) + Cardinality({u \in Turns : OfSet(u)}) < MaxFocuses
    /\ Take(t, [Idle EXCEPT !.at = "close_old", !.do = do, !.left = Replaced,
                            !.target = ActiveFocus])
    /\ UNCHANGED <<foci, recency, edges, intentions, deaths, excused, reviewed>>

Closed(f, status) == [foci EXCEPT ![f].status = status, ![f].closed = TRUE]

\* A bug: the old focus is marked superseded only when it was held.
CloseOldFaultHeldOnly(t) ==
    /\ command[t].at = "close_old" /\ command[t].left # <<>>
    /\ LET f == Head(command[t].left) IN
         /\ foci' = IF foci[f].status = "active" THEN foci ELSE Closed(f, "superseded")
         /\ recency' = Touched(f)
    /\ command' = [command EXCEPT ![t].left = Tail(@)]
    /\ UNCHANGED <<edges, intentions, given, deaths, excused, reviewed>>

CloseOld(t) ==
    /\ command[t].at = "close_old" /\ command[t].left # <<>>
    /\ LET f == Head(command[t].left) IN
         /\ foci' = Closed(f, "superseded")
         /\ recency' = Touched(f)
    /\ command' = [command EXCEPT ![t].left = Tail(@)]
    /\ UNCHANGED <<edges, intentions, given, deaths, excused, reviewed>>

Create(t) ==
    /\ command[t].at = "close_old" /\ command[t].left = <<>>
    /\ foci' = Append(foci, [status |-> "active", closed |-> FALSE])
    /\ recency' = Append(recency, Len(foci) + 1)
    /\ excused' = IF \E u \in Turns \ {t} : OfSet(u)
                  THEN excused \cup {Len(foci) + 1} ELSE excused
    /\ command' = [command EXCEPT ![t].at = "start_edge", ![t].seen = Len(foci) + 1]
    /\ UNCHANGED <<edges, intentions, given, deaths, reviewed>>

\* A bug: the previous focus is read again after the new one was created.
StartEdgeFaultReread(t) ==
    /\ command[t].at = "start_edge"
    /\ edges' = edges \cup {[from |-> ActiveFocus, to |-> command[t].seen,
                             relation |-> "shifted_to"]}
    /\ Finish(t)
    /\ UNCHANGED <<foci, recency, intentions, given, deaths, excused, reviewed>>

StartEdge(t) ==
    /\ command[t].at = "start_edge"
    /\ edges' = edges \cup {[from |-> command[t].target, to |-> command[t].seen,
                             relation |-> IF command[t].target = None THEN "started"
                                          ELSE "shifted_to"]}
    /\ Finish(t)
    /\ UNCHANGED <<foci, recency, intentions, given, deaths, excused, reviewed>>

\* Every other command reads its target; a missing one is an error.
BeginFocus(t, do, id) ==
    /\ TargetFocus(id) # None
    /\ Take(t, [Idle EXCEPT !.do = do, !.target = TargetFocus(id),
                            !.at = IF do \in KeepActions THEN "keep" ELSE "close",
                            !.read = foci[TargetFocus(id)].status])
    /\ UNCHANGED <<foci, recency, edges, intentions, deaths, excused, reviewed>>

\* A bug: an update makes its target active again.
KeepFaultActive(t) ==
    /\ command[t].at = "keep"
    /\ LET f == command[t].target IN
         /\ foci' = [foci EXCEPT ![f].status = IF command[t].do = "hold" THEN "held"
                                               ELSE "active"]
         /\ recency' = Touched(f)
         /\ excused' = IF foci[f].closed /\ command[t].do = "hold"
                       THEN excused \cup {f} ELSE excused
    /\ Goto(t, "edge")
    /\ UNCHANGED <<edges, intentions, given, deaths, reviewed>>

\* hold sets the status, whatever it was; update leaves it.
Keep(t) ==
    /\ command[t].at = "keep"
    /\ LET f == command[t].target
           status == IF command[t].do = "hold"
                     THEN Column(foci[f].status, command[t].read, "held")
                     ELSE foci[f].status IN
         /\ foci' = [foci EXCEPT ![f].status = status]
         /\ recency' = Touched(f)
         /\ excused' = IF foci[f].closed /\ status \in Foreground
                       THEN excused \cup {f} ELSE excused
    /\ Goto(t, "edge")
    /\ UNCHANGED <<edges, intentions, given, deaths, reviewed>>

Close(t) ==
    /\ command[t].at = "close"
    /\ LET f == command[t].target IN
         /\ foci' = Closed(f, Column(foci[f].status, command[t].read,
                                     FocusEnd[command[t].do]))
         /\ recency' = Touched(f)
    /\ Goto(t, "edge")
    /\ UNCHANGED <<edges, intentions, given, deaths, excused, reviewed>>

\* Held and updated focuses point at themselves, closed ones at nothing.
Edge(t) ==
    /\ command[t].at = "edge"
    /\ LET do == command[t].do
           keeps == do \in KeepActions IN
         edges' = edges \cup
            {[from |-> command[t].target,
              to |-> IF keeps THEN command[t].target ELSE None,
              relation |-> IF do = "hold" THEN "held"
                           ELSE IF keeps THEN "updated" ELSE EdgeOfClose[do]]}
    /\ Finish(t)
    /\ UNCHANGED <<foci, recency, intentions, given, deaths, excused, reviewed>>

-----------------------------------------------------------------------------
(* Volition *)

\* The active focus of the moment is the provenance of a new intention.
BeginCreateIntention(t) ==
    /\ Len(intentions) + Cardinality({u \in Turns : command[u].do = "create"})
         < MaxIntentions
    /\ Take(t, [Idle EXCEPT !.at = "create", !.do = "create", !.target = ActiveFocus])
    /\ UNCHANGED <<foci, recency, edges, intentions, deaths, excused, reviewed>>

CreateIntention(t) ==
    /\ command[t].at = "create"
    /\ intentions' = Append(intentions, [status |-> "active", closed |-> FALSE,
                                         reviews |-> 0, links |-> 0,
                                         focus |-> command[t].target])
    /\ reviewed' = Append(reviewed, [all |-> 0, calm |-> 0])
    /\ command' = [command EXCEPT ![t].at = "link", ![t].target = Len(intentions) + 1]
    /\ UNCHANGED <<foci, recency, edges, given, deaths, excused>>

\* A bug: the refusal of terminal statuses is missing from update.
AskedFaultTerminal(do) ==
    CASE do = "update" -> Open \cup {"none", "resolved"}
      [] do = "review" -> Open
      [] do = "defer" -> {"deferred"}
      [] OTHER -> {IntentionEnd[do]}
\* The status an update or a review asks for; terminal ones are refused.
Asked(do) ==
    CASE do = "update" -> Open \cup {"none"}
      [] do = "review" -> Open
      [] do = "defer" -> {"deferred"}
      [] OTHER -> {IntentionEnd[do]}

BeginIntention(t, do, i, status) ==
    /\ status \in Asked(do)
    /\ Take(t, [Idle EXCEPT !.at = "intention", !.do = do, !.target = i,
                            !.read = intentions[i].status,
                            !.seen = intentions[i].reviews, !.left = <<status>>])
    /\ UNCHANGED <<foci, recency, edges, intentions, deaths, excused, reviewed>>

\* promote_to_focus_candidate: a suggestion, nothing is stored.
Promote(t) ==
    /\ intentions # <<>>
    /\ given < MaxOps /\ command[t].at = "idle"
    /\ given' = given + 1
    /\ UNCHANGED <<foci, recency, edges, intentions, command, deaths, excused, reviewed>>

StatusOf(t, i) ==
    IF command[t].left[1] = "none" THEN intentions[i].status
    ELSE Column(intentions[i].status, command[t].read, command[t].left[1])

Reviewed(t, i) == [reviewed EXCEPT ![i].all = @ + 1,
                                   ![i].calm = IF command[t].alone THEN @ + 1 ELSE @]

\* A bug: every write of an intention counts as a review.
WriteIntentionFaultCounts(t) ==
    /\ command[t].at = "intention" /\ command[t].do \notin DOMAIN IntentionEnd
    /\ LET i == command[t].target IN
         /\ intentions' = [intentions EXCEPT ![i].status = StatusOf(t, i),
                                             ![i].reviews = command[t].seen + 1]
         /\ reviewed' = IF command[t].do = "review" THEN Reviewed(t, i) ELSE reviewed
    /\ IF command[t].do = "defer" THEN Finish(t) ELSE Goto(t, "link")
    /\ UNCHANGED <<foci, recency, edges, given, deaths, excused>>

\* update_intention_record; the review count is the one read plus one.
WriteIntention(t) ==
    /\ command[t].at = "intention" /\ command[t].do \notin DOMAIN IntentionEnd
    /\ LET i == command[t].target
           review == command[t].do = "review" IN
         /\ intentions' = [intentions EXCEPT ![i].status = StatusOf(t, i),
                             ![i].reviews = IF review THEN command[t].seen + 1 ELSE @]
         /\ reviewed' = IF review THEN Reviewed(t, i) ELSE reviewed
    /\ IF command[t].do = "defer" THEN Finish(t) ELSE Goto(t, "link")
    /\ UNCHANGED <<foci, recency, edges, given, deaths, excused>>

CloseIntention(t) ==
    /\ command[t].at = "intention" /\ command[t].do \in DOMAIN IntentionEnd
    /\ LET i == command[t].target IN
         intentions' = [intentions EXCEPT ![i].status = StatusOf(t, i),
                                          ![i].closed = TRUE]
    /\ Finish(t)
    /\ UNCHANGED <<foci, recency, edges, given, deaths, excused, reviewed>>

\* _add_links: none, or one more commit each; here at most one.
LinkIntention(t) ==
    /\ command[t].at = "link"
    /\ \E n \in 0..1 :
         intentions' = [intentions EXCEPT ![command[t].target].links =
                          IF @ = 0 THEN n ELSE @]
    /\ Finish(t)
    /\ UNCHANGED <<foci, recency, edges, given, deaths, excused, reviewed>>

-----------------------------------------------------------------------------
\* The process dies between two commits; no command is taken up again.
OrgansCrash ==
    /\ deaths < MaxCrashes /\ Busy # {}
    /\ deaths' = deaths + 1
    /\ command' = [t \in Turns |-> Idle]
    /\ UNCHANGED <<foci, recency, edges, intentions, given, excused, reviewed>>

FocusVolitionInit ==
    /\ foci = <<>> /\ recency = <<>> /\ edges = {} /\ intentions = <<>>
    /\ command = [t \in Turns |-> Idle]
    /\ given = 0 /\ deaths = 0 /\ excused = {} /\ reviewed = <<>>

FocusStep(t) ==
    \/ \E do \in SetActions : BeginSet(t, do)
    \/ CloseOld(t) \/ Create(t) \/ StartEdge(t)
    \/ \E do \in KeepActions \cup DOMAIN FocusEnd, id \in 0..Len(foci) :
         BeginFocus(t, do, id)
    \/ Keep(t) \/ Close(t) \/ Edge(t)

VolitionStep(t) ==
    \/ BeginCreateIntention(t) \/ CreateIntention(t)
    \/ \E do \in {"update", "review", "defer"} \cup DOMAIN IntentionEnd,
          i \in 1..Len(intentions) :
         \E status \in Open \cup {"none"} \cup {IntentionEnd[d] : d \in DOMAIN IntentionEnd} :
           BeginIntention(t, do, i, status)
    \/ Promote(t) \/ WriteIntention(t) \/ CloseIntention(t) \/ LinkIntention(t)

FocusVolitionNext ==
    \/ \E t \in Turns : FocusStep(t) \/ VolitionStep(t)
    \/ OrgansCrash

FocusVolitionSpec == FocusVolitionInit /\ [][FocusVolitionNext]_organVars

-----------------------------------------------------------------------------
(* Properties *)

FocusIds == 1..Len(foci)
InForeground == {f \in FocusIds : foci[f].status \in Foreground}
StartsOf(f) == {e \in edges : e.to = f /\ e.relation \in {"started", "shifted_to"}}

\* Types of the organ rows; the recency order lists every focus once.
OrgansTypeOK ==
    /\ \A f \in FocusIds : foci[f] \in
         [status : Foreground \cup {"superseded", "deferred", "resolved", "impossible"},
          closed : BOOLEAN]
    /\ Len(recency) = Len(foci) /\ ToSet(recency) = FocusIds
    /\ \A e \in edges : e.from \in FocusIds \cup {None} /\ e.to \in FocusIds \cup {None}
    /\ \A i \in 1..Len(intentions) : intentions[i] \in
         [status : Open \cup {"resolved", "impossible", "deprecated"}, closed : BOOLEAN,
          reviews : 0..MaxOps, links : 0..1, focus : FocusIds \cup {None}]
    /\ Len(reviewed) = Len(intentions)

\* There is one foreground focus, but for focuses a hold took back from the
\* archive and those set while the set of another turn was under way
\* (mind/focus.py, focus policy one_active_focus).
OneForegroundFocus == Cardinality(InForeground \ excused) <= 1

\* A set that no other command met leaves its own focus alone in the
\* foreground, whatever doubles it found there (_set_or_shift_focus closes the
\* whole list, not only the focus it reports).
CalmSetHeals ==
    [][\A t \in Turns :
         command[t].at = "close_old" /\ command[t].left = <<>> /\ command[t].alone
           /\ command'[t].at = "start_edge"
         => {f \in 1..Len(foci') : foci'[f].status \in Foreground} = {Len(foci')}]_organVars

\* The timeline has one start for every focus, but for the one being set and
\* those whose setting a crash cut; a focus shifted from was closed first
\* (FocusTransition rows against FocusRecord rows).
TimelineWhole ==
    /\ \A f \in FocusIds : Cardinality(StartsOf(f)) <= 1
    /\ deaths = 0 => \A f \in FocusIds :
         StartsOf(f) # {} \/ \E t \in Turns : command[t].at = "start_edge"
                                              /\ command[t].seen = f
    /\ \A e \in edges : e.relation = "shifted_to" => e.from # e.to /\ foci[e.from].closed

\* A closed focus returns to the foreground only by a hold (mind/focus.py:303;
\* an update or the end of another command never revives one).
OnlyHoldRevives ==
    [][\A f \in FocusIds :
         foci[f].closed /\ f \notin InForeground /\ foci'[f].status \in Foreground
         => \E t \in Turns : command[t].do = "hold" /\ command[t].target = f]_organVars

\* An intention out of the open register was closed, with its time and its
\* event: no update or review takes it out (volition.use_close_action).
RegisterLeftByClosing ==
    \A i \in 1..Len(intentions) : intentions[i].status \notin Open => intentions[i].closed

\* The review count is never above the reviews answered, and never below those
\* no other command overlapped: only overlapping reviews are lost
\* (review_count += 1 on the row read before, organs.py:441).
ReviewsCounted ==
    \A i \in 1..Len(intentions) :
        reviewed[i].calm <= intentions[i].reviews /\ intentions[i].reviews <= reviewed[i].all

\* The rows of the organs agree with one another, whatever two turns do at once.
OrgansAgree ==
    /\ OrgansTypeOK /\ OneForegroundFocus /\ TimelineWhole /\ RegisterLeftByClosing
    /\ ReviewsCounted

\* What no command does to the focuses.
FocusSteps == CalmSetHeals /\ OnlyHoldRevives

=============================================================================
