----------------------------- MODULE MindShell ------------------------------
(***************************************************************************)
(* The Mind shell: one command line becomes one cognitive operation.  Two  *)
(* tables say what a command needs: the registry (command_registry.py),    *)
(* which tells Scarlet and her reflections what may be called, and the     *)
(* branches of the shell (shell.py), which run it.  The shell translates   *)
(* the command into a route of the internal API (dispatcher.py).           *)
(*                                                                         *)
(* A command is what its parse leaves: names, the number of arguments that *)
(* are not flags, and the value of each flag: "text", "blank" (an empty    *)
(* string) or "bare" (no value follows it).  Arguments are not empty.      *)
(***************************************************************************)
EXTENDS Integers, Sequences, FiniteSets, SequencesExt, TLC

CONSTANTS
    Ids,            \* what may be given where an id belongs, as path segments
    MaxAttempts     \* bound: commands given one after another

ASSUME ShellAssumption == MaxAttempts \in Nat

VARIABLES
    verdict,    \* validate_shell_command of the last command
    reply,      \* what the shell did with it
    attempts    \* the commands so far, each with its operation key

shellVars == <<verdict, reply, attempts>>

Unknown == "unknown"
PlainId == <<"mem_1">>

\* Each of the names will do.
OneOf(names) == {{name} : name \in names}

Entry(aliases, needs) == [status |-> "implemented", aliases |-> aliases, needs |-> needs]
Unavailable(aliases) == [status |-> "unavailable", aliases |-> aliases, needs |-> {}]

\* _requirement_met for alternatives, each of them parts that must all be there:
\* a flag counts whatever follows it.
Present(command, part) ==
    CASE part = "arg" -> command.args >= 1
      [] part = "arg2" -> command.args >= 2
      [] OTHER -> part \in DOMAIN command.flags

\* A bug (BUG-0068): one of the parts will do.
MetFaultAny(command, group) == \E parts \in group : \E part \in parts : Present(command, part)

Met(command, group) == \E parts \in group : \A part \in parts : Present(command, part)

-----------------------------------------------------------------------------
(* The registry *)

FamilyAliases ==
    [memory |-> {"mem", "remember"}, session |-> {"sessions", "episodic"},
     focus |-> {"attention"}, volition |-> {"intention", "intentions"},
     affect |-> {"emotion", "emotions"}, mode |-> {"operating-mode"},
     metacognition |-> {"meta", "reflect"}]

DefaultAction ==
    [memory |-> "search", session |-> "list", focus |-> "read", volition |-> "list_active",
     affect |-> "read", mode |-> "read", metacognition |-> "step"]

Query == OneOf({"arg", "query", "q"})
MemoryId == OneOf({"arg", "id", "memory-id"})
IntentionId == OneOf({"arg", "id", "intention-id"})
Why == OneOf({"reason", "why"})

\* COMMAND_FAMILIES.
Registry ==
    [memory |-> [search |-> Entry({"find"}, {Query}),
                 write |-> Entry({"save", "store"}, {OneOf({"type"}), OneOf({"content"}), Why}),
                 open |-> Entry({"read", "inspect", "show", "get"}, {MemoryId}),
                 graph |-> Entry({}, {MemoryId}),
                 facts |-> Entry({}, {}), conflicts |-> Entry({}, {}),
                 deprecate |-> Entry({}, {MemoryId, Why}),
                 supersede |-> Entry({}, {{{"arg2"}, {"old", "new"}}, Why}),
                 update |-> Unavailable({}), delete |-> Unavailable({"remove"}),
                 merge |-> Unavailable({})],
     session |-> [list |-> Entry({"search", "find"}, {}),
                  open |-> Entry({"read", "inspect", "show", "get"},
                                 {OneOf({"arg", "id", "session-id"})}),
                  message |-> Entry({}, {OneOf({"arg", "id", "message-id"})}),
                  turn |-> Entry({}, {OneOf({"arg", "id", "turn-id"})}),
                  summarize |-> Entry({}, {OneOf({"arg", "id", "session-id"})})],
     focus |-> [read |-> Entry({"open", "inspect", "show", "get", "current"}, {}),
                list |-> Entry({}, {}), search |-> Entry({}, {Query}),
                set |-> Entry({}, {OneOf({"arg", "object"})}),
                shift |-> Entry({}, {OneOf({"arg", "object"})}),
                update |-> Entry({}, {}), hold |-> Entry({}, {}), defer |-> Entry({}, {}),
                resolve |-> Entry({}, {OneOf({"resolution", "reason", "why"})}),
                impossible |-> Entry({}, {OneOf({"impossible-reason", "reason", "why"})}),
                timeline |-> Entry({}, {})],
     volition |-> [list_active |-> Entry({"list", "list-active"}, {}),
                   list_due |-> Entry({"list-due"}, {}), search |-> Entry({}, {Query}),
                   create |-> Entry({}, {OneOf({"arg", "desire"}), Why}),
                   read |-> Entry({"open", "show", "get"}, {IntentionId}),
                   update |-> Entry({}, {IntentionId}), defer |-> Entry({}, {IntentionId}),
                   review |-> Entry({}, {IntentionId}),
                   promote_to_focus_candidate |-> Entry({"promote"}, {IntentionId}),
                   resolve |-> Entry({}, {IntentionId, OneOf({"resolution", "reason", "why"})}),
                   mark_impossible |-> Entry({"impossible"},
                       {IntentionId, OneOf({"impossible-reason", "reason", "why"})}),
                   deprecate |-> Entry({}, {IntentionId, Why})],
     affect |-> [read |-> Entry({"show", "get", "current"}, {}),
                 list |-> Entry({"history", "states"}, {}), prototypes |-> Entry({}, {})],
     mode |-> [read |-> Entry({"show", "get", "current"}, {}), list |-> Entry({}, {}),
               set |-> Entry({}, {OneOf({"arg", "mode", "tag"}), Why})],
     metacognition |-> [step |-> Entry({}, {OneOf({"arg", "objective"})})]]

Families == DOMAIN Registry

\* _canonical_namespace, and _canonical_action of a family.
CanonicalFamily(name) ==
    IF \E f \in Families : name \in {f} \cup FamilyAliases[f]
    THEN CHOOSE f \in Families : name \in {f} \cup FamilyAliases[f]
    ELSE Unknown
CanonicalAction(f, name) ==
    LET named == {a \in DOMAIN Registry[f] : name \in {a} \cup Registry[f][a].aliases} IN
    IF name = "" THEN DefaultAction[f]
    ELSE IF named = {} THEN Unknown ELSE CHOOSE a \in named : TRUE

\* validate_shell_command.
Validate(command) ==
    LET f == CanonicalFamily(command.family)
        a == IF f = Unknown THEN Unknown ELSE CanonicalAction(f, command.action) IN
    [family |-> f, action |-> a,
     available |-> /\ a # Unknown
                   /\ Registry[f][a].status = "implemented"
                   /\ \A group \in Registry[f][a].needs : Met(command, group)]

-----------------------------------------------------------------------------
(* The branches of the shell *)

\* The names that have a value, which may be empty.
Valued(command, names) ==
    SelectSeq(names, LAMBDA n : n \in DOMAIN command.flags /\ command.flags[n] # "bare")

\* flag_string: of several names the last that has one counts.
GivenText(command, names) ==
    LET valued == Valued(command, names) IN
    valued # <<>> /\ command.flags[Last(valued)] = "text"

\* So many arguments, or the text of a flag.
Need(count, names) == [count |-> count, names |-> names]
Never == 9

\* A bug: the flags are not looked at.
SatisfiedFaultArgs(command, need) == command.args >= need.count

Satisfied(command, need) == command.args >= need.count \/ GivenText(command, need.names)

WhyText == Need(Never, <<"reason", "why">>)
ShellQuery == Need(1, <<"query", "q">>)
IdText(name) == Need(1, <<"id", name>>)

\* The aliases each branch compares with or maps.
ShellAliases ==
    [memory |-> [search |-> {"find"}, write |-> {"save", "store"},
                 open |-> {"read", "inspect", "show", "get"}],
     session |-> [list |-> {"search", "find"}, open |-> {"read", "inspect", "show", "get"}],
     focus |-> [read |-> {"open", "inspect", "show", "get", "current"}],
     volition |-> [list_active |-> {"list-active"}, list_due |-> {"list-due"},
                   read |-> {"open", "show", "get"},
                   promote_to_focus_candidate |-> {"promote"}, mark_impossible |-> {"impossible"}],
     affect |-> [list |-> {"history", "states"}, read |-> {"show", "get", "current"}],
     mode |-> [read |-> {"show", "get", "current"}],
     metacognition |-> [step |-> {}]]

\* What each branch refuses a command without.
ShellNeeds ==
    [memory |-> [search |-> {ShellQuery},
                 write |-> {Need(1, <<"content">>), Need(Never, <<"type">>), WhyText},
                 open |-> {IdText("memory-id")}, graph |-> {IdText("memory-id")},
                 facts |-> {}, conflicts |-> {}, deprecate |-> {IdText("memory-id"), WhyText},
                 supersede |-> {Need(1, <<"old">>), Need(2, <<"new">>), WhyText}],
     session |-> [list |-> {}, open |-> {IdText("session-id")}, message |-> {IdText("message-id")},
                  turn |-> {IdText("turn-id")}, summarize |-> {IdText("session-id")}],
     focus |-> [set |-> {Need(1, <<"object">>)}, shift |-> {Need(1, <<"object">>)},
                search |-> {ShellQuery}],
     volition |-> [create |-> {Need(1, <<"desire">>), WhyText}, search |-> {ShellQuery}]
                  @@ [a \in {"read", "update", "defer", "review", "promote_to_focus_candidate",
                             "resolve", "mark_impossible", "deprecate"} |->
                         {IdText("intention-id")}],
     affect |-> [read |-> {}],
     mode |-> [set |-> {Need(1, <<"mode", "tag">>), WhyText}],
     metacognition |-> [step |-> {Need(1, <<"objective">>)}]]

\* The families whose branch leaves an action it does not know to the handler.
LeftToHandler == {"focus", "volition", "affect", "mode"}

\* A bug: without a word, volition list means the due ones.
ShellActionFaultDue(f, command) ==
    LET mapped == {a \in DOMAIN ShellAliases[f] : command.action \in ShellAliases[f][a]} IN
    IF command.action = "" THEN DefaultAction[f]
    ELSE IF f = "volition" /\ command.action = "list" THEN "list_due"
    ELSE IF mapped = {} THEN command.action ELSE CHOOSE a \in mapped : TRUE

\* volition list takes which list from its first argument.
ShellAction(f, command) ==
    LET mapped == {a \in DOMAIN ShellAliases[f] : command.action \in ShellAliases[f][a]} IN
    IF command.action = "" THEN DefaultAction[f]
    ELSE IF f = "volition" /\ command.action = "list"
         THEN IF command.first = "due" THEN "list_due"
              ELSE IF command.args = 0 \/ command.first = "active" THEN "list_active" ELSE "list"
    ELSE IF mapped = {} THEN command.action ELSE CHOOSE a \in mapped : TRUE

\* A query flag counts before the arguments where the focus is searched.
Refused(f, a, command) ==
    \/ f \notin LeftToHandler /\ a \notin DOMAIN ShellNeeds[f]
    \/ /\ a \in DOMAIN ShellNeeds[f]
       /\ \E need \in ShellNeeds[f][a] : ~Satisfied(command, need)
    \/ /\ <<f, a>> = <<"focus", "search">> /\ Valued(command, <<"query", "q">>) # <<>>
       /\ ~GivenText(command, <<"query", "q">>)

-----------------------------------------------------------------------------
(* The routes *)

\* A bug: a memory is opened through the route that takes a body.
PathFaultPost(f, a, id) ==
    [method |-> "POST",
     path |-> IF f = "session" /\ a = "summarize" THEN <<"sessions">> \o id \o <<"summarize">>
              ELSE <<f>> \o id]

\* The method and the path of an operation with its id in the path.
PathOf(f, a, id) ==
    [method |-> IF a = "summarize" THEN "POST" ELSE "GET",
     path |-> CASE f = "memory" -> <<"memory">> \o id
                [] a = "message" -> <<"sessions", "messages">> \o id
                [] a = "turn" -> <<"sessions", "turns">> \o id
                [] a = "summarize" -> <<"sessions">> \o id \o <<"summarize">>
                [] OTHER -> <<"sessions">> \o id]

HasIdInPath == {<<"memory", "open">>, <<"session", "open">>, <<"session", "message">>,
                <<"session", "turn">>, <<"session", "summarize">>}

Request(f, a, id) ==
    IF <<f, a>> \in HasIdInPath THEN PathOf(f, a, id)
    ELSE [method |-> IF a \in {"facts", "conflicts"} \/ f = "session" THEN "GET" ELSE "POST",
          path |-> CASE f = "memory" -> <<"memory", a>>
                     [] f = "session" -> <<"sessions">>
                     [] f = "metacognition" -> <<"metacognition", "step">>
                     [] OTHER -> <<f>>]

\* Routes compared as a whole, with the methods they take and their handler.
ExactRoutes ==
    {[path |-> <<"memory", a>>, methods |-> {"POST"}, handler |-> <<"memory", a>>] :
        a \in {"write", "deprecate", "supersede"}}
    \cup {[path |-> <<"memory", a>>, methods |-> {"GET", "POST"}, handler |-> <<"memory", a>>] :
            a \in {"search", "graph"}}
    \cup {[path |-> <<"memory", a>>, methods |-> {"GET"}, handler |-> <<"memory", a>>] :
            a \in {"conflicts", "facts"}}
    \cup {[path |-> <<"memory", "facts", "backfill">>, methods |-> {"POST"},
           handler |-> <<"memory", "backfill">>],
          [path |-> <<"sessions">>, methods |-> {"GET"}, handler |-> <<"session", "list">>],
          [path |-> <<"metacognition", "step">>, methods |-> {"POST"},
           handler |-> <<"metacognition", "step">>]}
    \cup {[path |-> <<f>>, methods |-> {"POST"}, handler |-> <<f, "any">>] : f \in LeftToHandler}

\* dispatch_mind_api: the routes are tried in this order.
Handler(request) ==
    LET path == request.path
        whole == {r \in ExactRoutes : r.path = path /\ request.method \in r.methods}
        rest == IF Len(path) > 1 THEN Tail(path) ELSE <<>>
        Under(name) == Len(rest) > 1 /\ Head(rest) = name IN
    IF whole # {} THEN (CHOOSE r \in whole : TRUE).handler
    ELSE IF Head(path) = "sessions" /\ rest # <<>>
    THEN IF request.method = "GET"
         THEN <<"session", IF Under("messages") THEN "message"
                           ELSE IF Under("turns") THEN "turn" ELSE "open">>
         ELSE IF Len(rest) > 1 /\ Last(rest) = "summarize" THEN <<"session", "summarize">>
              ELSE <<Unknown>>
    ELSE IF Head(path) = "memory" /\ request.method = "GET" /\ rest # <<>> /\ Head(rest) = Head(PlainId)
    THEN <<"memory", "open">>
    ELSE <<Unknown>>

\* What the handlers of focus, volition, affect and mode refuse a body without.
HandlerTakes(f, a, command) ==
    /\ f \in LeftToHandler => a \in DOMAIN Registry[f]
    /\ a = "resolve" => GivenText(command, <<"resolution">>) \/ GivenText(command, <<"reason", "why">>)
    /\ a \in {"impossible", "mark_impossible"} =>
         \/ GivenText(command, <<"impossible-reason", "reason">>)
         \/ GivenText(command, <<"reason", "why">>)
    /\ f = "focus" /\ Valued(command, <<"object">>) # <<>> => GivenText(command, <<"object">>)
    /\ f = "volition" /\ a = "deprecate" => GivenText(command, <<"reason", "why">>)

\* dispatch_mind_shell.
Dispatch(command) ==
    LET f == CanonicalFamily(command.family)
        a == IF f = Unknown THEN Unknown ELSE ShellAction(f, command)
        handler == Handler(Request(f, a, command.id)) IN
    IF f = Unknown \/ Refused(f, a, command)
    THEN [kind |-> "refused", target |-> <<>>, handler |-> <<>>, taken |-> FALSE]
    ELSE [kind |-> "routed", target |-> <<f, a>>, handler |-> handler,
          taken |-> handler # <<Unknown>> /\ HandlerTakes(f, a, command)]

-----------------------------------------------------------------------------
(* Commands one after another *)

\* A bug: a refused command is keyed by the words it was written with.
OperationKeyFaultWords(command) ==
    IF Dispatch(command).kind = "routed" THEN Dispatch(command).target
    ELSE <<command.family, command.action>>

\* _tool_operation_key: the target the shell answers with, or, where it refuses, the
\* operation of the validation it attaches.
OperationKey(command) ==
    LET v == Validate(command) IN
    IF Dispatch(command).kind = "routed" THEN Dispatch(command).target
    ELSE IF v.family = Unknown THEN <<>>
    ELSE IF v.action = Unknown THEN <<v.family>> ELSE <<v.family, v.action>>

\* The flags a command of the operation may be asked for.
FlagsOf(f, a) ==
    IF f = Unknown \/ a = Unknown THEN {"reason"}
    ELSE UNION {UNION group : group \in Registry[f][a].needs} \ {"arg", "arg2"}

\* Each of them with a text, blank, bare or left out.
FlagsGiven(names) == UNION {[given -> {"text", "blank", "bare"}] : given \in SUBSET names}

\* The names an operation may be called by.
Names(f) == {"", Unknown, "list"} \cup DOMAIN Registry[f]
            \cup UNION {Registry[f][a].aliases : a \in DOMAIN Registry[f]}

Written(family, action, args, first, flags, id) ==
    [family |-> family, action |-> action, args |-> args, first |-> first, flags |-> flags,
     id |-> id]

\* The first command: any family under any of its names with any action, and under its
\* own with any name of the action.  Only a command with an argument has a first one,
\* and only volition list reads it.
Commands(f) ==
    UNION {{Written(family, action, args, "text", flags, id) :
               family \in IF action \in DOMAIN Registry[f] \cup {""} THEN {f} \cup FamilyAliases[f] ELSE {f},
               args \in IF action = "" THEN {0} ELSE 0..2,
               flags \in IF action = "" THEN {<<>>} ELSE FlagsGiven(FlagsOf(f, CanonicalAction(f, action))),
               id \in IF <<f, CanonicalAction(f, action)>> \in HasIdInPath
                      THEN Ids ELSE {PlainId}} : action \in Names(f)}
    \cup {Written(f, "list", 1, first, <<>>, PlainId) : first \in {"due", "active"}}

\* The registry's name for the operation, and everything it may ask for.
Corrected(command) ==
    LET v == Validate(command) IN
    Written(v.family, v.action, command.args, command.first,
            [name \in FlagsOf(v.family, v.action) |-> "text"], command.id)

Give(command) ==
    /\ Len(attempts) < MaxAttempts
    /\ verdict' = Validate(command)
    /\ reply' = Dispatch(command)
    /\ attempts' = Append(attempts, [command |-> command, key |-> OperationKey(command)])

GiveFirst ==
    /\ attempts = <<>>
    /\ \/ \E f \in Families : \E command \in Commands(f) : Give(command)
       \/ Give(Written(Unknown, Unknown, 1, "text", <<>>, PlainId))

\* Refused, Scarlet gives the command again as the registry has it.
GiveCorrected ==
    /\ attempts # <<>> /\ ~reply.taken
    /\ verdict.action # Unknown
    /\ Give(Corrected(Last(attempts).command))

ShellInit ==
    /\ verdict = [family |-> Unknown, action |-> Unknown, available |-> FALSE]
    /\ reply = [kind |-> "none", target |-> <<>>, handler |-> <<>>, taken |-> FALSE]
    /\ attempts = <<>>

ShellNext == GiveFirst \/ GiveCorrected

ShellSpec == ShellInit /\ [][ShellNext]_shellVars

-----------------------------------------------------------------------------
(* Properties *)

Answered == attempts # <<>>
Command == Last(attempts).command
Complete == \A name \in DOMAIN Command.flags : Command.flags[name] = "text"
\* volition list with a word it does not know goes to the handler as it is.
OtherList == verdict.family = "volition" /\ Command.action = "list"
             /\ Command.args > 0 /\ Command.first = "text"

\* BUG-0068: what the registry calls available the shell runs, when every flag of
\* the command has a value and the id is one: neither a branch of the shell nor the
\* handler behind it refuses it for what it lacks.
AvailableIsTaken ==
    Answered /\ verdict.available /\ Complete /\ Command.id = PlainId /\ ~OtherList => reply.taken

\* What runs is the operation the registry names, never one it says is not
\* available or does not know, and its own handler runs it.
RunsWhatIsNamed ==
    Answered /\ reply.taken /\ Command.first # "due" =>
        /\ verdict.action # Unknown
        /\ Registry[verdict.family][verdict.action].status = "implemented"
        /\ reply.target = <<verdict.family, verdict.action>>
        /\ Command.id = PlainId => reply.handler \in {reply.target, <<verdict.family, "any">>}

\* A command given again after it was refused counts as a later attempt of the same
\* operation (answer_obligations), though the keys of the two come from different
\* parts of their results.
RetryKeepsKey ==
    Len(attempts) = 2 /\ attempts[1].command.action # "list" => attempts[1].key = attempts[2].key

\* What the registry asks for is enough: with all of it, the command is taken.
OneCorrectionSuffices ==
    Len(attempts) = 2 /\ Command.id = PlainId
        /\ Registry[verdict.family][verdict.action].status = "implemented" => reply.taken

\* Whatever is given as an id, an operation that reads stays one that reads, though
\* its path may be that of another route.
ReadsStayReads ==
    Answered /\ reply.kind = "routed" /\ reply.target \in HasIdInPath \ {<<"session", "summarize">>} =>
        reply.handler \in {<<Unknown>>} \cup {<<"session", a>> : a \in {"list", "open", "message", "turn"}}
                             \cup {<<"memory", a>> : a \in {"open", "search", "graph", "facts", "conflicts"}}

\* The registry, the shell, the dispatcher and the keys of the answer obligations
\* mean the same operation by one command.
CommandTablesAgree ==
    /\ AvailableIsTaken /\ RunsWhatIsNamed /\ ReadsStayReads
    /\ RetryKeepsKey /\ OneCorrectionSuffices

=============================================================================
