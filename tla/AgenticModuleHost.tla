------------------------- MODULE AgenticModuleHost -------------------------
(***************************************************************************)
(* agentic_modules/host.py, ports.py and transport.py: the host that       *)
(* starts, calls and stops one process per active module, and quarantines  *)
(* a module that fails together with the modules that require it.          *)
(*                                                                         *)
(* The host runs in one asyncio loop.  A task is a stack of frames, one    *)
(* for each coroutine that has not returned; only a task whose top frame   *)
(* waits (for a process to be created or to exit, for the request lock of  *)
(* a process, or for a line of its output) lets other tasks run.  The two  *)
(* telemetry sinks return without waiting, so emitting a receipt is no     *)
(* such point.  Processes crash at any time.                               *)
(***************************************************************************)
EXTENDS ActivationPlan

CONSTANTS
    Graphs,        \* the required-dependency graphs the manifests may have
    Ports,         \* for each port, the number of capabilities of each module
    Managers,      \* tasks that activate, disable, enable and stop
    Callers,       \* tasks that collect health, context, prompts and events
    MaxProcesses,  \* bound: process identities, reused once forgotten
    Overlap,       \* whether calls run while a manager changes the modules
    None

ASSUME GraphsOfModules == Graphs \subseteq [Modules -> SUBSET Modules]
ASSUME PortsOfModules  == Ports \subseteq [Modules -> Nat]
ASSUME ProcessBound    == MaxProcesses \in Nat \ {0}
ASSUME OverlapBoolean  == Overlap \in BOOLEAN
ASSUME NoneIsNoMode    == None \notin Modes /\ None \notin Modules

VARIABLES
    requires,   \* required dependencies, from the manifests
    disabled,   \* _disabled
    failed,     \* the keys of _failed
    plan,       \* activation_plan.ordered_active_modules
    mode,       \* active_mode_tag
    table,      \* _processes: the process of each module, 0 for none
    procs,      \* the state of each process
    lock,       \* _request_lock: the task that holds it, per process
    stack       \* the frames of each task, the innermost first

config == <<requires, disabled, plan, mode>>
vars   == <<requires, disabled, failed, plan, mode, table, procs, lock, stack>>

Tasks     == Managers \cup Callers
Processes == 1..MaxProcesses

\* "new" before create_subprocess_exec returns; "up" with a live process;
\* "crashed" when it exited by itself; "ending" between the signal of
\* terminate and the exit; "none" when no process is left.
ProcessState == {"none", "new", "up", "crashed", "ending"}

WaitPoints == {"spawn", "wait", "io", "exit", "yield"}

Frame ==
    [op   : {"stop", "halt", "plan", "replan", "startAll", "start", "health",
             "call", "dependents", "probe", "collect"},
     m    : Modules \cup Modes \cup {None},
     p    : 0..MaxProcesses,
     at   : WaitPoints \cup {"loop", "lookup", "ask", "ok", "err", "done"},
     next : {"err", "done"},
     todo : Seq(Modules)]

New(op, m, p, at, todo) ==
    [op |-> op, m |-> m, p |-> p, at |-> at, next |-> "done", todo |-> todo]

\* Faults: stop goes in activation order; stop leaves out the last module.
StopForward == New("stop", None, 0, "loop", plan)
StopButLast ==
    New("stop", None, 0, "loop", [i \in 1..(Len(plan) - 1) |-> plan[Len(plan) - i]])

\* The coroutines stop, the rest of activate after it, and _stop_process.
StopAll ==
    New("stop", None, 0, "loop", [i \in DOMAIN plan |-> plan[Len(plan) + 1 - i]])
Planning(md) == New("plan", md, 0, "loop", <<>>)
Halting(m) == New("halt", m, table[m], "ask", <<>>)

\* The type of the state; a taken lock is held by the task that reads.
TypeOK ==
    /\ requires \in Graphs
    /\ disabled \subseteq Modules
    /\ failed \subseteq Modules
    /\ plan \in Seq(Modules)
    /\ mode \in Modes \cup {None}
    /\ table \in [Modules -> 0..MaxProcesses]
    /\ procs \in [Processes -> ProcessState]
    /\ stack \in [Tasks -> Seq(Frame)]
    /\ lock \in [Processes -> Tasks \cup {None}]
    /\ \A p \in Processes : lock[p] # None =>
          LET t == lock[p] IN stack[t] # <<>> /\ Head(stack[t]).p = p /\ Head(stack[t]).at = "io"

Init ==
    /\ requires \in Graphs
    /\ disabled = {} /\ failed = {} /\ plan = <<>> /\ mode = None
    /\ table = [m \in Modules |-> 0]
    /\ procs = [p \in Processes |-> "none"]
    /\ lock = [p \in Processes |-> None]
    /\ stack = [t \in Tasks |-> <<>>]

-----------------------------------------------------------------------------
(* Tasks.                                                                  *)

Busy(t) == stack[t] # <<>>
Top(t)  == Head(stack[t])
Idle(S) == \A t \in S : ~Busy(t)

\* The loop runs t, which is not waiting, at this point of these coroutines.
Turn(t, ops, at) ==
    /\ Busy(t) /\ Top(t).op \in ops /\ Top(t).at = at
    /\ \A u \in Tasks \ {t} : Busy(u) => Top(u).at \in WaitPoints

Become(t, f)  == stack' = [stack EXCEPT ![t] = <<f>> \o Tail(@)]
Await(t, f, g) == stack' = [stack EXCEPT ![t] = <<g, f>> \o Tail(@)]
Return(t)     == stack' = [stack EXCEPT ![t] = Tail(@)]
Raise(t)      == stack' = [stack EXCEPT ![t] = <<>>]

StateOf(p) == IF p = 0 THEN "none" ELSE procs[p]
Running(p) == StateOf(p) = "up"

\* running_module_ids, as a set.
RunningModules == {m \in Modules : Running(table[m]) /\ \E i \in DOMAIN plan : plan[i] = m}

Forgotten(p) ==
    /\ procs[p] = "none"
    /\ \A m \in Modules : table[m] # p
    /\ \A t \in Tasks : \A i \in DOMAIN stack[t] : stack[t][i].p # p

-----------------------------------------------------------------------------
(* JsonLineModuleProcess.                                                  *)

\* terminate: the first to call it signals the process and waits for the
\* exit; a later one, or one that finds it crashed, only lets others run.
Terminate(t, next) ==
    LET f == Top(t)
        st == StateOf(f.p) IN
    /\ procs' = [p \in Processes |->
                   IF p # f.p THEN procs[p]
                   ELSE CASE st = "up"      -> "ending"
                          [] st = "crashed" -> "none"
                          [] OTHER          -> st]
    /\ Become(t, [f EXCEPT !.next = next,
                           !.at = CASE st = "up"                    -> "exit"
                                    [] st \in {"crashed", "ending"} -> "yield"
                                    [] OTHER                        -> next])

Callees == {"halt", "start", "health", "call"}

\* request, up to the first wait: a process that is not running is refused,
\* a lock that is taken is waited for.
Ask(t) ==
    /\ Turn(t, Callees, "ask")
    /\ LET f == Top(t) IN
       \/ /\ ~Running(f.p)
          /\ Become(t, [f EXCEPT !.at = "err"])
          /\ UNCHANGED lock
       \/ /\ Running(f.p) /\ lock[f.p] = None
          /\ \A u \in Tasks : Busy(u) => ~(Top(u).at = "wait" /\ Top(u).p = f.p)
          /\ lock' = [lock EXCEPT ![f.p] = t]
          /\ Become(t, [f EXCEPT !.at = "io"])
       \/ /\ Running(f.p)
          /\ \/ lock[f.p] # None
             \/ \E u \in Tasks : Busy(u) /\ Top(u).at = "wait" /\ Top(u).p = f.p
          /\ Become(t, [f EXCEPT !.at = "wait"])
          /\ UNCHANGED lock
    /\ UNCHANGED <<config, failed, table, procs>>

\* The lock is granted; _require_process refuses a process that terminate
\* has let go of.
Granted(t) ==
    /\ Turn(t, Callees, "wait")
    /\ LET f == Top(t) IN
       /\ lock[f.p] = None
       /\ \/ /\ procs[f.p] \in {"up", "crashed"}
             /\ lock' = [lock EXCEPT ![f.p] = t]
             /\ Become(t, [f EXCEPT !.at = "io"])
          \/ /\ procs[f.p] \notin {"up", "crashed"}
             /\ Become(t, [f EXCEPT !.at = "err"])
             /\ UNCHANGED lock
    /\ UNCHANGED <<config, failed, table, procs>>

\* A line arrives in time and answers the request.
Answer(t) ==
    /\ Turn(t, Callees, "io")
    /\ lock' = [lock EXCEPT ![Top(t).p] = None]
    /\ Become(t, [Top(t) EXCEPT !.at = "ok"])
    /\ UNCHANGED <<config, failed, table, procs>>

\* Fault: the lock stays taken when a request fails.
LoseLock(t) ==
    /\ Turn(t, Callees, "io")
    /\ Terminate(t, "err")
    /\ UNCHANGED <<config, failed, table, lock>>

\* Timeout, closed pipe, end of file, oversized or malformed line, wrong
\* correlation id, remote error: the process is terminated.
Lose(t) ==
    /\ Turn(t, Callees, "io")
    /\ lock' = [lock EXCEPT ![Top(t).p] = None]
    /\ Terminate(t, "err")
    /\ UNCHANGED <<config, failed, table>>

\* terminate returns.
Terminated(t) ==
    /\ \/ Turn(t, Callees, "exit") /\ procs[Top(t).p] = "none"
       \/ Turn(t, Callees, "yield")
    /\ Become(t, [Top(t) EXCEPT !.at = Top(t).next])
    /\ UNCHANGED <<config, failed, table, procs, lock>>

\* A process ends on its own, or after the signal.
Crash(p) ==
    /\ procs[p] = "up"
    /\ procs' = [procs EXCEPT ![p] = "crashed"]
    /\ UNCHANGED <<config, failed, table, lock, stack>>

Exit(p) ==
    /\ procs[p] = "ending"
    /\ procs' = [procs EXCEPT ![p] = "none"]
    /\ UNCHANGED <<config, failed, table, lock, stack>>

-----------------------------------------------------------------------------
(* Calls, failures and quarantine.                                         *)

\* _call_model takes the process of the module from the table; a module
\* without one raises KeyError through every coroutine of the task.
Lookup(t) ==
    /\ Turn(t, {"call", "health"}, "lookup")
    /\ LET f == Top(t) IN
       IF table[f.m] = 0 THEN Raise(t)
       ELSE Become(t, [f EXCEPT !.p = table[f.m], !.at = "ask"])
    /\ UNCHANGED <<config, failed, table, procs, lock>>

\* The answer of a call satisfies its contract or does not.
Accept(t) ==
    /\ Turn(t, {"call", "health"}, "ok")
    /\ Return(t)
    /\ UNCHANGED <<config, failed, table, procs, lock>>

Reject(t) ==
    /\ Turn(t, {"start", "call", "health"}, "ok")
    /\ Become(t, [Top(t) EXCEPT !.at = "err"])
    /\ UNCHANGED <<config, failed, table, procs, lock>>

\* The health probe of a start says unhealthy: _quarantine_module.
Unhealthy(t) ==
    /\ Turn(t, {"health"}, "ok")
    /\ Become(t, [Top(t) EXCEPT !.p = table[Top(t).m], !.at = "err"])
    /\ UNCHANGED <<config, failed, table, procs, lock>>

\* Fault: the failed module keeps its place in the table.
KeepFailed(t) ==
    /\ Turn(t, {"start", "health", "call"}, "err")
    /\ failed' = failed \cup {Top(t).m}
    /\ Terminate(t, "done")
    /\ UNCHANGED <<config, table, lock>>

\* Fault: the failed module is taken out but its process is let go.
LetGo(t) ==
    /\ Turn(t, {"start", "health", "call"}, "err")
    /\ failed' = failed \cup {Top(t).m}
    /\ table' = [table EXCEPT ![Top(t).m] = 0]
    /\ Become(t, [Top(t) EXCEPT !.at = "done"])
    /\ UNCHANGED <<config, procs, lock>>

\* Fault: the failure is not recorded.
Unrecorded(t) ==
    /\ Turn(t, {"start", "health", "call"}, "err")
    /\ table' = [table EXCEPT ![Top(t).m] = 0]
    /\ Terminate(t, "done")
    /\ UNCHANGED <<config, failed, lock>>

\* A start, a call, or a quarantine: the module is recorded as failed, its
\* entry of the table removed whichever process it names, and the process
\* of this call terminated.
Fail(t) ==
    /\ Turn(t, {"start", "health", "call"}, "err")
    /\ failed' = failed \cup {Top(t).m}
    /\ table' = [table EXCEPT ![Top(t).m] = 0]
    /\ Terminate(t, "done")
    /\ UNCHANGED <<config, lock>>

\* A failed start and a stopped process return; the failure of a call goes
\* on to the dependents.
Failed(t) ==
    /\ \/ Turn(t, {"start", "halt"}, "done") /\ Return(t)
       \/ /\ Turn(t, {"call", "health"}, "done")
          /\ Become(t, New("dependents", Top(t).m, 0, "loop", Registry))
    /\ UNCHANGED <<config, failed, table, procs, lock>>

\* Fault: only the modules after the failed one in the registry are looked at.
RequiresLater(m, d) ==
    /\ m \in requires[d]
    /\ \E i, j \in DOMAIN Registry : i < j /\ Registry[i] = m /\ Registry[j] = d

Requires(m, d) == m \in requires[d]

\* _quarantine_dependents: each running module that requires the failed one
\* is failed, popped and terminated, and its own dependents in turn.
QuarantineNext(t) ==
    /\ Turn(t, {"dependents"}, "loop")
    /\ LET f == Top(t)
           d == Head(f.todo)
           rest == [f EXCEPT !.todo = Tail(@)] IN
       \/ f.todo = <<>> /\ Return(t)
       \/ /\ f.todo # <<>> /\ table[d] # 0 /\ Requires(f.m, d)
          /\ Await(t, rest, New("call", d, table[d], "err", <<>>))
       \/ /\ f.todo # <<>> /\ ~(table[d] # 0 /\ Requires(f.m, d))
          /\ Become(t, rest)
    /\ UNCHANGED <<config, failed, table, procs, lock>>

-----------------------------------------------------------------------------
(* Activation.                                                             *)

\* stop: the modules of the plan in reverse order, each popped and then
\* stopped.  The second loop of stop finds nothing when one task at a time
\* manages the host: StopLeavesNothing.
StopNext(t) ==
    /\ Turn(t, {"stop"}, "loop")
    /\ LET f == Top(t)
           m == Head(f.todo)
           rest == [f EXCEPT !.todo = Tail(@)] IN
       \/ f.todo = <<>> /\ Return(t) /\ UNCHANGED table
       \/ /\ f.todo # <<>> /\ table[m] # 0
          /\ table' = [table EXCEPT ![m] = 0]
          /\ Await(t, rest, Halting(m))
       \/ /\ f.todo # <<>> /\ table[m] = 0
          /\ Become(t, rest)
          /\ UNCHANGED table
    /\ UNCHANGED <<config, failed, procs, lock>>

\* _stop_process terminates whether or not lifecycle.stop was answered.
Halt(t) ==
    /\ Turn(t, {"halt"}, "ok") \/ Turn(t, {"halt"}, "err")
    /\ Terminate(t, "done")
    /\ UNCHANGED <<config, failed, table, lock>>

\* Fault: the plan is made of every registered module.
PlanOfAll(t) ==
    /\ Turn(t, {"plan"}, "loop")
    /\ mode' = Top(t).m
    /\ failed' = {}
    /\ plan' = ActivationOrder(requires, Modules, Top(t).m)
    /\ Become(t, New("startAll", None, 0, "loop", plan'))
    /\ UNCHANGED <<requires, disabled, table, procs, lock>>

\* activate, after stop: the mode is set, failures are forgotten, the plan
\* is made of the modules that are not disabled.
Plan(t) ==
    /\ Turn(t, {"plan"}, "loop")
    /\ mode' = Top(t).m
    /\ failed' = {}
    /\ plan' = ActivationOrder(requires, Modules \ disabled, Top(t).m)
    /\ Become(t, New("startAll", None, 0, "loop", plan'))
    /\ UNCHANGED <<requires, disabled, table, procs, lock>>

\* The loop of activate: a module whose required dependency does not run is
\* skipped as failed; _start_registration of the others enters the process
\* in the table before it exists.
StartNext(t) ==
    /\ Turn(t, {"startAll"}, "loop")
    /\ LET f == Top(t)
           m == Head(f.todo)
           rest == [f EXCEPT !.todo = Tail(@)] IN
       \/ /\ f.todo = <<>>
          /\ Return(t)
          /\ UNCHANGED <<failed, table, procs>>
       \/ /\ f.todo # <<>> /\ ~(requires[m] \subseteq RunningModules)
          /\ failed' = failed \cup {m}
          /\ Become(t, rest)
          /\ UNCHANGED <<table, procs>>
       \/ /\ f.todo # <<>> /\ requires[m] \subseteq RunningModules
          /\ \E p \in Processes :
                /\ Forgotten(p) /\ \A q \in 1..(p - 1) : ~Forgotten(q)
                /\ table' = [table EXCEPT ![m] = p]
                /\ procs' = [procs EXCEPT ![p] = "new"]
                /\ Await(t, rest, New("start", m, p, "spawn", <<>>))
          /\ UNCHANGED failed
    /\ UNCHANGED <<config, lock>>

\* create_subprocess_exec returns, or raises.
Spawn(t) ==
    /\ Turn(t, {"start"}, "spawn")
    /\ LET f == Top(t) IN
       \/ /\ procs' = [procs EXCEPT ![f.p] = "up"]
          /\ Become(t, [f EXCEPT !.at = "ask"])
       \/ /\ procs' = [procs EXCEPT ![f.p] = "none"]
          /\ Become(t, [f EXCEPT !.at = "err"])
    /\ UNCHANGED <<config, failed, table, lock>>

\* lifecycle.start answered ready: the health probe follows.
Ready(t) ==
    /\ Turn(t, {"start"}, "ok")
    /\ Become(t, New("health", Top(t).m, 0, "lookup", <<>>))
    /\ UNCHANGED <<config, failed, table, procs, lock>>

-----------------------------------------------------------------------------
(* What managers and callers begin.                                        *)

MayManage(t) == t \in Managers /\ Idle(Managers) /\ (Overlap \/ Idle(Tasks))
MayCall(t)   == t \in Callers /\ ~Busy(t) /\ (Overlap \/ Idle(Managers))

Begin(t, frames) ==
    /\ \A u \in Tasks : Busy(u) => Top(u).at \in WaitPoints
    /\ stack' = [stack EXCEPT ![t] = frames]

Activate(t, md) ==
    /\ MayManage(t)
    /\ Begin(t, <<StopAll, Planning(md)>>)
    /\ UNCHANGED <<config, failed, table, procs, lock>>

Stop(t) ==
    /\ MayManage(t)
    /\ Begin(t, <<StopAll>>)
    /\ UNCHANGED <<config, failed, table, procs, lock>>

Disable(t, m) ==
    /\ MayManage(t)
    /\ disabled' = disabled \cup {m}
    /\ table' = [table EXCEPT ![m] = 0]
    /\ Begin(t, (IF table[m] # 0 THEN <<Halting(m)>> ELSE <<>>)
                  \o <<New("replan", None, 0, "loop", <<>>)>>)
    /\ UNCHANGED <<requires, failed, plan, mode, procs, lock>>

Enable(t, m) ==
    /\ MayManage(t)
    /\ disabled' = disabled \ {m}
    /\ Begin(t, <<New("replan", None, 0, "loop", <<>>)>>)
    /\ UNCHANGED <<requires, failed, plan, mode, table, procs, lock>>

\* The end of disable and of enable: activate again in the mode there is.
Replan(t) ==
    /\ Turn(t, {"replan"}, "loop")
    /\ \/ mode = None /\ Return(t)
       \/ /\ mode # None
          /\ stack' = [stack EXCEPT ![t] = <<StopAll, Planning(mode)>> \o Tail(@)]
    /\ UNCHANGED <<config, failed, table, procs, lock>>

\* The running modules in plan order, each as often as it has capabilities.
Served(port) ==
    LET each[i \in 0..Len(plan)] ==
          IF i = 0 THEN <<>>
          ELSE each[i-1] \o (IF plan[i] \in RunningModules
                             THEN [k \in 1..port[plan[i]] |-> plan[i]] ELSE <<>>)
    IN each[Len(plan)]

\* collect_health.
CollectHealth(t) ==
    /\ MayCall(t)
    /\ Begin(t, <<New("probe", None, 0, "loop", Served([m \in Modules |-> 1]))>>)
    /\ UNCHANGED <<config, failed, table, procs, lock>>

\* collect_context, collect_prompt, dispatch_event; invoke_command is a port
\* with one capability in one module.
Collect(t, port) ==
    /\ MayCall(t)
    /\ Begin(t, <<New("collect", None, 0, "loop", Served(port))>>)
    /\ UNCHANGED <<config, failed, table, procs, lock>>

\* The next capability.  A collection looks again whether a module runs
\* before its first capability, and not before the next; health never does.
ServeNext(t) ==
    /\ Turn(t, {"probe", "collect"}, "loop")
    /\ LET f == Top(t)
           m == Head(f.todo)
           passed == f.op = "collect" /\ m # f.m /\ m \notin RunningModules IN
       \/ f.todo = <<>> /\ Return(t)
       \/ /\ f.todo # <<>> /\ passed
          /\ Become(t, [f EXCEPT !.todo = Tail(@)])
       \/ /\ f.todo # <<>> /\ ~passed
          /\ Await(t, [f EXCEPT !.todo = Tail(@), !.m = m],
                      New("call", m, 0, "lookup", <<>>))
    /\ UNCHANGED <<config, failed, table, procs, lock>>

-----------------------------------------------------------------------------
Step(t) ==
    \/ Ask(t) \/ Granted(t) \/ Answer(t) \/ Lose(t) \/ Terminated(t)
    \/ Lookup(t) \/ Accept(t) \/ Reject(t) \/ Unhealthy(t) \/ Fail(t) \/ Failed(t)
    \/ QuarantineNext(t) \/ StopNext(t) \/ Halt(t) \/ Plan(t) \/ StartNext(t)
    \/ Spawn(t) \/ Ready(t) \/ Replan(t) \/ ServeNext(t)

Next ==
    \/ \E t \in Tasks : Step(t)
    \/ \E p \in Processes : Crash(p) \/ Exit(p)
    \/ \E t \in Tasks, md \in Modes : Activate(t, md)
    \/ \E t \in Tasks, m \in Modules : Disable(t, m) \/ Enable(t, m)
    \/ \E t \in Tasks : Stop(t) \/ CollectHealth(t)
    \/ \E t \in Tasks, port \in Ports : Collect(t, port)

Spec == Init /\ [][Next]_vars

\* The loop runs every task that can go on again and again, a request ends
\* at its timeout, asyncio.Lock serves waiters in order, and terminate ends in
\* SIGKILL.
FairSpec ==
    /\ Spec
    /\ \A t \in Tasks : SF_vars(Step(t))
    /\ \A p \in Processes : WF_vars(Exit(p))

-----------------------------------------------------------------------------
(* Properties.                                                             *)

Quiet == Idle(Tasks)

Registered(m) == table[m] # 0

\* Whenever no manager is at work, the planned modules are the largest set of
\* fit modules of the mode that is closed under required dependencies and has
\* no cycle, and each comes after what it requires.
PlanIsLargest ==
    Idle(Managers) /\ mode # None =>
        /\ {plan[i] : i \in DOMAIN plan}
             = LargestRunnable(requires, Modules \ disabled, mode)
        /\ DependenciesFirst(requires, plan)

\* A process that lives or is being created is known to the host: it is in
\* the table or some call still holds it.
NoOrphans ==
    \A p \in Processes : procs[p] \in {"new", "up"} =>
        \/ \E m \in Modules : table[m] = p
        \/ \E t \in Tasks : \E i \in DOMAIN stack[t] : stack[t][i].p = p

\* Once every operation has returned, no module is left in the table whose
\* required dependency is not in it: a failure took its dependents along.
QuarantineReachesDependents ==
    Quiet => \A d \in Modules : Registered(d) =>
                \A m \in requires[d] : Registered(m)

\* Once every operation has returned, a planned module is in the table or
\* recorded as failed, unless the host was stopped.
NothingLost ==
    Quiet /\ (\E m \in Modules : Registered(m)) =>
        \A i \in DOMAIN plan : Registered(plan[i]) \/ plan[i] \in failed

\* A module recorded as failed is never in the table again before the next
\* activation.
FailedIsOut == \A m \in failed : ~Registered(m)

\* Whenever no manager is at work, a disabled module has no process.
DisabledIsOut == Idle(Managers) => \A m \in disabled : ~Registered(m)

\* The first loop of stop leaves nothing for the second.
StopLeavesNothing ==
    \A t \in Tasks : Busy(t) /\ Top(t).op = "stop" /\ Top(t).todo = <<>> =>
        \A m \in Modules : ~Registered(m)

\* Stop goes in reverse activation order: a module is stopped when nothing
\* that requires it is in the table.
DependentsStopFirst ==
    [][\A t \in Tasks : StopNext(t) =>
         \A m, d \in Modules :
            Registered(m) /\ table'[m] = 0 /\ m \in requires[d] => ~Registered(d)]_vars

\* A collection asks for the process of a module that has none, and ends
\* there with a KeyError, only after that module failed or was quarantined
\* while the collection ran, and the failure is on record.
CutsAreRecorded ==
    \A t \in Tasks : Busy(t) /\ Top(t).at = "lookup" =>
        Registered(Top(t).m) \/ Top(t).m \in failed

\* Every operation of the host returns, whatever the modules do.
EveryOperationEnds == \A t \in Tasks : Busy(t) ~> ~Busy(t)

\* Every process has an owner who ends it, and a failure takes out the module with
\* its dependents and nothing else, is on record, and lasts.
HostIsSound ==
    /\ TypeOK /\ NoOrphans /\ StopLeavesNothing
    /\ QuarantineReachesDependents /\ NothingLost /\ CutsAreRecorded
    /\ FailedIsOut /\ DisabledIsOut

=============================================================================
