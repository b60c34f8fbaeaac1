--------------------------- MODULE ActivationPlan ---------------------------
(***************************************************************************)
(* The planner of agentic modules, agentic_modules/validation.py: which of *)
(* the installed modules run in an agent mode, and in which order they are *)
(* started.  A manifest is reduced to the mode tags it declares, whether   *)
(* core, contract and dependency versions fit, and its required            *)
(* dependencies; optional dependencies only produce warnings.              *)
(***************************************************************************)
EXTENDS Naturals, Sequences, FiniteSets

CONSTANTS
    Registry,   \* the module ids of the registry, in its stable order
    Tags,       \* for each mode, the modules whose manifest declares it
    Unfit       \* modules whose versions or contracts do not fit the core

Modules == {Registry[i] : i \in DOMAIN Registry}
Modes   == DOMAIN Tags

ASSUME RegistryIsUnique ==
    /\ Registry \in Seq(Modules)
    /\ \A i, j \in DOMAIN Registry : Registry[i] = Registry[j] => i = j
ASSUME TagsAreModules == \A md \in Modes : Tags[md] \subseteq Modules
ASSUME UnfitAreModules == Unfit \subseteq Modules

InRegistryOrder(S) ==
    LET picked[n \in 0..Len(Registry)] ==
          IF n = 0 THEN <<>>
          ELSE IF Registry[n] \in S THEN Append(picked[n-1], Registry[n]) ELSE picked[n-1]
    IN picked[Len(Registry)]

\* The required graph: a dependency on a module that is not enabled is dropped.
RequiredGraph(requires, enabled) ==
    [m \in Modules |-> IF m \in enabled THEN requires[m] \cap enabled ELSE {}]

\* _cycle_members, as the modules that reach themselves.  The depth-first
\* search leaves out a module whose cycle runs through a finished one; that
\* one is a member, so the module is blocked as its dependent all the same.
CycleMembers(graph) ==
    LET reach[n \in 0..Len(Registry)] ==
          IF n = 0 THEN graph
          ELSE [m \in Modules |->
                  reach[n-1][m] \cup UNION {graph[d] : d \in reach[n-1][m]}]
    IN {m \in Modules : m \in reach[Len(Registry)][m]}

Eligible(enabled, md) == enabled \cap Tags[md]

\* What is blocked before blocking spreads: unfit modules, a required
\* dependency missing, in a cycle, or not tagged for this mode.
BlockedAtFirst(requires, enabled, md) ==
    LET graph == RequiredGraph(requires, enabled) IN
    {m \in enabled :
        \/ m \in Unfit
        \/ requires[m] \ enabled # {}
        \/ m \in CycleMembers(graph)
        \/ m \in Tags[md] /\ graph[m] \ Tags[md] # {}}

\* Fault: blocking does not spread to the dependents.
BlockedOnce(requires, enabled, md) == BlockedAtFirst(requires, enabled, md)

\* The loop that blocks an eligible module when a dependency is blocked,
\* until nothing changes.
Blocked(requires, enabled, md) ==
    LET graph == RequiredGraph(requires, enabled)
        spread[n \in 0..Len(Registry)] ==
          IF n = 0 THEN BlockedAtFirst(requires, enabled, md)
          ELSE spread[n-1] \cup {m \in Eligible(enabled, md) :
                                    graph[m] \cap spread[n-1] # {}}
    IN spread[Len(Registry)]

\* _topological_order: a queue of the modules whose dependencies are all
\* placed, in registry order among those that become free together.
TopologicalOrder(active, graph) ==
    LET needs(m) == graph[m] \cap active
        place == [s \in [done : Seq(active), queue : Seq(active)] |->
          IF s.queue = <<>> THEN s
          ELSE LET m    == Head(s.queue)
                   done == Append(s.done, m)
                   free == {d \in active : m \in needs(d) /\
                              \A e \in needs(d) : \E i \in DOMAIN done : done[i] = e}
               IN [done |-> done, queue |-> Tail(s.queue) \o InRegistryOrder(free)]]
        run[n \in 0..Len(Registry)] ==
          IF n = 0 THEN [done  |-> <<>>,
                         queue |-> InRegistryOrder({m \in active : needs(m) = {}})]
          ELSE place[run[n-1]]
    IN run[Len(Registry)].done

\* build_activation_plan: ordered_active_modules.
ActivationOrder(requires, enabled, md) ==
    TopologicalOrder(Eligible(enabled, md) \ Blocked(requires, enabled, md),
                     RequiredGraph(requires, enabled))

-----------------------------------------------------------------------------
(* What the planner promises, without its loops.                           *)

Closed(requires, S) == \A m \in S : requires[m] \subseteq S

Acyclic(requires, S) ==
    \A T \in SUBSET S : T # {} => \E m \in T : requires[m] \cap T = {}

\* The largest set of fit modules of the mode that holds every required
\* dependency of its members and no cycle.
LargestRunnable(requires, enabled, md) ==
    UNION {S \in SUBSET (Eligible(enabled, md) \ Unfit) :
              Closed(requires, S) /\ Acyclic(requires, S)}

DependenciesFirst(requires, order) ==
    \A i \in DOMAIN order : requires[order[i]] \subseteq {order[j] : j \in 1..(i-1)}
=============================================================================
