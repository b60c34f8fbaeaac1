SPECIFICATION FairSpec
CONSTANTS
    a = a
    b = b
    z = z
    Registry <- MCRegistry
    Tags <- MCTags
    Unfit = {}
    Graphs <- MCGraphs
    Ports <- MCPorts
    Managers = {m1}
    Callers = {c1, c2}
    MaxProcesses = 5
    Overlap = FALSE
    None = None
INVARIANTS PlanIsLargest 
PROPERTIES DependentsStopFirst EveryOperationEnds
