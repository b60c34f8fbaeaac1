------------------------ MODULE MCAgenticModuleHost ------------------------
(* Three modules.  With the first graph a chain runs against the registry  *)
(* order, with the second two modules require each other.                  *)
EXTENDS AgenticModuleHost

CONSTANTS a, b, z

MCRegistry == <<a, b, z>>
MCTags     == [work |-> {a, b, z}, rest |-> {a, z}]

Graph(ofA, ofB, ofZ) == [m \in {a, b, z} |-> CASE m = a -> ofA [] m = b -> ofB [] m = z -> ofZ]
MCGraphs == {Graph({b}, {z}, {}), Graph({b}, {a}, {})}

\* A port with two capabilities in one module and none in another.
MCPorts == {[m \in {a, b, z} |-> CASE m = a -> 2 [] m = b -> 1 [] m = z -> 0]}
=============================================================================
