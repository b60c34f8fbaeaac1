------------------------- MODULE MCProviderHistory --------------------------
(***************************************************************************)
(* Instances of ProviderHistory, with the worker alone or with a request   *)
(* that runs a job from the laboratory surface, and of GptBridge.  A       *)
(* session's turns come from the chat or from the bridge: a behaviour runs *)
(* the one or the other, chosen by Transports.                             *)
(***************************************************************************)
EXTENDS ProviderHistory, GptBridge, TLC

CONSTANTS worker, laboratory, r1, r2, Transports

VARIABLE transport

OneRunner == {worker}
TwoRunners == {worker, laboratory}
TwoHandlers == {r1, r2}
HandlerSymmetry == Permutations(TwoHandlers)
OneDuty == {Duty("conflict", 0)}

SessionInit ==
    /\ Init /\ BridgeInit /\ transport \in Transports
    /\ transport = "chat" => mode = CHOOSE m \in BridgeModes : TRUE

SessionNext ==
    \/ transport = "chat" /\ Next /\ UNCHANGED <<transport, bridgeVars>>
    \/ transport = "bridge" /\ BridgeNext /\ UNCHANGED <<transport, vars>>

SessionSpec == SessionInit /\ [][SessionNext]_<<transport, vars, bridgeVars>>

=============================================================================
