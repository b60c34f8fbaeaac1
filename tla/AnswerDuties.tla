---------------------------- MODULE AnswerDuties -----------------------------
(***************************************************************************)
(* What an answer owes to the tool calls of its turn                       *)
(* (runtime/answer_obligations.py), for the native turn and the GPT bridge.*)
(***************************************************************************)
EXTENDS Integers, FiniteSets, SequencesExt

CONSTANTS
    Ops,            \* operations of the mind shell
    Inspections,    \* those that inspect its capabilities (help, schema, ...)
    ChainLimit      \* _ACTION_ATTEMPT_CHAIN_LIMIT

ASSUME DutiesAssumption == ChainLimit \in Nat

Results == {"ok", "recoverable", "fatal"}

Duty(about, id) == [about |-> about, id |-> id]

\* _later_same_operation_attempts: of those the chain looks at, one succeeded.
Recovered(calls, k) ==
    /\ calls[k].result = "recoverable"
    /\ LET same == {j \in (k + 1)..Len(calls) : calls[j].op = calls[k].op} IN
       \E j \in same : calls[j].result = "ok"
                       /\ Cardinality({i \in same : i < j}) < ChainLimit

\* augment_with_tool_evidence: every failed call obliges the answer, as does an
\* inspection of the capabilities that was not repeated with success.
ToolDuties(calls) ==
    {Duty("action", calls[k].id) : k \in {k \in DOMAIN calls : calls[k].result # "ok"}}
    \cup {Duty("capability", calls[k].id) :
            k \in {k \in DOMAIN calls : calls[k].op \in Inspections
                    /\ ~(calls[k].result # "ok" /\ Recovered(calls, k))}}

=============================================================================
