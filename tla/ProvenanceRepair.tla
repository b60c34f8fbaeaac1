-------------------------- MODULE ProvenanceRepair --------------------------
(***************************************************************************)
(* The repair of source messages (runtime/memory_provenance.py, api/       *)
(* maintenance.py).  A dry run lists the memories whose source turn has    *)
(* exactly one user message, and a digest of their ids.  The repair audits *)
(* again, requires that digest, and then sets the hook and records an      *)
(* activity, one commit each, memory by memory.  A turn may write a memory *)
(* at any time, and the process may die between two commits.               *)
(***************************************************************************)
EXTENDS Naturals, FiniteSets

CONSTANTS
    Legacy,          \* memories of older versions
    LegacyRows,      \* what each may be: [source, content, fixture]
    WrittenMemory,         \* a memory a turn may write meanwhile
    Contents,        \* normalized contents
    MaxRepairs, MaxRepairCrashes

ASSUME RepairAssumption == WrittenMemory \notin Legacy

VARIABLES
    record,     \* memory -> [source, content, fixture, exists]
    listed,     \* the candidates of the operator's last dry run
    repair,     \* the repair under way
    repairs, repairCrashes,
    repaired,   \* [memory, among]: hooks set, and what the dry run had listed
    activities  \* memories with a repair activity

repairVars == <<record, listed, repair, repairs, repairCrashes, repaired, activities>>

AllRecords == Legacy \cup {WrittenMemory}
Existing == {m \in AllRecords : record[m].exists}
RepairIdle == [at |-> "idle"]

\* The classes of _classify_provenance, by the first hook that does not resolve.
Sources == {"missing_source_session", "invalid_source_session", "source_session_only",
            "invalid_source_turn", "repairable_single_user_message", "ambiguous_source_turn",
            "invalid_source_message", "source_complete_valid"}

\* A bug: twins are looked for among the memories that can be traced.
DuplicatesFaultTraced(m) ==
    {n \in Existing \ {m} : record[n].content = record[m].content
                            /\ record[n].source = "source_complete_valid"}
\* Other memories of the same normalized content, whatever their status.
Duplicates(m) == {n \in Existing \ {m} : record[n].content = record[m].content}

\* Fixtures and duplicates are classed before repairable hooks.
Repairable ==
    {m \in Existing : ~record[m].fixture /\ Duplicates(m) = {}
                      /\ record[m].source = "repairable_single_user_message"}

RepairDryRun ==
    /\ listed' = Repairable
    /\ UNCHANGED <<record, repair, repairs, repairCrashes, repaired, activities>>

\* A bug: the digest is not compared.
AcknowledgedFaultAny(candidates) == TRUE
\* The digest of the ids is the one the operator gives, taken from the dry run.
Acknowledged(candidates) == candidates = listed

BeginRepair ==
    /\ repair.at = "idle" /\ repairs < MaxRepairs
    /\ Acknowledged(Repairable) /\ Repairable # {}
    /\ repairs' = repairs + 1
    /\ repair' = [at |-> "hook", todo |-> Repairable, now |-> {}, reviewed |-> listed]
    /\ UNCHANGED <<record, listed, repairCrashes, repaired, activities>>

\* update_memory_source_message, for what the audit found, without another look.
SetHook(m) ==
    /\ repair.at = "hook" /\ m \in repair.todo
    /\ record' = [record EXCEPT ![m].source = "source_complete_valid"]
    /\ repaired' = repaired \cup {[memory |-> m, among |-> repair.reviewed]}
    /\ repair' = [repair EXCEPT !.at = "activity", !.todo = @ \ {m}, !.now = {m}]
    /\ UNCHANGED <<listed, repairs, repairCrashes, activities>>

\* A bug: the loop ends with the last hook.
ActivityOfFaultLast == IF repair.todo = {} THEN {} ELSE repair.now
ActivityOf == repair.now

RecordRepair ==
    /\ repair.at = "activity"
    /\ activities' = activities \cup ActivityOf
    /\ repair' = IF repair.todo = {} THEN RepairIdle
                 ELSE [repair EXCEPT !.at = "hook", !.now = {}]
    /\ UNCHANGED <<record, listed, repairs, repairCrashes, repaired>>

\* A turn writes a memory, whose text may be that of another one.
WriteRecord(content) ==
    /\ ~record[WrittenMemory].exists
    /\ record' = [record EXCEPT ![WrittenMemory] =
                    [source |-> "source_complete_valid", content |-> content,
                     fixture |-> FALSE, exists |-> TRUE]]
    /\ UNCHANGED <<listed, repair, repairs, repairCrashes, repaired, activities>>

RepairCrash ==
    /\ repair.at # "idle" /\ repairCrashes < MaxRepairCrashes
    /\ repair' = RepairIdle
    /\ repairCrashes' = repairCrashes + 1
    /\ UNCHANGED <<record, listed, repairs, repaired, activities>>

NoRecord(content) ==
    [source |-> "missing_source_session", content |-> content, fixture |-> FALSE,
     exists |-> FALSE]

RepairInit ==
    /\ record \in {[m \in AllRecords |->
                      IF m = WrittenMemory THEN NoRecord(CHOOSE c \in Contents : TRUE)
                      ELSE [source |-> rows[m].source, content |-> rows[m].content,
                            fixture |-> rows[m].fixture, exists |-> TRUE]]
                     : rows \in [Legacy -> LegacyRows]}
    /\ listed = {} /\ repair = RepairIdle /\ repairs = 0 /\ repairCrashes = 0
    /\ repaired = {} /\ activities = {}

RepairNext ==
    \/ RepairDryRun \/ BeginRepair \/ RecordRepair \/ RepairCrash
    \/ \E m \in AllRecords : SetHook(m)
    \/ \E content \in Contents : WriteRecord(content)

RepairSpec == RepairInit /\ [][RepairNext]_repairVars

-----------------------------------------------------------------------------
(* Properties *)

\* repair_exact_source_messages sets no hook the operator's last dry run did not
\* list, also when a first repair died half way, or ran to its end before.
OnlyReviewed == \A r \in repaired : r.memory \in r.among

\* A memory with an exact twin is left to a review: the only twin a repaired
\* memory may have was written by a turn, perhaps after the audit.
TwinsAreLeft ==
    \A r \in repaired :
      Duplicates(r.memory) = {} \/ Duplicates(r.memory) = {WrittenMemory}

\* Each hook that was set has its activity, unless a death came between the two.
RepairsRecorded ==
    repair.at = "idle" =>
      Cardinality({r.memory : r \in repaired} \ activities) <= repairCrashes

\* A repair does what was reviewed, to memories without doubt, and records it.
RepairIsReviewed == OnlyReviewed /\ TwinsAreLeft /\ RepairsRecorded

=============================================================================
