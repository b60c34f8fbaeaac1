------------------------- MODULE MCMemoryLifecycle -------------------------
(***************************************************************************)
(* Instances of MemoryLifecycle for TLC.                                   *)
(***************************************************************************)
EXTENDS MemoryLifecycle

CONSTANTS turn, turn2, claim, counterclaim, key

OneTurn == {turn}
TwoTurns == {turn, turn2}
TurnSymmetry == Permutations(TwoTurns)
\* Two texts with a fact of one entity and predicate; one is a fixture.
Claims == {claim, counterclaim}
AllCommands == {"write", "deprecate", "supersede", "backfill", "graph", "search"}
SomeCommands == {"write", "deprecate"}
NoFixture == {}
OneFixture == {counterclaim}
SharedKey == [c \in Claims |-> key]

=============================================================================
