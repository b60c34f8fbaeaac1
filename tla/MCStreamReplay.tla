--------------------------- MODULE MCStreamReplay ---------------------------
(***************************************************************************)
(* Instances of StreamReplay: one turn followed live, a second turn of the *)
(* same session and the maintenance worker writing beside it.              *)
(***************************************************************************)
EXTENDS StreamReplay

CONSTANTS turnA, turnB, worker

TwoWriters == {turnA, worker}
ThreeWriters == {turnA, turnB, worker}
OneWriter == {turnA}
SecondRow == {2}

=============================================================================
