------------------------ MODULE MCSessionMaintenance ------------------------
(***************************************************************************)
(* Instances of SessionMaintenance for TLC.                                *)
(***************************************************************************)
EXTENDS SessionMaintenance

CONSTANT caller

NoCallers == {}
OneCaller == {caller}

=============================================================================
