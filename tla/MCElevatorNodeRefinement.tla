---------------------- MODULE MCElevatorNodeRefinement ----------------------
(* Two elevators that work, two floors, one of the hall buttons. *)
EXTENDS ElevatorNodeRefinement
TwoNodes    == {0, 3}
DownFromOne == {<<1, "HallDown">>}
JustOk      == {"ok"}
=============================================================================
