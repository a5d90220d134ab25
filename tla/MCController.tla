---------------------------- MODULE MCController ----------------------------
(* A building of three floors with all its buttons. *)
EXTENDS Controller
ThreeFloors == {<<f, b>> \in (0 .. 2) \X BtnType :
                    ~ (f = 0 /\ b = "HallDown") /\ ~ (f = 2 /\ b = "HallUp")}
=============================================================================
