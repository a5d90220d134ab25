----------------------- MODULE ElevatorNodeRefinement -----------------------
(***************************************************************************)
(* The same mapping to calls for the whole: nodes with their cabins, in a  *)
(* group in which nothing fails.  Here a call is not answered at any time  *)
(* that suits the elevators, but when the controller says so.              *)
(***************************************************************************)
EXTENDS ElevatorNode, HallCallRefinement

(* All nodes know each other, and every cabin stands at some floor.        *)
QuietNodeInit ==
    /\ QuietInit
    /\ cars \in [Nodes -> {CabinAt(f, FALSE) : f \in Floor}]

QuietNodeSpec == QuietNodeInit /\ [][NodeNext]_nodeVars

(* Nor does a motor fail. *)
NothingFails == InTime /\ MaxChange = 0

(* An accepted call is not over before an elevator stands at its floor     *)
(* with the door open: not because a node serves the order of a floor that *)
(* its cabin passes, has left or has not reached, and not because a merge, *)
(* a reset or a stale packet takes the call away from all nodes.           *)
CallEndsAtDoor ==
    [][\A h \in Hall :
            CallOf(h) = "accepted" /\ CallOf(h)' = "idle" =>
                \E n \in Nodes : cars'[n].elev.door /\ cars[n].position = 2 * h[1]]_nodeVars
=============================================================================
