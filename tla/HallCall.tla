------------------------------ MODULE HallCall ------------------------------
(***************************************************************************)
(* What the group of elevators promises about its hall buttons, without    *)
(* nodes, copies or packets: one state per button, as the people on the    *)
(* floor see it.  A call is taken note of, then accepted (from then on an  *)
(* elevator is bound to come), then answered.  An accepted call is not     *)
(* forgotten, a call is not answered that was not accepted, and an         *)
(* answered call does not come back.  The buttons do not depend on each    *)
(* other, and one step may move several calls on.                          *)
(***************************************************************************)
CONSTANT Hall

VARIABLE call       \* call[h]: the state of the call of button h

CallState == {"idle", "called", "accepted"}

Change(h, from, to) ==
    /\ call[h] = from
    /\ call'[h] = to

Press(h)  == Change(h, "idle", "called")
Accept(h) == Change(h, "called", "accepted")
Answer(h) == Change(h, "accepted", "idle")

Init == call = [h \in Hall |-> "idle"]

Next ==
    /\ call' \in [Hall -> CallState]
    /\ \A h \in Hall : call'[h] = call[h] \/ Press(h) \/ Accept(h) \/ Answer(h)

Spec == Init /\ [][Next]_call
=============================================================================
