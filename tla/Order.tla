------------------------------- MODULE Order -------------------------------
(***************************************************************************)
(* One order of the shared order table: class Order of libs/ordersync.     *)
(*                                                                         *)
(* Every node keeps its own copy of every order and merges the copies it   *)
(* receives into it (OnUpdate); there is no master copy.  An order is a    *)
(* record of the fields of the class.  The 32-bit observation mask is the  *)
(* set of the elevators whose bit is set, and the version is a natural     *)
(* number: at one update per 40 ms step 64 bits are not exhausted.         *)
(***************************************************************************)
EXTENDS Integers

kElevs == 4
ElevId == 0 .. kElevs - 1
NoElev == -1

(* OrderStatus.  OnUpdate compares the enumerators as integers. *)
None      == 0
Requested == 1
Confirmed == 2
Clear     == 3
OrderStatus == {None, Requested, Confirmed, Clear}

OrderRec == [status   : OrderStatus,
             version  : Nat,
             assigned : ElevId \cup {NoElev},
             mask     : SUBSET ElevId]

DefaultOrder == [status |-> None, version |-> 0, assigned |-> NoElev, mask |-> {}]

-----------------------------------------------------------------------------
(* The state machine of one copy. *)

ObservedBy(o, e) == e \in o.mask

ObserveNextBit(o, e) ==           \* mutant: 1 << (e + 1)
    [o EXCEPT !.mask = @ \cup {e + 1}]

Observe(o, e) == [o EXCEPT !.mask = @ \cup {e}]

OnRequest(o, e) ==
    IF o.status \in {None, Clear}
    THEN Observe([o EXCEPT !.status = Requested, !.version = @ + 1, !.mask = {}], e)
    ELSE o

OnConfirmUnassigned(o, e) ==      \* mutant: the assignee is not stored
    IF o.status = Requested
    THEN [o EXCEPT !.status = Confirmed, !.version = @ + 1]
    ELSE o

OnConfirm(o, e) ==
    IF o.status = Requested
    THEN [o EXCEPT !.status = Confirmed, !.assigned = e, !.version = @ + 1]
    ELSE o

OnClear(o) ==
    IF o.status = Confirmed
    THEN [o EXCEPT !.status = Clear, !.version = @ + 1]
    ELSE o

OnReset(o) ==
    IF o.status = Clear
    THEN [o EXCEPT !.status = None, !.version = @ + 1]
    ELSE o

OnReassignment(o, e) == [o EXCEPT !.assigned = e, !.version = @ + 1]

-----------------------------------------------------------------------------
(* The merge of a received copy r into a local copy o. *)

Adopt(o, r) ==                    \* the status of r wins at an equal version
    [o EXCEPT !.status = r.status, !.assigned = r.assigned, !.mask = @ \cup r.mask]

NobodyWins(o, r) == FALSE         \* mutant: no tie-break

LowerIdWins(o, r) ==              \* both sides confirmed the order concurrently
    /\ o.status = Confirmed
    /\ r.status = Confirmed
    /\ r.assigned < o.assigned

OnUpdateIgnoresAge(o, r) ==       \* mutant: a received copy replaces any other
    IF r.version # o.version THEN r
    ELSE [o EXCEPT !.mask = @ \cup r.mask]

OnUpdateByStatus(o, r) ==         \* mutant: the status decides before the version
    IF r.status > o.status \/ LowerIdWins(o, r) THEN r
    ELSE [o EXCEPT !.mask = @ \cup r.mask]

OnUpdate(o, r) ==
    CASE r.version > o.version -> r
      [] r.version < o.version -> o
      [] OTHER -> IF r.status > o.status \/ LowerIdWins(o, r)
                  THEN Adopt(o, r)
                  ELSE [o EXCEPT !.mask = @ \cup r.mask]

-----------------------------------------------------------------------------
(* The order in which copies grow: a later version, or at the same version *)
(* a later status, at the same status Confirmed a lower assignee, and      *)
(* never fewer observations.                                               *)

Leq(a, b) ==
    \/ a.version < b.version
    \/ /\ a.version = b.version
       /\ a.mask \subseteq b.mask
       /\ \/ a.status < b.status
          \/ /\ a.status = b.status
             /\ a.status = Confirmed => b.assigned <= a.assigned

(* As far as version and status go. *)
NotBehind(a, b) ==
    \/ a.version > b.version
    \/ a.version = b.version /\ a.status >= b.status

(* What every node must agree on about an order. *)
SameOrder(a, b) ==
    /\ a.version = b.version
    /\ a.status = b.status
    /\ a.status = Confirmed => a.assigned = b.assigned
=============================================================================
