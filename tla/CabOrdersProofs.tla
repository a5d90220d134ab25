--------------------------- MODULE CabOrdersProofs ---------------------------
(***************************************************************************)
(* Theorems about CabOrders and their proofs.                              *)
(***************************************************************************)
EXTENDS CabOrders, OrderProofs

(* A copy that is not ahead of an order is merged without a trace. *)
LEMMA StaleCopyIgnored ==
    ASSUME NEW o \in OrderRec, NEW r \in OrderRec, Leq(r, o)
    PROVE  OnUpdate(o, r) = o
<1> USE DEF OrderRec, OrderStatus, None, Requested, Confirmed, Clear, ElevId, NoElev, kElevs
<1>1. CASE r.version < o.version
    BY <1>1 DEF OnUpdate
<1>2. CASE r.version = o.version
    <2>1. ~(r.status > o.status)
        BY <1>2 DEF Leq
    <2>2. ~LowerIdWins(o, r)
        BY <1>2 DEF Leq, LowerIdWins
    <2>3. r.mask \subseteq o.mask
        BY <1>2 DEF Leq
    <2>4. o.mask \cup r.mask = o.mask
        BY <2>3
    <2> QED BY <1>2, <2>1, <2>2, <2>4 DEF OnUpdate
<1> QED BY <1>1, <1>2 DEF Leq

LEMMA OwnerIsElevator == Owner \in Nodes /\ Owner \in ElevId
BY CabNodesAssumption

(* The owner's own operations. *)
LEMMA PressedCabFacts ==
    ASSUME NEW o \in OrderRec
    PROVE  PressedCab(o) \in OrderRec /\ Leq(o, PressedCab(o))
<1> DEFINE q == OnRequest(o, Owner)
<1>1. q \in OrderRec /\ Leq(o, q)
    BY OwnerIsElevator, OnRequestType, OperationsGrow
<1>2. OnConfirm(q, Owner) \in OrderRec /\ Leq(q, OnConfirm(q, Owner))
    <2> HIDE DEF q
    <2> QED BY <1>1, OwnerIsElevator, OnConfirmType, OperationsGrow
<1>3. Leq(o, OnConfirm(q, Owner))
    <2> HIDE DEF q
    <2> QED BY <1>1, <1>2, LeqTransitive
<1> QED BY <1>2, <1>3 DEF PressedCab

LEMMA ServedCabFacts ==
    ASSUME NEW o \in OrderRec
    PROVE  ServedCab(o) \in OrderRec /\ Leq(o, ServedCab(o))
<1> DEFINE q == OnClear(o)
<1>1. q \in OrderRec /\ Leq(o, q)
    BY OnClearType, OperationsGrow
<1>2. OnReset(q) \in OrderRec /\ Leq(q, OnReset(q))
    <2> HIDE DEF q
    <2> QED BY <1>1, OnResetType, OperationsGrow
<1>3. Leq(o, OnReset(q))
    <2> HIDE DEF q
    <2> QED BY <1>1, <1>2, LeqTransitive
<1> QED BY <1>2, <1>3 DEF ServedCab

LEMMA DefaultOrderFacts ==
    /\ DefaultOrder \in OrderRec
    /\ \A o \in OrderRec : Leq(DefaultOrder, o)
BY DEF DefaultOrder, Leq, OrderRec, OrderStatus, None, Requested, Confirmed, Clear,
       ElevId, NoElev, kElevs

-----------------------------------------------------------------------------
(* Between the steps an order is confirmed or not there at all: pressing   *)
(* confirms at once, and serving clears and resets at once.                *)

Settled(o) == o.status \in {None, Confirmed}

LEMMA OwnOperationsSettle ==
    ASSUME NEW o \in OrderRec, Settled(o)
    PROVE  /\ Settled(PressedCab(o))
           /\ Settled(ServedCab(o))
           /\ o.status # Confirmed => ServedCab(o) = o
<1> USE DEF OrderRec, None, Requested, Confirmed, Clear
<1>1. Settled(PressedCab(o))
    BY DEF Settled, PressedCab, OnConfirm, OnRequest, Observe
<1>2. Settled(ServedCab(o))
    BY DEF Settled, ServedCab, OnClear, OnReset
<1>3. o.status # Confirmed => ServedCab(o) = o
    BY DEF Settled, ServedCab, OnClear, OnReset
<1> QED BY <1>1, <1>2, <1>3

LEMMA MergeSettles ==
    ASSUME NEW o \in OrderRec, NEW r \in OrderRec, Settled(o), Settled(r)
    PROVE  Settled(OnUpdate(o, r))
BY DEF Settled, OnUpdate, Adopt, OrderRec

-----------------------------------------------------------------------------
(* The inductive invariant: the two copies of the owner are the same, and  *)
(* in its first life no other copy is ahead of them.                       *)
AllSettled ==
    /\ Settled(cab)
    /\ \A n \in Nodes : Settled(backup[n])
    /\ \A p \in net : Settled(p.copy)

OwnerLeads ==
    /\ \A n \in Nodes : Leq(backup[n], cab)
    /\ \A p \in net : Leq(p.copy, cab)

IInv ==
    /\ TypeOK
    /\ budget.crash <= MaxCrash
    /\ backup[Owner] = cab
    /\ AllSettled
    /\ FirstLife => OwnerLeads

(* What a step may do to the cab order in the first life of the owner. *)
OwnDecision ==
    \/ cab' = cab
    \/ budget'.press < budget.press
    \/ cab.status = Confirmed /\ cab' = ServedCab(cab)

Preserves == IInv' /\ (FirstLife /\ FirstLife' => OwnDecision)

LEMMA InitOK == Init => IInv
<1> SUFFICES ASSUME Init PROVE IInv
    OBVIOUS
<1>1. TypeOK
    BY DefaultOrderFacts, CabBoundAssumption DEF Init, TypeOK, Phase
<1>2. budget.crash <= MaxCrash
    BY CabBoundAssumption DEF Init
<1>3. backup[Owner] = cab
    BY OwnerIsElevator DEF Init
<1>4. Settled(DefaultOrder)
    BY DEF Settled, DefaultOrder
<1>5. AllSettled
    BY <1>4 DEF Init, AllSettled
<1>6. OwnerLeads
    BY DefaultOrderFacts DEF Init, OwnerLeads
<1> QED BY <1>1, <1>2, <1>3, <1>5, <1>6 DEF IInv

(* A budget that is spent. *)
LEMMA SpendFacts ==
    ASSUME IInv, NEW what \in {"press", "crash", "peerCrash", "restart"}, Spend(what)
    PROVE  /\ budget' \in [press : Nat, crash : Nat, peerCrash : Nat, restart : Nat]
           /\ budget'.crash <= budget.crash
           /\ budget'[what] = budget[what] - 1
           /\ FirstLife' => FirstLife
           /\ what = "crash" => ~FirstLife'
<1> USE DEF IInv, TypeOK
<1>1. MaxCrash \in Nat
    BY CabBoundAssumption
<1>2. /\ budget' \in [press : Nat, crash : Nat, peerCrash : Nat, restart : Nat]
      /\ budget'.crash <= budget.crash
      /\ budget'[what] = budget[what] - 1
    BY DEF Spend
<1>3. (FirstLife' => FirstLife) /\ (what = "crash" => ~FirstLife')
    BY <1>1, <1>2 DEF FirstLife
<1> QED BY <1>2, <1>3

(* A step in which the owner changes both of its copies from o to q.       *)
LEMMA OwnerChanges ==
    ASSUME IInv, NEW q \in OrderRec, Settled(q), Leq(cab, q),
           cab' = q, backup' = [backup EXCEPT ![Owner] = q], net' = net
    PROVE  /\ cab' \in OrderRec /\ backup' \in [Nodes -> OrderRec]
           /\ backup'[Owner] = cab'
           /\ AllSettled'
           /\ OwnerLeads => OwnerLeads'
<1> USE OwnerIsElevator DEF IInv, TypeOK
<1>1. cab' \in OrderRec /\ backup' \in [Nodes -> OrderRec] /\ backup'[Owner] = cab'
    OBVIOUS
<1>2. AllSettled'
    BY DEF AllSettled
<1>3. ASSUME OwnerLeads PROVE OwnerLeads'
    <2>1. ASSUME NEW n \in Nodes PROVE Leq(backup'[n], cab')
        <3>1. CASE n = Owner
            BY <3>1, LeqReflexive
        <3>2. CASE n # Owner
            BY <3>2, <1>3, LeqTransitive DEF OwnerLeads
        <3> QED BY <3>1, <3>2
    <2>2. ASSUME NEW p \in net PROVE Leq(p.copy, cab')
        BY <1>3, LeqTransitive DEF OwnerLeads, Packet
    <2> QED BY <2>1, <2>2 DEF OwnerLeads
<1> QED BY <1>1, <1>2, <1>3

-----------------------------------------------------------------------------
(* One lemma per action. *)

LEMMA PressPreserves == ASSUME IInv, Press PROVE Preserves
<1> USE DEF Press
<1>1. cab \in OrderRec /\ Settled(cab) /\ backup[Owner] = cab
    BY DEF IInv, TypeOK, AllSettled
<1>2. PressedCab(cab) \in OrderRec /\ Leq(cab, PressedCab(cab)) /\ Settled(PressedCab(cab))
    BY <1>1, PressedCabFacts, OwnOperationsSettle
<1>3. backup' = [backup EXCEPT ![Owner] = PressedCab(cab)]
    BY <1>1
<1>4. /\ cab' \in OrderRec /\ backup' \in [Nodes -> OrderRec]
      /\ backup'[Owner] = cab' /\ AllSettled' /\ (OwnerLeads => OwnerLeads')
    BY <1>2, <1>3, OwnerChanges
<1>5. /\ budget' \in [press : Nat, crash : Nat, peerCrash : Nat, restart : Nat]
      /\ budget'.crash <= budget.crash /\ budget'.press = budget.press - 1
      /\ FirstLife' => FirstLife
    BY SpendFacts
<1>6. TypeOK'
    BY <1>4, <1>5, OwnerIsElevator DEF IInv, TypeOK, Phase
<1>7. budget'.crash <= MaxCrash
    BY <1>5, CabBoundAssumption DEF IInv, TypeOK
<1>8. budget'.press < budget.press
    BY <1>5 DEF IInv, TypeOK
<1> QED BY <1>4, <1>5, <1>6, <1>7, <1>8 DEF IInv, Preserves, OwnDecision

LEMMA ServePreserves == ASSUME IInv, Serve PROVE Preserves
<1> USE DEF Serve
<1>1. cab \in OrderRec /\ Settled(cab) /\ backup[Owner] = cab
    BY DEF IInv, TypeOK, AllSettled
<1>2. ServedCab(cab) \in OrderRec /\ Leq(cab, ServedCab(cab)) /\ Settled(ServedCab(cab))
    BY <1>1, ServedCabFacts, OwnOperationsSettle
<1>3. backup' = [backup EXCEPT ![Owner] = ServedCab(cab)]
    BY <1>1
<1>4. /\ cab' \in OrderRec /\ backup' \in [Nodes -> OrderRec]
      /\ backup'[Owner] = cab' /\ AllSettled' /\ (OwnerLeads => OwnerLeads')
    BY <1>2, <1>3, OwnerChanges
<1>5. OwnDecision
    BY <1>1, OwnOperationsSettle DEF OwnDecision
<1>6. TypeOK'
    BY <1>4 DEF IInv, TypeOK
<1> QED BY <1>4, <1>5, <1>6 DEF IInv, Preserves, FirstLife

LEMMA FirstStepPreserves ==
    ASSUME IInv, NEW n \in Nodes, FirstStep(n)
    PROVE  Preserves
<1> USE DEF FirstStep
<1>1. TypeOK'
    BY DEF IInv, TypeOK, Phase
<1>2. AllSettled' /\ (OwnerLeads => OwnerLeads')
    BY DEF IInv, AllSettled, OwnerLeads
<1> QED BY <1>1, <1>2 DEF IInv, Preserves, FirstLife, OwnDecision

LEMMA TxPreserves ==
    ASSUME IInv, NEW n \in Nodes, Tx(n)
    PROVE  Preserves
<1> USE OwnerIsElevator DEF Tx
<1>1. PICK kept \in SUBSET From(n) : net' = (net \ From(n)) \cup kept \cup {PacketOf(n)}
    OBVIOUS
<1>2. net' \subseteq net \cup {PacketOf(n)}
    BY <1>1 DEF From
<1>3. PacketOf(n) \in Packet /\ Settled(PacketOf(n).copy)
    BY DEF PacketOf, Packet, IInv, TypeOK, AllSettled
<1>4. TypeOK'
    BY <1>2, <1>3 DEF IInv, TypeOK
<1>5. AllSettled'
    BY <1>2, <1>3 DEF IInv, AllSettled
<1>6. ASSUME OwnerLeads PROVE OwnerLeads'
    <2>1. Leq(PacketOf(n).copy, cab)
        BY <1>6, LeqReflexive DEF PacketOf, OwnerLeads, IInv, TypeOK
    <2> QED BY <1>2, <1>6, <2>1 DEF OwnerLeads
<1> QED BY <1>4, <1>5, <1>6 DEF IInv, Preserves, FirstLife, OwnDecision

LEMMA RxPreserves ==
    ASSUME IInv, NEW n \in Nodes, NEW m \in Nodes, Rx(n, m)
    PROVE  Preserves
<1> USE OwnerIsElevator DEF Rx, Preserve
<1>1. PICK p \in From(m) : Preserve(n, p) /\ UNCHANGED <<phase, net, budget>>
    OBVIOUS
<1>2. /\ p \in net /\ p.copy \in OrderRec /\ Settled(p.copy)
      /\ cab \in OrderRec /\ Settled(cab) /\ backup[Owner] = cab
    BY <1>1 DEF From, IInv, TypeOK, AllSettled, Packet
<1>3. /\ OnUpdate(cab, p.copy) \in OrderRec /\ Settled(OnUpdate(cab, p.copy))
      /\ OnUpdate(backup[n], p.copy) \in OrderRec /\ Settled(OnUpdate(backup[n], p.copy))
    BY <1>2, OnUpdateType, MergeSettles DEF IInv, TypeOK, AllSettled
<1>4. TypeOK'
    BY <1>1, <1>3 DEF IInv, TypeOK
<1>5. backup'[Owner] = cab'
    BY <1>1, <1>2 DEF IInv, TypeOK
<1>6. AllSettled'
    BY <1>1, <1>3 DEF IInv, TypeOK, AllSettled
<1>7. ASSUME OwnerLeads PROVE OwnerLeads' /\ cab' = cab
    <2>1. Leq(p.copy, cab)
        BY <1>2, <1>7 DEF OwnerLeads
    <2>2. cab' = cab
        BY <1>1, <1>2, <2>1, StaleCopyIgnored
    <2>3. Leq(OnUpdate(backup[n], p.copy), cab)
        BY <1>2, <1>7, <2>1, MergeIsLeast DEF OwnerLeads, IInv, TypeOK
    <2>4. \A k \in Nodes : Leq(backup'[k], cab)
        BY <1>1, <1>7, <2>3 DEF OwnerLeads, IInv, TypeOK
    <2> QED BY <1>1, <1>7, <2>2, <2>4 DEF OwnerLeads
<1> QED BY <1>1, <1>4, <1>5, <1>6, <1>7 DEF IInv, Preserves, FirstLife, OwnDecision

LEMMA CrashPreserves ==
    ASSUME IInv, NEW n \in Nodes, Crash(n)
    PROVE  Preserves
<1> USE OwnerIsElevator DEF Crash
<1>1. Settled(DefaultOrder)
    BY DEF Settled, DefaultOrder
<1>2. /\ budget' \in [press : Nat, crash : Nat, peerCrash : Nat, restart : Nat]
      /\ budget'.crash <= budget.crash
      /\ FirstLife' => FirstLife
      /\ n = Owner => ~FirstLife'
    BY SpendFacts
<1>3. TypeOK'
    BY <1>2, DefaultOrderFacts DEF IInv, TypeOK, Phase
<1>4. budget'.crash <= MaxCrash
    BY <1>2, CabBoundAssumption DEF IInv, TypeOK
<1>5. backup'[Owner] = cab'
    BY DEF IInv, TypeOK
<1>6. AllSettled'
    BY <1>1 DEF IInv, TypeOK, AllSettled
<1>7. ASSUME FirstLife' PROVE OwnerLeads' /\ cab' = cab
    BY <1>2, <1>7, DefaultOrderFacts DEF IInv, TypeOK, OwnerLeads
<1> QED BY <1>3, <1>4, <1>5, <1>6, <1>7 DEF IInv, Preserves, OwnDecision

LEMMA LastPacketsGonePreserves ==
    ASSUME IInv, NEW n \in Nodes, LastPacketsGone(n)
    PROVE  Preserves
<1> USE DEF LastPacketsGone
<1>1. net' \subseteq net
    OBVIOUS
<1>2. TypeOK' /\ AllSettled' /\ (OwnerLeads => OwnerLeads')
    BY <1>1 DEF IInv, TypeOK, AllSettled, OwnerLeads
<1> QED BY <1>2 DEF IInv, Preserves, FirstLife, OwnDecision

LEMMA RestartPreserves ==
    ASSUME IInv, NEW n \in Nodes, Restart(n)
    PROVE  Preserves
<1> USE DEF Restart
<1>1. /\ budget' \in [press : Nat, crash : Nat, peerCrash : Nat, restart : Nat]
      /\ budget'.crash <= budget.crash
      /\ FirstLife' => FirstLife
    BY SpendFacts
<1>2. TypeOK'
    BY <1>1 DEF IInv, TypeOK, Phase
<1>3. budget'.crash <= MaxCrash
    BY <1>1, CabBoundAssumption DEF IInv, TypeOK
<1>4. AllSettled' /\ (OwnerLeads => OwnerLeads')
    BY DEF IInv, AllSettled, OwnerLeads
<1> QED BY <1>1, <1>2, <1>3, <1>4 DEF IInv, Preserves, OwnDecision

LEMMA NextPreserves == IInv /\ [Next]_vars => Preserves
<1> SUFFICES ASSUME IInv, [Next]_vars PROVE Preserves
    OBVIOUS
<1>1. CASE Press
    BY <1>1, PressPreserves
<1>2. CASE Serve
    BY <1>2, ServePreserves
<1>3. ASSUME NEW n \in Nodes, FirstStep(n) PROVE Preserves
    BY <1>3, FirstStepPreserves
<1>4. ASSUME NEW n \in Nodes, Tx(n) PROVE Preserves
    BY <1>4, TxPreserves
<1>5. ASSUME NEW n \in Nodes, NEW m \in Nodes, Rx(n, m) PROVE Preserves
    BY <1>5, RxPreserves
<1>6. ASSUME NEW n \in Nodes, Crash(n) PROVE Preserves
    BY <1>6, CrashPreserves
<1>7. ASSUME NEW n \in Nodes, LastPacketsGone(n) PROVE Preserves
    BY <1>7, LastPacketsGonePreserves
<1>8. ASSUME NEW n \in Nodes, Restart(n) PROVE Preserves
    BY <1>8, RestartPreserves
<1>9. CASE UNCHANGED vars
    <2>1. IInv'
        BY <1>9 DEF vars, IInv, TypeOK, AllSettled, OwnerLeads, FirstLife
    <2> QED BY <1>9, <2>1 DEF vars, Preserves, OwnDecision
<1> QED BY <1>1, <1>2, <1>3, <1>4, <1>5, <1>6, <1>7, <1>8, <1>9 DEF Next

LEMMA Invariance == Spec => []IInv
<1>1. IInv /\ [Next]_vars => IInv'
    BY NextPreserves DEF Preserves
<1> QED BY InitOK, <1>1, PTL DEF Spec

-----------------------------------------------------------------------------
(* Every variable keeps its type, for every group and owner. *)
THEOREM TypeCorrect == Spec => []TypeOK
<1>1. IInv => TypeOK
    BY DEF IInv
<1> QED BY Invariance, <1>1, PTL

(* Until the owner crashes, its cab order is changed by its own button and *)
(* its own door only, whatever packets it merges (RxPacketProcessing).     *)
THEOREM OwnerAloneDecides == Spec => OwnerDecides
<1>1. IInv /\ [Next]_vars => [FirstLife /\ FirstLife' => OwnDecision]_vars
    BY NextPreserves DEF Preserves
<1> QED BY Invariance, <1>1, PTL DEF Spec, OwnerDecides, OwnDecision
=============================================================================
