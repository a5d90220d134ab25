------------------------- MODULE CostFunctionProofs -------------------------
(***************************************************************************)
(* HallOrders abstracts the cost function to any ranking of the elevators  *)
(* that puts the obstructed ones after the good ones and the stopped and   *)
(* faulty ones last.  That is right because what an elevator is doing      *)
(* never costs as much as what can be wrong with it, up to five floors.    *)
(***************************************************************************)
EXTENDS CostFunction, FiniteSetTheorems, TLAPS

(* Ranks by penalty first, then by cost, then by number. *)
Less(st, f, a, b) ==
    LET pa == Penalty(Reported(st[a]))
        pb == Penalty(Reported(st[b]))
        ca == Cost(st[a], f)
        cb == Cost(st[b], f)
    IN  \/ pa < pb
        \/ pa = pb /\ (ca < cb \/ (ca = cb /\ a < b))

Below(st, f, b) == {a \in Nodes : Less(st, f, a, b)}

Rank(st, f) == [b \in Nodes |-> Cardinality(Below(st, f, b))]

-----------------------------------------------------------------------------
(* The numbers. *)

LEMMA RequestCount ==
    ASSUME kFloors \in 1 .. 5, NEW R \in SUBSET (Floor \X BtnType)
    PROVE  Cardinality(R) \in Nat /\ Cardinality(R) <= 3 * kFloors
<1>1. IsFiniteSet(Floor) /\ Cardinality(Floor) = kFloors
    BY FS_Interval, 0 \in Int, kFloors - 1 \in Int DEF Floor
<1>2. IsFiniteSet(BtnType) /\ Cardinality(BtnType) = 3
    <2>1. IsFiniteSet({}) /\ Cardinality({}) = 0
        BY FS_EmptySet
    <2>2. IsFiniteSet({"HallUp"}) /\ Cardinality({"HallUp"}) = 1
        BY FS_Singleton
    <2>3. /\ IsFiniteSet({"HallUp"} \cup {"HallDown"})
          /\ Cardinality({"HallUp"} \cup {"HallDown"}) = 2
        BY <2>2, FS_AddElement
    <2>4. /\ IsFiniteSet(({"HallUp"} \cup {"HallDown"}) \cup {"Cab"})
          /\ Cardinality(({"HallUp"} \cup {"HallDown"}) \cup {"Cab"}) = 3
        BY <2>3, FS_AddElement
    <2>5. BtnType = ({"HallUp"} \cup {"HallDown"}) \cup {"Cab"}
        BY DEF BtnType
    <2> QED BY <2>4, <2>5
<1>3. /\ IsFiniteSet(Floor \X BtnType)
      /\ Cardinality(Floor \X BtnType) = kFloors * 3
    BY <1>1, <1>2, FS_Product
<1>4. /\ Cardinality(R) \in Nat
      /\ Cardinality(R) <= kFloors * 3
    BY <1>3, FS_Subset, FS_CardinalityType
<1> QED BY <1>4

(* 3 * 4 + 5 * 15 + 2 + 10 = 99 at most. *)
LEMMA EffortBelowPenalty ==
    ASSUME kFloors \in 1 .. 5, NEW s \in PeerState, NEW f \in Floor
    PROVE  Effort(s, f) \in 0 .. kPenaltyObstruction - 1
<1>1. s.elev.floor \in 0 .. kFloors - 1 /\ f \in 0 .. kFloors - 1
    BY DEF PeerState, Elevator, Floor
<1>2. Distance(s.elev.floor, f) \in 0 .. kFloors - 1
    BY <1>1 DEF Distance
<1>3. Cardinality(s.requests) \in Nat /\ Cardinality(s.requests) <= 3 * kFloors
    BY RequestCount DEF PeerState
<1>4. Fee(s.elev.door, kPenaltyDoorOpen) \in 0 .. 2
    BY DEF Fee, kPenaltyDoorOpen
<1>5. Fee(WrongDir(s.elev, f), kPenaltyWrongDir) \in 0 .. 10
    BY DEF Fee, kPenaltyWrongDir
<1> DEFINE d == Distance(s.elev.floor, f)
           c == Cardinality(s.requests)
           o == Fee(s.elev.door, kPenaltyDoorOpen)
           w == Fee(WrongDir(s.elev, f), kPenaltyWrongDir)
<1>6. Effort(s, f) = 3 * d + 5 * c + o + w
    BY DEF Effort, kPenaltyFloorDiff, kPenaltyPerOrder
<1> HIDE DEF d, c, o, w
<1>7. d \in 0 .. 4 /\ c \in 0 .. 15 /\ o \in 0 .. 2 /\ w \in 0 .. 10
    BY <1>2, <1>3, <1>4, <1>5 DEF d, c, o, w
<1> QED BY <1>6, <1>7 DEF kPenaltyObstruction

(* What is wrong with an elevator decides before what it is doing. *)
LEMMA PenaltyDecides ==
    ASSUME kFloors \in 1 .. 5, NEW s \in PeerState, NEW t \in PeerState, NEW f \in Floor
    PROVE  /\ Cost(s, f) \in Nat
           /\ Penalty(Reported(s)) \in 0 .. 2
           /\ Penalty(Reported(s)) < Penalty(Reported(t)) => Cost(s, f) < Cost(t, f)
<1>1. ASSUME NEW u \in PeerState
      PROVE  /\ Trouble(u) \in Nat
             /\ Penalty(Reported(u)) \in 0 .. 2
             /\ Penalty(Reported(u)) = 0 => Trouble(u) = 0
             /\ Penalty(Reported(u)) = 1 => Trouble(u) = kPenaltyObstruction
             /\ Penalty(Reported(u)) = 2 => Trouble(u) >= kPenaltyFault
    <2> DEFINE e == u.elev
    <2>1. e.fault \in BOOLEAN /\ e.stopped \in BOOLEAN /\ e.obstructed \in BOOLEAN
        BY DEF PeerState, Elevator
    <2> HIDE DEF e
    <2>2. Trouble(u) = Fee(e.obstructed, 100) + Fee(e.fault, 1000) + Fee(e.stopped, 1000)
        BY DEF e, Trouble, kPenaltyObstruction, kPenaltyFault, kPenaltyStopped
    <2>3. Penalty(Reported(u)) = IF e.fault \/ e.stopped THEN 2
                                 ELSE IF e.obstructed THEN 1 ELSE 0
        BY <2>1 DEF e, Penalty, Reported
    <2> QED BY <2>1, <2>2, <2>3 DEF Fee, kPenaltyObstruction, kPenaltyFault
<1>2. Effort(s, f) \in 0 .. 99 /\ Effort(t, f) \in 0 .. 99
    BY EffortBelowPenalty DEF kPenaltyObstruction
<1>3. Trouble(s) \in Nat /\ Trouble(t) \in Nat
    BY <1>1
<1>4. Penalty(Reported(s)) < Penalty(Reported(t)) => Trouble(s) + 100 <= Trouble(t)
    BY <1>1 DEF kPenaltyObstruction, kPenaltyFault
<1> QED BY <1>1, <1>2, <1>3, <1>4 DEF Cost

-----------------------------------------------------------------------------
(* The ranks. *)

LEMMA NodesAreFinite == IsFiniteSet(Nodes) /\ Nodes \subseteq Nat
<1>1. IsFiniteSet(0 .. 3)
    BY FS_Interval, 0 \in Int, 3 \in Int
<1>2. Nodes \in SUBSET (0 .. 3)
    BY NodesAssumption DEF ElevId, kElevs
<1>3. IsFiniteSet(Nodes)
    BY <1>1, <1>2, FS_Subset
<1>4. Nodes \subseteq Nat
    BY <1>2
<1> QED BY <1>3, <1>4

LEMMA LessIsAnOrder ==
    ASSUME kFloors \in 1 .. 5, NEW st \in [Nodes -> PeerState], NEW f \in Floor,
           NEW a \in Nodes, NEW b \in Nodes, NEW c \in Nodes
    PROVE  /\ ~Less(st, f, a, a)
           /\ Less(st, f, a, b) /\ Less(st, f, b, c) => Less(st, f, a, c)
           /\ a # b => Less(st, f, a, b) \/ Less(st, f, b, a)
<1>1. \A n \in Nodes : n \in Nat /\ Cost(st[n], f) \in Nat /\ Penalty(Reported(st[n])) \in 0 .. 2
    BY PenaltyDecides, NodesAreFinite
<1> QED BY <1>1 DEF Less

LEMMA BelowIsFinite ==
    ASSUME NEW st, NEW f, NEW b \in Nodes
    PROVE  IsFiniteSet(Below(st, f, b)) /\ Cardinality(Below(st, f, b)) \in Nat
<1>1. Below(st, f, b) \in SUBSET Nodes
    BY DEF Below
<1> QED BY <1>1, NodesAreFinite, FS_Subset, FS_CardinalityType

LEMMA LessRanksLower ==
    ASSUME kFloors \in 1 .. 5, NEW st \in [Nodes -> PeerState], NEW f \in Floor,
           NEW a \in Nodes, NEW b \in Nodes, Less(st, f, a, b)
    PROVE  Rank(st, f)[a] < Rank(st, f)[b]
<1>1. Below(st, f, a) \in SUBSET Below(st, f, b)
    BY LessIsAnOrder DEF Below
<1>2. a \in Below(st, f, b) /\ a \notin Below(st, f, a)
    BY LessIsAnOrder DEF Below
<1>3. /\ Cardinality(Below(st, f, a)) <= Cardinality(Below(st, f, b))
      /\ Cardinality(Below(st, f, a)) # Cardinality(Below(st, f, b))
    BY <1>1, <1>2, BelowIsFinite, FS_Subset
<1> QED BY <1>3, BelowIsFinite DEF Rank

LEMMA RankIsAllowed ==
    ASSUME kFloors \in 1 .. 5, NEW st \in [Nodes -> PeerState], NEW f \in Floor
    PROVE  Rank(st, f) \in Costs([e \in Nodes |-> Reported(st[e])])
<1> DEFINE rank == Rank(st, f)
           N    == Cardinality(Nodes)
<1>1. ASSUME NEW b \in Nodes PROVE rank[b] \in 0 .. N - 1
    <2>1. b \notin Below(st, f, b)
        BY LessIsAnOrder DEF Below
    <2>2. Below(st, f, b) \in SUBSET (Nodes \ {b})
        BY <2>1 DEF Below
    <2>3. IsFiniteSet(Nodes \ {b}) /\ Cardinality(Nodes \ {b}) = N - 1 /\ N \in Nat
        BY NodesAreFinite, FS_RemoveElement, FS_CardinalityType
    <2>4. Cardinality(Below(st, f, b)) <= N - 1 /\ Cardinality(Below(st, f, b)) \in Nat
        BY <2>2, <2>3, FS_Subset, BelowIsFinite
    <2> QED BY <2>3, <2>4 DEF Rank
<1>2. rank \in [Nodes -> 0 .. N - 1]
    BY <1>1 DEF Rank
<1>3. ASSUME NEW a \in Nodes, NEW b \in Nodes, rank[a] = rank[b] PROVE a = b
    <2>1. rank[a] \in Nat /\ rank[b] \in Nat
        BY BelowIsFinite DEF Rank
    <2>2. a # b => rank[a] < rank[b] \/ rank[b] < rank[a]
        BY LessIsAnOrder, LessRanksLower
    <2> HIDE DEF rank
    <2> QED BY <1>3, <2>1, <2>2
<1>4. ASSUME NEW a \in Nodes, NEW b \in Nodes, Penalty(Reported(st[a])) < Penalty(Reported(st[b]))
      PROVE  rank[a] < rank[b]
    BY <1>4, LessRanksLower DEF Less
<1> HIDE DEF rank
<1> QED BY <1>2, <1>3, <1>4 DEF Costs, Ranking, rank

-----------------------------------------------------------------------------
LEMMA BeforeRanksLower ==
    ASSUME kFloors \in 1 .. 5, NEW st \in [Nodes -> PeerState], NEW f \in Floor,
           NEW a \in Nodes, NEW b \in Nodes, st[a].active, st[b].active, Before(st, f, a, b)
    PROVE  Rank(st, f)[a] < Rank(st, f)[b]
<1>1. /\ Cost(st[a], f) \in Nat /\ Cost(st[b], f) \in Nat
      /\ Penalty(Reported(st[a])) \in 0 .. 2 /\ Penalty(Reported(st[b])) \in 0 .. 2
      /\ Penalty(Reported(st[b])) < Penalty(Reported(st[a])) => Cost(st[b], f) < Cost(st[a], f)
    BY PenaltyDecides
<1>2. Cost(st[a], f) < Cost(st[b], f) \/ (Cost(st[a], f) = Cost(st[b], f) /\ a < b)
    BY DEF Before
<1>3. Less(st, f, a, b)
    BY <1>1, <1>2 DEF Less
<1> QED BY <1>3, LessRanksLower

(* Whatever the states of the elevators, there is a ranking that           *)
(* HallOrders allows and with which Cheapest finds, among any elevators    *)
(* that are active, the one that comes first in the array that             *)
(* CalculateElevatorCosts sorts.  It needs no more than five floors (the   *)
(* repository has four): with six, a busy elevator may cost more than an   *)
(* obstructed one.                                                         *)
THEOREM CostsAreRanked ==
    ASSUME kFloors \in 1 .. 5, NEW st \in [Nodes -> PeerState], NEW f \in Floor
    PROVE  \E cost \in Costs([e \in Nodes |-> Reported(st[e])]) :
              \A S \in (SUBSET ActiveIn([e \in Nodes |-> Reported(st[e])])) \ {{}} :
                  Cheapest(S, cost) = FirstOf(st, f, S)
<1> DEFINE rank == Rank(st, f)
<1>1. rank \in Costs([e \in Nodes |-> Reported(st[e])])
    BY RankIsAllowed
<1>2. ASSUME NEW S \in (SUBSET ActiveIn([e \in Nodes |-> Reported(st[e])])) \ {{}}
      PROVE  Cheapest(S, rank) = FirstOf(st, f, S)
    <2>1. \A e \in S : e \in Nodes /\ e \in Nat /\ st[e].active /\ rank[e] \in Nat
        BY NodesAreFinite, BelowIsFinite DEF ActiveIn, Reported, Rank
    <2>2. \A d, e \in S : Before(st, f, d, e) => rank[d] < rank[e]
        BY <2>1, BeforeRanksLower
    <2>3. \A d, e \in S : d # e => Before(st, f, d, e) \/ Before(st, f, e, d)
        <3>1. \A e \in S : Cost(st[e], f) \in Nat
            BY <2>1, PenaltyDecides
        <3> QED BY <2>1, <3>1 DEF Before
    <2> HIDE DEF rank
    <2>4. \A d, e \in S : rank[d] < rank[e] => Before(st, f, d, e)
        BY <2>1, <2>2, <2>3
    <2>5. \A e \in S : (\A d \in S : rank[e] <= rank[d])
                            <=> (\A d \in S \ {e} : Before(st, f, e, d))
        BY <2>1, <2>2, <2>3
    <2>6. (CHOOSE e \in S : \A d \in S : rank[e] <= rank[d])
            = (CHOOSE e \in S : \A d \in S \ {e} : Before(st, f, e, d))
        BY <2>5
    <2> QED BY <2>6 DEF Cheapest, FirstOf
<1> QED BY <1>1, <1>2
=============================================================================
