-------------------------- MODULE MembershipProofs --------------------------
(***************************************************************************)
(* What the observer believes of the peer is right when it matters, for    *)
(* all times that satisfy TimeAssumption, and any number of crashes, lost, *)
(* repeated and overtaken packets.                                         *)
(***************************************************************************)
EXTENDS Membership, FunctionTheorems, FiniteSetTheorems, TLAPS

(* The watchdog guards exactly an active peer, and of an inactive one      *)
(* nothing is remembered.                                                  *)
ViewInv ==
    /\ view.active <=> watchdog # Off
    /\ ~view.active => view.version = 0

(* How long the process has been there, while it sleeps in Init.  What its *)
(* former life sent is at least as old.                                    *)
Asleep == kStartupTime - wait

StartInv ==
    phase = "starting" =>
        /\ \A p \in net : p.age >= Asleep
        /\ watchdog > 0 => Asleep + watchdog <= Delay + kWatchdogTime
        /\ watchdog = 0 => Asleep <= Delay + kWatchdogTime + lag

RunInv ==
    phase = "running" =>
        /\ view.version <= version
        /\ \A p \in net : p.version <= version

IInv == TypeOK /\ IsFiniteSet(net) /\ ViewInv /\ StartInv /\ RunInv

-----------------------------------------------------------------------------
LEMMA TimesAreNat == /\ kWatchdogTime \in Nat \ {0} /\ SampleTime \in Nat \ {0}
                     /\ TxTime \in Nat \ {0} /\ Delay \in Nat
                     /\ MaxVersion \in Nat /\ MaxLoss \in Nat /\ MaxCrash \in Nat
                     /\ kStartupTime = 2 * kWatchdogTime /\ kStartupTime \in Nat
                     /\ Delay + SampleTime < kWatchdogTime
BY TimeAssumption, MembershipBounds DEF kStartupTime

LEMMA ReachIsNat == Reach \in Nat
<1>1. (MaxLoss + 1) * TxTime \in Nat
    BY TimesAreNat
<1> QED BY <1>1, TimesAreNat DEF Reach

(* When the sleep is over, the former life is forgotten.                   *)
LEMMA AwakeMeansForgotten ==
    ASSUME IInv PROVE ForgottenBeforeReturn
<1> SUFFICES ASSUME phase = "starting", wait = 0
             PROVE  net = {} /\ watchdog = Off /\ view = NoView
    BY DEF ForgottenBeforeReturn
<1>1. Asleep = 2 * kWatchdogTime
    BY TimesAreNat DEF Asleep
<1>2. net = {}
    <2> SUFFICES ASSUME NEW p \in net PROVE FALSE
        OBVIOUS
    <2>1. p.age \in 0 .. Delay /\ p.age >= 2 * kWatchdogTime
        BY <1>1 DEF IInv, TypeOK, Packet, StartInv
    <2> QED BY <2>1, TimesAreNat
<1>3. watchdog = Off
    <2>1. watchdog \in Off .. kWatchdogTime /\ lag \in 0 .. SampleTime
        BY DEF IInv, TypeOK
    <2>2. /\ watchdog > 0 => Asleep + watchdog <= Delay + kWatchdogTime
          /\ watchdog = 0 => Asleep <= Delay + kWatchdogTime + lag
        BY DEF IInv, StartInv
    <2> QED BY <1>1, <2>1, <2>2, TimesAreNat DEF Off
<1>4. view = NoView
    <2>1. view \in View /\ ~view.active /\ view.version = 0
        BY <1>3 DEF IInv, TypeOK, ViewInv
    <2> QED BY <2>1 DEF View, NoView
<1> QED BY <1>2, <1>3, <1>4

-----------------------------------------------------------------------------
LEMMA InitOK == Init => IInv
<1> SUFFICES ASSUME Init PROVE IInv
    OBVIOUS
<1>1. TypeOK
    BY TimesAreNat, ReachIsNat DEF Init, TypeOK, StartupTime, NoView, View, Off
<1>2. IsFiniteSet(net)
    BY FS_EmptySet DEF Init
<1>3. ViewInv /\ RunInv
    BY DEF Init, ViewInv, RunInv, NoView, Off
<1>4. StartInv
    BY DEF Init, StartInv, Off
<1> QED BY <1>1, <1>2, <1>3, <1>4 DEF IInv

LEMMA NewRowType ==
    ASSUME IInv PROVE NewRow \in [loss : Nat, crash : Nat] /\ NewRow.loss = MaxLoss
BY TimesAreNat DEF IInv, TypeOK, NewRow

(* Packets that arrive or get older stay finitely many.                    *)
LEMMA ImageIsFinite ==
    ASSUME NEW S, IsFiniteSet(S), NEW T, NEW f \in [S -> T], \A t \in T : \E p \in S : f[p] = t
    PROVE  IsFiniteSet(T)
<1>1. f \in Surjection(S, T)
    BY Fun_IsSurj
<1> QED BY <1>1, FS_Surjection

LEMMA StartPreserves == ASSUME IInv, Start PROVE IInv'
<1>1. net = {} /\ watchdog = Off /\ view = NoView
    BY AwakeMeansForgotten DEF ForgottenBeforeReturn, Start
<1>2. TypeOK'
    <2>1. budget' \in [loss : Nat, crash : Nat]
        BY NewRowType DEF Start
    <2> QED BY <2>1, TimesAreNat, ReachIsNat DEF IInv, TypeOK, Start, observer
<1>3. ViewInv' /\ StartInv' /\ IsFiniteSet(net)'
    BY DEF IInv, Start, observer, ViewInv, StartInv
<1>4. RunInv'
    BY <1>1 DEF IInv, TypeOK, Start, observer, RunInv, NoView
<1> QED BY <1>2, <1>3, <1>4 DEF IInv

LEMMA PeerStepPreserves == ASSUME IInv, PeerStep PROVE IInv'
<1>1. PICK v \in {version + 1, version + 2} :
        /\ phase = "running" /\ version' = v
        /\ UNCHANGED <<phase, wait, quiet, uptime, observer, net, budget>>
    BY DEF PeerStep
<1>2. version \in Nat \ {0} /\ v \in Nat \ {0} /\ version <= v
    BY <1>1 DEF IInv, TypeOK
<1>3. TypeOK'
    BY <1>1, <1>2 DEF IInv, TypeOK, observer
<1>4. ViewInv' /\ StartInv' /\ IsFiniteSet(net)'
    BY <1>1 DEF IInv, observer, ViewInv, StartInv
<1>5. RunInv'
    <2>1. view.version \in Nat /\ \A p \in net : p.version \in Nat
        BY DEF IInv, TypeOK, View, Packet
    <2> QED BY <1>1, <1>2, <2>1 DEF IInv, observer, RunInv
<1> QED BY <1>3, <1>4, <1>5 DEF IInv

LEMMA TxPreserves == ASSUME IInv, Tx PROVE IInv'
<1> DEFINE new == [version |-> version, age |-> 0, got |-> FALSE]
<1>1. /\ phase = "running" /\ quiet' = 0 /\ net' = net \cup {new}
      /\ UNCHANGED <<phase, wait, version, uptime, observer, budget>>
    BY DEF Tx
<1>2. new \in Packet
    BY TimesAreNat DEF IInv, TypeOK, Packet
<1>3. TypeOK'
    <2>1. net' \in SUBSET Packet
        BY <1>1, <1>2 DEF IInv, TypeOK
    <2>2. quiet' \in 0 .. TxTime
        BY <1>1, TimesAreNat
    <2> HIDE DEF new
    <2> QED BY <1>1, <2>1, <2>2 DEF IInv, TypeOK, observer
<1>4. IsFiniteSet(net)'
    BY <1>1, FS_AddElement DEF IInv
<1>5. ViewInv' /\ StartInv'
    BY <1>1 DEF IInv, observer, ViewInv, StartInv
<1>6. RunInv'
    BY <1>1 DEF IInv, TypeOK, observer, RunInv
<1> QED BY <1>3, <1>4, <1>5, <1>6 DEF IInv

LEMMA CrashPreserves == ASSUME IInv, Crash PROVE IInv'
<1>1. /\ budget.crash > 0 /\ budget' = [budget EXCEPT !.crash = @ - 1]
      /\ phase' = "down"
      /\ UNCHANGED <<wait, version, quiet, uptime, observer, net>>
    BY DEF Crash
<1>2. TypeOK'
    BY <1>1 DEF IInv, TypeOK, observer
<1>3. ViewInv' /\ StartInv' /\ RunInv' /\ IsFiniteSet(net)'
    BY <1>1 DEF IInv, observer, ViewInv, StartInv, RunInv
<1> QED BY <1>2, <1>3 DEF IInv

LEMMA RestartPreserves == ASSUME IInv, Restart PROVE IInv'
<1>1. /\ phase' = "starting" /\ wait' = kStartupTime /\ version' = 1
      /\ UNCHANGED <<quiet, uptime, observer, net, budget>>
    BY DEF Restart, StartupTime
<1>2. TypeOK'
    BY <1>1, TimesAreNat DEF IInv, TypeOK, observer
<1>3. ViewInv' /\ RunInv' /\ IsFiniteSet(net)'
    BY <1>1 DEF IInv, observer, ViewInv, RunInv
<1>4. StartInv'
    <2>1. Asleep' = 0
        BY <1>1, TimesAreNat DEF Asleep
    <2>2. /\ \A p \in net : p.age \in Nat
          /\ watchdog \in Off .. kWatchdogTime /\ lag \in Nat
        BY TimesAreNat DEF IInv, TypeOK, Packet
    <2> QED BY <1>1, <2>1, <2>2, TimesAreNat DEF StartInv, observer, Off
<1> QED BY <1>2, <1>3, <1>4 DEF IInv

LEMMA RxPreserves == ASSUME IInv, Rx PROVE IInv'
<1>1. PICK p \in net :
        /\ watchdog' = kWatchdogTime
        /\ view' = OnUpdate(p)
        /\ net' = {Arrived(q, p) : q \in net}
        /\ budget' = NewRow
        /\ UNCHANGED <<peer, lag>>
    BY DEF Rx, UpdateWatchdogTimer
<1>2. /\ p \in Packet
      /\ \A q \in net : /\ Arrived(q, p) \in Packet
                        /\ Arrived(q, p).age = q.age /\ Arrived(q, p).version = q.version
    BY DEF IInv, TypeOK, Packet, Arrived
<1>3. view \in View /\ view' \in View
    BY <1>1, <1>2 DEF IInv, TypeOK, OnUpdate, View, Packet
<1>4. TypeOK'
    <2>1. net' \in SUBSET Packet
        BY <1>1, <1>2 DEF IInv, TypeOK
    <2>2. watchdog' \in Off .. kWatchdogTime
        BY <1>1, TimesAreNat DEF Off
    <2>3. UNCHANGED <<phase, wait, version, quiet, uptime, lag>>
        BY <1>1 DEF peer
    <2>4. budget' \in [loss : Nat, crash : Nat]
        BY <1>1, NewRowType
    <2> QED BY <1>3, <2>1, <2>2, <2>3, <2>4 DEF IInv, TypeOK
<1>5. IsFiniteSet(net)'
    <2> DEFINE f == [q \in net |-> Arrived(q, p)]
    <2>1. f \in [net -> net'] /\ \A t \in net' : \E q \in net : f[q] = t
        BY <1>1
    <2> HIDE DEF f
    <2> QED BY <2>1, ImageIsFinite DEF IInv
<1>6. ViewInv'
    <2>1. p.version > 0
        BY <1>2 DEF Packet
    <2>2. view'.active /\ watchdog' # Off
        BY <1>1, <1>3, <2>1, TimesAreNat DEF IInv, ViewInv, OnUpdate, View, Off
    <2> QED BY <2>2 DEF ViewInv
<1>7. StartInv'
    <2> SUFFICES ASSUME phase = "starting"
                 PROVE  /\ \A r \in net' : r.age >= Asleep
                        /\ Asleep + kWatchdogTime <= Delay + kWatchdogTime
        BY <1>1, TimesAreNat DEF StartInv, Asleep, peer
    <2>1. \A r \in net : r.age >= Asleep
        BY DEF IInv, StartInv
    <2>2. Asleep \in Int /\ p.age \in 0 .. Delay
        BY <1>2, TimesAreNat DEF IInv, TypeOK, Asleep, Packet
    <2>3. p.age >= Asleep
        BY <2>1
    <2>4. \A r \in net' : r.age >= Asleep
        BY <1>1, <1>2, <2>1
    <2>5. Asleep + kWatchdogTime <= Delay + kWatchdogTime
        BY <2>2, <2>3, TimesAreNat
    <2> QED BY <2>4, <2>5
<1>8. RunInv'
    <2>1. view'.version \in {view.version, p.version}
        BY <1>1 DEF OnUpdate
    <2> QED BY <1>1, <1>2, <2>1 DEF IInv, RunInv, peer
<1> QED BY <1>4, <1>5, <1>6, <1>7, <1>8 DEF IInv

LEMMA ObserverStepPreserves == ASSUME IInv, ObserverStep PROVE IInv'
<1>1. lag' = 0 /\ UNCHANGED <<peer, net, budget>>
    BY DEF ObserverStep
<1>2. CASE watchdog = 0
    <2>1. watchdog' = Off /\ view' = [view EXCEPT !.active = FALSE, !.version = 0]
        BY <1>2 DEF ObserverStep, OnWatchdogTimeout
    <2>2. TypeOK'
        <3>1. view' \in View
            BY <2>1 DEF IInv, TypeOK, View
        <3>2. watchdog' \in Off .. kWatchdogTime /\ lag' \in 0 .. SampleTime
            BY <1>1, <2>1, TimesAreNat DEF Off
        <3>3. UNCHANGED <<phase, wait, version, quiet, uptime, net, budget>>
            BY <1>1 DEF peer
        <3> QED BY <3>1, <3>2, <3>3 DEF IInv, TypeOK
    <2>3. ViewInv'
        BY <2>1 DEF IInv, TypeOK, ViewInv, View
    <2>4. StartInv' /\ IsFiniteSet(net)'
        BY <1>1, <2>1 DEF IInv, StartInv, Asleep, peer, Off
    <2>5. RunInv'
        BY <1>1, <2>1 DEF IInv, TypeOK, RunInv, View, peer
    <2> QED BY <2>2, <2>3, <2>4, <2>5 DEF IInv
<1>3. CASE watchdog # 0
    <2>1. UNCHANGED <<watchdog, view>>
        BY <1>3 DEF ObserverStep
    <2>2. TypeOK'
        BY <1>1, <2>1, TimesAreNat DEF IInv, TypeOK, peer
    <2>3. ViewInv' /\ RunInv' /\ IsFiniteSet(net)'
        BY <1>1, <2>1 DEF IInv, ViewInv, RunInv, peer
    <2>4. StartInv'
        BY <1>1, <1>3, <2>1 DEF IInv, StartInv, Asleep, peer
    <2> QED BY <2>2, <2>3, <2>4 DEF IInv
<1> QED BY <1>2, <1>3

LEMMA TickPreserves == ASSUME IInv, Tick PROVE IInv'
<1> DEFINE Older(p) == [p EXCEPT !.age = @ + 1]
<1>1. /\ lag < SampleTime /\ lag' = lag + 1
      /\ phase = "running" => quiet < TxTime
      /\ net' = {Older(p) : p \in net \ Overdue}
      /\ watchdog' = RunDown(watchdog)
      /\ quiet' = IF phase = "running" THEN quiet + 1 ELSE quiet
      /\ uptime' = IF phase = "running" /\ uptime < Reach THEN uptime + 1 ELSE uptime
      /\ wait' = IF phase = "starting" THEN RunDown(wait) ELSE wait
      /\ UNCHANGED <<phase, version, view>>
    BY DEF Tick
<1>2. \A p \in net \ Overdue : Older(p) \in Packet /\ Older(p).age = p.age + 1
                               /\ Older(p).version = p.version
    BY TimesAreNat DEF IInv, TypeOK, Packet, Overdue
<1>3. IsFiniteSet(net)'
    <2>1. IsFiniteSet(net \ Overdue)
        BY FS_Subset DEF IInv
    <2> DEFINE T == {Older(p) : p \in net \ Overdue}
               f == [p \in net \ Overdue |-> Older(p)]
    <2> HIDE DEF Older
    <2>2. f \in [net \ Overdue -> T] /\ \A t \in T : \E p \in net \ Overdue : f[p] = t
        OBVIOUS
    <2> HIDE DEF f, T
    <2>3. IsFiniteSet(T)
        BY <2>1, <2>2, ImageIsFinite
    <2> QED BY <1>1, <2>3 DEF T
<1>4. budget' \in [loss : Nat, crash : Nat]
    <2>1. IsFiniteSet(Lost)
        BY FS_Subset DEF IInv, Lost, Overdue
    <2>2. Cardinality(Lost) \in Nat
        BY <2>1, FS_CardinalityType
    <2>3. /\ Cardinality(Lost) <= budget.loss
          /\ budget' = [budget EXCEPT !.loss = @ - Cardinality(Lost)]
        BY DEF Tick
    <2> QED BY <2>2, <2>3 DEF IInv, TypeOK
<1>5. TypeOK'
    <2>1. net' \in SUBSET Packet
        BY <1>1, <1>2
    <2>2. watchdog' \in Off .. kWatchdogTime /\ wait' \in 0 .. kStartupTime
        BY <1>1, TimesAreNat DEF IInv, TypeOK, RunDown, Off
    <2>3. lag' \in 0 .. SampleTime /\ quiet' \in 0 .. TxTime /\ uptime' \in 0 .. Reach
        BY <1>1, TimesAreNat, ReachIsNat DEF IInv, TypeOK
    <2> QED BY <1>1, <1>4, <2>1, <2>2, <2>3 DEF IInv, TypeOK
<1>6. ViewInv'
    BY <1>1, TimesAreNat DEF IInv, TypeOK, ViewInv, RunDown, Off
<1>7. StartInv'
    <2> SUFFICES ASSUME phase = "starting"
                 PROVE  /\ \A r \in net' : r.age >= Asleep'
                        /\ watchdog' > 0 => Asleep' + watchdog' <= Delay + kWatchdogTime
                        /\ watchdog' = 0 => Asleep' <= Delay + kWatchdogTime + lag'
        BY <1>1 DEF StartInv
    <2>1. Asleep' \in Int /\ Asleep \in Int /\ Asleep' <= Asleep + 1
        BY <1>1, TimesAreNat DEF IInv, TypeOK, Asleep, RunDown
    <2>2. /\ \A p \in net : p.age >= Asleep
          /\ watchdog > 0 => Asleep + watchdog <= Delay + kWatchdogTime
          /\ watchdog = 0 => Asleep <= Delay + kWatchdogTime + lag
        BY DEF IInv, StartInv
    <2>3. \A r \in net' : r.age >= Asleep'
        <3> SUFFICES ASSUME NEW p \in net \ Overdue PROVE Older(p).age >= Asleep'
            BY <1>1
        <3>1. p.age \in Nat
            BY TimesAreNat DEF IInv, TypeOK, Packet
        <3> QED BY <1>2, <2>1, <2>2, <3>1
    <2>4. watchdog \in Off .. kWatchdogTime /\ lag \in 0 .. SampleTime
        BY DEF IInv, TypeOK
    <2> QED BY <1>1, <2>1, <2>2, <2>3, <2>4, TimesAreNat DEF RunDown, Off
<1>8. RunInv'
    BY <1>1, <1>2 DEF IInv, RunInv
<1> QED BY <1>3, <1>5, <1>6, <1>7, <1>8 DEF IInv

-----------------------------------------------------------------------------
LEMMA NextPreserves == IInv /\ [Next]_vars => IInv'
<1> SUFFICES ASSUME IInv, [Next]_vars PROVE IInv'
    OBVIOUS
<1>1. CASE Next
    BY <1>1, StartPreserves, PeerStepPreserves, TxPreserves, CrashPreserves, RestartPreserves,
       RxPreserves, ObserverStepPreserves, TickPreserves DEF Next
<1>2. CASE UNCHANGED vars
    BY <1>2 DEF vars, peer, observer, IInv, TypeOK, ViewInv, StartInv, RunInv, Asleep
<1> QED BY <1>1, <1>2

LEMMA Invariance == Spec => []IInv
BY InitOK, NextPreserves, PTL DEF Spec

(* Every variable keeps its type: no timer runs past its end.              *)
THEOREM TypeCorrect == Spec => []TypeOK
<1>1. IInv => TypeOK
    BY DEF IInv
<1> QED BY Invariance, <1>1, PTL

(* The start-up time of twice the watchdog time is enough for every former *)
(* life to be forgotten, if a packet and a step of the observer together   *)
(* take less than the watchdog time.                                       *)
THEOREM StartupTimeSuffices == Spec => []ForgottenBeforeReturn
BY Invariance, AwakeMeansForgotten, PTL

(* No version that a former life reached hides the state of a node that    *)
(* is running again.                                                       *)
THEOREM NewLifeIsHeard == Spec => []NeverShadowed
<1>1. IInv => NeverShadowed
    BY DEF IInv, RunInv, NeverShadowed
<1> QED BY Invariance, <1>1, PTL

-----------------------------------------------------------------------------
(* Why the observer hears of a running node in time.  A silence is         *)
(* explained by packets that got lost or have not arrived yet: the node    *)
(* sent one per TxTime, each of them is lost, of which at most MaxLoss are *)
(* in a row, still on its way, or has ended the silence.  A packet that    *)
(* arrives starts a new row and a new silence.  OlderThan(t) are those     *)
(* still on their way that were sent more than t ago: for every t, a       *)
(* silence that began earlier has cost one packet per TxTime before that.  *)

Unheard      == {p \in net : ~p.got}
OlderThan(t) == {p \in Unheard : p.age > t}
LostSoFar    == MaxLoss - budget.loss

Explained(x) ==
    /\ x <= quiet + TxTime * (LostSoFar + Cardinality(Unheard))
    /\ \A t \in 0 .. Delay : x <= t + TxTime * (LostSoFar + 1 + Cardinality(OlderThan(t)))

SeenInv ==
    /\ budget.loss <= MaxLoss
    /\ phase = "running" =>
        /\ \A p \in net : p.age >= quiet
        /\ Reach < kWatchdogTime =>
            /\ ~view.active => Explained(uptime + TxTime)
            /\ view.active => watchdog > 0 /\ Explained(kWatchdogTime - watchdog)

(* The same of the next state, for a silence that is given now.            *)
ExplainedNext(x) ==
    /\ x <= quiet' + TxTime * (LostSoFar' + Cardinality(Unheard'))
    /\ \A t \in 0 .. Delay : x <= t + TxTime * (LostSoFar' + 1 + Cardinality(OlderThan(t)'))

LEMMA PacketTimes ==
    ASSUME NEW a \in Nat, NEW b \in Nat
    PROVE  /\ TxTime * a \in Nat
           /\ TxTime * (a + 1) = TxTime * a + TxTime
           /\ a <= b => TxTime * a <= TxTime * b
<1>1. TxTime * a \in Nat /\ TxTime * (a + 1) = TxTime * a + TxTime
    BY TimesAreNat
<1>2. ASSUME a <= b PROVE TxTime * a <= TxTime * b
    <2>1. b = a + (b - a) /\ b - a \in Nat
        BY <1>2
    <2>2. TxTime * (b - a) \in Nat /\ TxTime * b = TxTime * a + TxTime * (b - a)
        BY <2>1, TimesAreNat
    <2> QED BY <1>1, <2>2
<1> QED BY <1>1, <1>2

LEMMA CountsAreNat ==
    ASSUME IInv, SeenInv
    PROVE  /\ LostSoFar \in Nat /\ LostSoFar <= MaxLoss
           /\ IsFiniteSet(Unheard) /\ Cardinality(Unheard) \in Nat
           /\ \A t : IsFiniteSet(OlderThan(t)) /\ Cardinality(OlderThan(t)) \in Nat
<1>1. LostSoFar \in Nat /\ LostSoFar <= MaxLoss
    BY TimesAreNat DEF IInv, TypeOK, SeenInv, LostSoFar
<1>2. IsFiniteSet(Unheard)
    BY FS_Subset DEF IInv, Unheard
<1>3. \A t : IsFiniteSet(OlderThan(t))
    BY <1>2, FS_Subset DEF OlderThan
<1> QED BY <1>1, <1>2, <1>3, FS_CardinalityType

(* The longest silence that can be explained is Reach.                     *)
LEMMA ExplainedIsShort ==
    ASSUME IInv, SeenInv, NEW x \in Int, Explained(x)
    PROVE  x <= Reach
<1>1. OlderThan(Delay) = {}
    BY TimesAreNat DEF IInv, TypeOK, Packet, OlderThan, Unheard
<1>2. x <= Delay + TxTime * (LostSoFar + 1 + 0)
    BY <1>1, FS_EmptySet, TimesAreNat DEF Explained
<1>3. TxTime * (LostSoFar + 1) <= TxTime * (MaxLoss + 1)
    BY CountsAreNat, PacketTimes, TimesAreNat
<1>4. TxTime * (LostSoFar + 1) \in Nat /\ TxTime * (MaxLoss + 1) \in Nat
    BY CountsAreNat, PacketTimes, TimesAreNat
<1>5. Reach = TxTime * (MaxLoss + 1) + Delay
    BY TimesAreNat DEF Reach
<1>6. LostSoFar + 1 + 0 = LostSoFar + 1
    BY CountsAreNat
<1> QED BY <1>2, <1>3, <1>4, <1>5, <1>6, TimesAreNat

(* Sending: the packets on their way become one more, all others as old as *)
(* the time since the last one.                                            *)
LEMMA TxExplains ==
    ASSUME IInv, SeenInv, Tx, NEW x \in Int, Explained(x)
    PROVE  ExplainedNext(x)
<1> DEFINE new == [version |-> version, age |-> 0, got |-> FALSE]
<1>1. /\ phase = "running" /\ quiet > 0 /\ quiet' = 0 /\ net' = net \cup {new}
      /\ budget' = budget
    BY DEF Tx
<1>2. new \notin net
    BY <1>1, TimesAreNat DEF SeenInv, IInv, TypeOK
<1>3. new.age = 0 /\ ~new.got
    OBVIOUS
<1> HIDE DEF new
<1>4. Unheard' = Unheard \cup {new} /\ new \notin Unheard
    BY <1>1, <1>2, <1>3 DEF Unheard
<1>5. \A t \in 0 .. Delay : OlderThan(t)' = OlderThan(t)
    BY <1>3, <1>4 DEF OlderThan
<1>6. Cardinality(Unheard') = Cardinality(Unheard) + 1
    BY <1>4, CountsAreNat, FS_AddElement
<1>7. LostSoFar' = LostSoFar
    BY <1>1 DEF LostSoFar
<1> DEFINE s == LostSoFar + Cardinality(Unheard)
<1>8. s \in Nat /\ LostSoFar' + Cardinality(Unheard') = s + 1
    BY <1>6, <1>7, CountsAreNat
<1>9. x <= quiet + TxTime * s
    BY DEF Explained
<1> HIDE DEF s
<1>10. quiet \in 0 .. TxTime
    BY DEF IInv, TypeOK
<1>11. x <= quiet' + TxTime * (s + 1)
    BY <1>1, <1>8, <1>9, <1>10, PacketTimes, TimesAreNat
<1>12. \A t \in 0 .. Delay : x <= t + TxTime * (LostSoFar' + 1 + Cardinality(OlderThan(t)'))
    BY <1>5, <1>7 DEF Explained
<1> QED BY <1>8, <1>11, <1>12 DEF ExplainedNext

(* A unit of time: what is lost in it moves from the packets on their way  *)
(* to the losses, the rest is one unit older.                              *)
LEMMA TickCounts ==
    ASSUME IInv, SeenInv, Tick, phase = "running", NEW S \in SUBSET Unheard, Lost \subseteq S
    PROVE  LET T == {[p EXCEPT !.age = @ + 1] : p \in S \ Lost}
           IN  /\ LostSoFar' \in Nat /\ Cardinality(T) \in Nat
               /\ LostSoFar' + Cardinality(T) = LostSoFar + Cardinality(S)
<1> DEFINE Aged(p) == [p EXCEPT !.age = @ + 1]
           R == S \ Lost
           T == {Aged(p) : p \in R}
           f == [p \in R |-> Aged(p)]
<1>1. IsFiniteSet(S) /\ IsFiniteSet(R) /\ Cardinality(S) \in Nat /\ Cardinality(R) \in Nat
    BY CountsAreNat, FS_Subset, FS_CardinalityType
<1>2. Cardinality(R) = Cardinality(S) - Cardinality(Lost)
    <2>1. S \cap Lost = Lost
        OBVIOUS
    <2> QED BY <1>1, <2>1, FS_Difference
<1>3. ASSUME NEW p \in R, NEW q \in R, Aged(p) = Aged(q)
      PROVE  p = q
    <2>1. p \in Packet /\ q \in Packet
        BY DEF IInv, TypeOK, Unheard
    <2>2. p.age \in Int /\ q.age \in Int
        BY <2>1, TimesAreNat DEF Packet
    <2>3. /\ Aged(p).age = p.age + 1 /\ Aged(p).version = p.version /\ Aged(p).got = p.got
          /\ Aged(q).age = q.age + 1 /\ Aged(q).version = q.version /\ Aged(q).got = q.got
        BY <2>1 DEF Packet
    <2> HIDE DEF Aged
    <2>4. p.age = q.age /\ p.version = q.version /\ p.got = q.got
        BY <1>3, <2>2, <2>3
    <2> QED BY <2>1, <2>4 DEF Packet
<1>4. ExistsBijection(R, T)
    <2>1. f \in [R -> T] /\ \A t \in T : \E p \in R : f[p] = t
        <3> HIDE DEF Aged, R
        <3> QED OBVIOUS
    <2>2. \A p, q \in R : f[p] = f[q] => p = q
        <3> HIDE DEF Aged, R
        <3> QED BY <1>3
    <2> HIDE DEF f, T, R
    <2>3. f \in Bijection(R, T)
        BY <2>1, <2>2, Fun_IsBij
    <2> QED BY <2>3, Fun_ExistsBij
<1>5. Cardinality(T) = Cardinality(R)
    <2> HIDE DEF T, R
    <2> QED BY <1>1, <1>4, FS_Bijection
<1>6. LostSoFar' = LostSoFar + Cardinality(Lost) /\ Cardinality(Lost) \in Nat
    <2>1. budget' = [budget EXCEPT !.loss = @ - Cardinality(Lost)]
        BY DEF Tick
    <2>2. budget'.loss = budget.loss - Cardinality(Lost) /\ budget.loss \in Nat
        BY <2>1 DEF IInv, TypeOK
    <2>3. IsFiniteSet(Lost)
        BY <1>1, FS_Subset
    <2>4. Cardinality(Lost) \in Nat
        BY <2>3, FS_CardinalityType
    <2> QED BY <2>2, <2>4, TimesAreNat DEF LostSoFar
<1>7. LostSoFar \in Nat
    BY CountsAreNat
<1> HIDE DEF R
<1>8. /\ LostSoFar' \in Nat /\ Cardinality(T) \in Nat
      /\ LostSoFar' + Cardinality(T) = LostSoFar + Cardinality(S)
    <2> HIDE DEF T
    <2> QED BY <1>1, <1>2, <1>5, <1>6, <1>7
<1> QED BY <1>8 DEF R

LEMMA TickExplains ==
    ASSUME IInv, SeenInv, Tick, phase = "running", NEW x \in Int, Explained(x),
           NEW y \in Int, y <= x + 1
    PROVE  ExplainedNext(y)
<1> DEFINE Aged(p) == [p EXCEPT !.age = @ + 1]
<1>1. /\ quiet < TxTime /\ quiet' = quiet + 1
      /\ net' = {Aged(p) : p \in net \ Overdue}
    BY DEF Tick
<1>2. quiet \in 0 .. TxTime
    BY DEF IInv, TypeOK
<1>3. \A p \in net : p \in Packet /\ p.age \in 0 .. Delay
    BY DEF IInv, TypeOK, Packet
<1>4. \A p \in net : Aged(p).age = p.age + 1 /\ Aged(p).got = p.got
    BY <1>3 DEF Packet
<1>5. Lost = {p \in Unheard : p.age = Delay}
    BY DEF Lost, Overdue, Unheard
<1> HIDE DEF Aged
<1>6. Unheard' = {Aged(p) : p \in Unheard \ Lost}
    BY <1>1, <1>4, <1>5 DEF Unheard, Overdue
<1>7. /\ LostSoFar' \in Nat /\ Cardinality(Unheard') \in Nat
      /\ LostSoFar' + Cardinality(Unheard') = LostSoFar + Cardinality(Unheard)
    BY <1>5, <1>6, TickCounts DEF Aged
<1> DEFINE s == LostSoFar + Cardinality(Unheard)
<1>8. s \in Nat
    BY CountsAreNat
<1>9. x <= quiet + TxTime * s /\ LostSoFar' + Cardinality(Unheard') = s
    BY <1>7 DEF Explained
<1> HIDE DEF s
<1>10. y <= quiet' + TxTime * s
    BY <1>1, <1>2, <1>8, <1>9, PacketTimes, TimesAreNat
<1>11. ASSUME NEW t \in 0 .. Delay
       PROVE  y <= t + TxTime * (LostSoFar' + 1 + Cardinality(OlderThan(t)'))
    <2>1. CASE t = 0
        <3>1. OlderThan(t)' = Unheard'
            BY <2>1, <1>3, <1>4, <1>6 DEF OlderThan, Unheard
        <3>2. y <= TxTime * s + TxTime
            BY <1>1, <1>2, <1>8, <1>10, PacketTimes, TimesAreNat
        <3>3. LostSoFar' + 1 + Cardinality(OlderThan(t)') = s + 1
            BY <1>7, <1>9, <3>1
        <3> QED BY <2>1, <1>8, <3>2, <3>3, PacketTimes, TimesAreNat
    <2>2. CASE t # 0
        <3>1. t - 1 \in 0 .. Delay /\ t - 1 < Delay
            BY <2>2, TimesAreNat
        <3>2. OlderThan(t - 1) \in SUBSET Unheard /\ Lost \subseteq OlderThan(t - 1)
            BY <1>5, <3>1, TimesAreNat DEF OlderThan
        <3>3. OlderThan(t)' = {Aged(p) : p \in OlderThan(t - 1) \ Lost}
            <4>1. \A p \in Unheard : Aged(p).age > t <=> p.age > t - 1
                BY <1>3, <1>4, <3>1, TimesAreNat DEF Unheard
            <4> QED BY <1>6, <4>1 DEF OlderThan
        <3>4. /\ Cardinality(OlderThan(t)') \in Nat
              /\ LostSoFar' + Cardinality(OlderThan(t)') = LostSoFar + Cardinality(OlderThan(t - 1))
            BY <3>2, <3>3, TickCounts DEF Aged
        <3>5. x <= (t - 1) + TxTime * (LostSoFar + 1 + Cardinality(OlderThan(t - 1)))
            BY <3>1 DEF Explained
        <3>6. LostSoFar' + 1 + Cardinality(OlderThan(t)') = LostSoFar + 1 + Cardinality(OlderThan(t - 1))
            BY <1>7, <3>4, CountsAreNat
        <3>7. TxTime * (LostSoFar + 1 + Cardinality(OlderThan(t - 1))) \in Nat
            BY CountsAreNat, PacketTimes
        <3> QED BY <3>1, <3>5, <3>6, <3>7
    <2> QED BY <2>1, <2>2
<1> QED BY <1>9, <1>10, <1>11 DEF ExplainedNext

-----------------------------------------------------------------------------
LEMMA InitSeen == Init => SeenInv
BY TimesAreNat DEF Init, SeenInv

(* A new life: it has to send at once, and nobody has heard of it yet.     *)
LEMMA StartSeen == ASSUME IInv, SeenInv, Start PROVE SeenInv'
<1>1. /\ phase = "starting" /\ wait = 0 /\ phase' = "running"
      /\ quiet' = TxTime /\ uptime' = 0 /\ budget' = NewRow
      /\ UNCHANGED <<view, watchdog, net>>
    BY DEF Start, observer
<1>2. net = {} /\ view = NoView
    BY <1>1, AwakeMeansForgotten DEF ForgottenBeforeReturn
<1>3. Unheard' = {} /\ \A t \in 0 .. Delay : OlderThan(t)' = {}
    BY <1>1, <1>2 DEF Unheard, OlderThan
<1>4. LostSoFar' = 0 /\ budget'.loss <= MaxLoss
    BY <1>1, NewRowType, TimesAreNat DEF LostSoFar
<1>5. Cardinality({}) = 0
    BY FS_EmptySet
<1>6. TxTime <= quiet' + TxTime * (LostSoFar' + Cardinality(Unheard'))
    BY <1>1, <1>3, <1>4, <1>5, TimesAreNat
<1>7. \A t \in 0 .. Delay : TxTime <= t + TxTime * (LostSoFar' + 1 + Cardinality(OlderThan(t)'))
    BY <1>3, <1>4, <1>5, TimesAreNat
<1>8. Explained(uptime + TxTime)'
    BY <1>1, <1>6, <1>7, TimesAreNat DEF Explained
<1> QED BY <1>1, <1>2, <1>4, <1>8 DEF SeenInv, NoView

LEMMA TxSeen == ASSUME IInv, SeenInv, Tx PROVE SeenInv'
<1> DEFINE new == [version |-> version, age |-> 0, got |-> FALSE]
<1>1. /\ phase = "running" /\ phase' = phase /\ quiet' = 0 /\ net' = net \cup {new}
      /\ UNCHANGED <<uptime, view, watchdog, budget>>
    BY DEF Tx, observer
<1>2. \A p \in net' : p.age >= quiet'
    <2>1. \A p \in net : p.age \in Nat
        BY TimesAreNat DEF IInv, TypeOK, Packet
    <2> QED BY <1>1, <2>1
<1>3. uptime \in Int /\ watchdog \in Int
    BY ReachIsNat, TimesAreNat DEF IInv, TypeOK, Off
<1>4. ASSUME Reach < kWatchdogTime, ~view.active PROVE Explained(uptime + TxTime)'
    <2>1. PICK x \in Int : x = uptime + TxTime
        BY <1>3, TimesAreNat
    <2>2. ExplainedNext(x)
        BY <1>1, <1>4, <2>1, TxExplains DEF SeenInv
    <2> QED BY <1>1, <2>1, <2>2 DEF Explained, ExplainedNext
<1>5. ASSUME Reach < kWatchdogTime, view.active
      PROVE  watchdog > 0 /\ Explained(kWatchdogTime - watchdog)'
    <2>1. PICK x \in Int : x = kWatchdogTime - watchdog
        BY <1>3, TimesAreNat
    <2>2. watchdog > 0 /\ ExplainedNext(x)
        BY <1>1, <1>5, <2>1, TxExplains DEF SeenInv
    <2> QED BY <1>1, <2>1, <2>2 DEF Explained, ExplainedNext
<1> QED BY <1>1, <1>2, <1>4, <1>5 DEF SeenInv

(* A packet has arrived: the silence is over, and the observer believes    *)
(* the packet, since it remembers no version of a node it has written off. *)
LEMMA RxSeen == ASSUME IInv, SeenInv, Rx PROVE SeenInv'
<1>1. PICK p \in net :
        /\ watchdog' = kWatchdogTime
        /\ view' = OnUpdate(p)
        /\ net' = {Arrived(q, p) : q \in net}
        /\ budget' = NewRow
        /\ UNCHANGED <<phase, quiet, uptime>>
    BY DEF Rx, UpdateWatchdogTimer, peer
<1>2. view'.active
    <2>1. p.version > 0 /\ p.version \in Nat
        BY DEF IInv, TypeOK, Packet
    <2> QED BY <1>1, <2>1 DEF IInv, ViewInv, OnUpdate
<1>3. \A q \in net' : \E r \in net : q.age = r.age
    BY <1>1 DEF IInv, TypeOK, Packet, Arrived
<1>4. IInv'
    BY RxPreserves
<1>5. budget'.loss <= MaxLoss /\ LostSoFar' \in Nat
    BY <1>1, NewRowType, TimesAreNat DEF LostSoFar
<1>6. Explained(0)' => SeenInv'
    BY <1>1, <1>2, <1>3, <1>5, TimesAreNat DEF SeenInv
<1>7. quiet' \in Nat
    BY <1>1, TimesAreNat DEF IInv, TypeOK
<1>8. IsFiniteSet(Unheard') /\ \A t : IsFiniteSet(OlderThan(t)')
    BY <1>4, FS_Subset DEF IInv, Unheard, OlderThan
<1>9. Cardinality(Unheard') \in Nat /\ \A t : Cardinality(OlderThan(t)') \in Nat
    BY <1>8, FS_CardinalityType
<1>10. 0 <= quiet' + TxTime * (LostSoFar' + Cardinality(Unheard'))
    <2>1. TxTime * (LostSoFar' + Cardinality(Unheard')) \in Nat
        BY <1>5, <1>9, TimesAreNat
    <2> QED BY <1>7, <2>1
<1>11. \A t \in 0 .. Delay : 0 <= t + TxTime * (LostSoFar' + 1 + Cardinality(OlderThan(t)'))
    <2> SUFFICES ASSUME NEW t \in 0 .. Delay
                 PROVE  0 <= t + TxTime * (LostSoFar' + 1 + Cardinality(OlderThan(t)'))
        OBVIOUS
    <2>1. TxTime * (LostSoFar' + 1 + Cardinality(OlderThan(t)')) \in Nat
        BY <1>5, <1>9, TimesAreNat
    <2> QED BY <2>1, TimesAreNat
<1>12. Explained(0)'
    BY <1>10, <1>11 DEF Explained
<1> QED BY <1>6, <1>12

(* The watchdog never runs out on a node that works.                       *)
LEMMA TickSeen == ASSUME IInv, SeenInv, Tick PROVE SeenInv'
<1>1. /\ phase = "running" => quiet < TxTime
      /\ net' = {[p EXCEPT !.age = @ + 1] : p \in net \ Overdue}
      /\ watchdog' = RunDown(watchdog)
      /\ quiet' = IF phase = "running" THEN quiet + 1 ELSE quiet
      /\ uptime' = IF phase = "running" /\ uptime < Reach THEN uptime + 1 ELSE uptime
      /\ UNCHANGED <<phase, view>>
    BY DEF Tick
<1>2. IInv'
    BY TickPreserves
<1>3. budget'.loss <= MaxLoss
    <2>1. IsFiniteSet(Lost)
        BY FS_Subset DEF IInv, Lost, Overdue
    <2>2. Cardinality(Lost) \in Nat
        BY <2>1, FS_CardinalityType
    <2>3. budget' = [budget EXCEPT !.loss = @ - Cardinality(Lost)]
        BY DEF Tick
    <2> QED BY <2>2, <2>3, TimesAreNat DEF SeenInv, IInv, TypeOK
<1>4. ASSUME phase = "running"
      PROVE  \A p \in net' : p.age >= quiet'
    <2> SUFFICES ASSUME NEW p \in net PROVE [p EXCEPT !.age = @ + 1].age >= quiet + 1
        BY <1>1, <1>4
    <2>1. p \in Packet /\ p.age \in Nat /\ p.age >= quiet /\ quiet \in Nat
        BY <1>4, TimesAreNat DEF SeenInv, IInv, TypeOK, Packet
    <2> QED BY <2>1 DEF Packet
<1>5. uptime \in Nat /\ watchdog \in Off .. kWatchdogTime
    BY ReachIsNat DEF IInv, TypeOK
<1>6. ASSUME phase = "running", Reach < kWatchdogTime, ~view.active
      PROVE  Explained(uptime + TxTime)'
    <2>1. PICK x \in Int : x = uptime + TxTime
        BY <1>5, TimesAreNat
    <2>2. PICK y \in Int : y = uptime' + TxTime /\ y <= x + 1
        BY <1>1, <1>5, <2>1, TimesAreNat
    <2>3. ExplainedNext(y)
        BY <1>6, <2>1, <2>2, TickExplains DEF SeenInv
    <2> QED BY <2>2, <2>3 DEF Explained, ExplainedNext
<1>7. ASSUME phase = "running", Reach < kWatchdogTime, view.active
      PROVE  watchdog' > 0 /\ Explained(kWatchdogTime - watchdog)'
    <2>1. watchdog > 0 /\ watchdog' = watchdog - 1
        BY <1>1, <1>5, <1>7 DEF SeenInv, RunDown
    <2>2. PICK x \in Int : x = kWatchdogTime - watchdog
        BY <1>5, TimesAreNat DEF Off
    <2>3. PICK y \in Int : y = kWatchdogTime - watchdog' /\ y <= x + 1
        BY <1>5, <2>1, <2>2, TimesAreNat DEF Off
    <2>4. ExplainedNext(y)
        BY <1>7, <2>2, <2>3, TickExplains DEF SeenInv
    <2>5. Explained(kWatchdogTime - watchdog)'
        BY <2>3, <2>4 DEF Explained, ExplainedNext
    <2>6. y <= Reach
        <3>1. y <= Delay + TxTime * (LostSoFar' + 1 + Cardinality(OlderThan(Delay)'))
            BY <2>4, TimesAreNat DEF ExplainedNext
        <3>2. OlderThan(Delay)' = {}
            BY <1>2, TimesAreNat DEF IInv, TypeOK, Packet, OlderThan, Unheard
        <3>3. LostSoFar' \in Nat /\ LostSoFar' <= MaxLoss
            BY <1>2, <1>3, TimesAreNat DEF IInv, TypeOK, LostSoFar
        <3>4. PICK lost \in Nat : lost = LostSoFar' /\ lost <= MaxLoss
            BY <3>3
        <3>5. /\ TxTime * (lost + 1) <= TxTime * (MaxLoss + 1)
              /\ TxTime * (lost + 1) \in Nat
            <4>1. lost <= MaxLoss
                BY <3>4
            <4>2. lost + 1 \in Nat /\ MaxLoss + 1 \in Nat /\ lost + 1 <= MaxLoss + 1
                BY <4>1, TimesAreNat
            <4> QED BY <4>2, PacketTimes
        <3>6. y <= Delay + TxTime * (lost + 1)
            BY <3>1, <3>2, <3>3, <3>4, FS_EmptySet
        <3>7. Reach = TxTime * (MaxLoss + 1) + Delay /\ TxTime * (MaxLoss + 1) \in Nat
            BY PacketTimes, TimesAreNat DEF Reach
        <3> QED BY <3>5, <3>6, <3>7, TimesAreNat
    <2> QED BY <1>5, <1>7, <2>1, <2>3, <2>5, <2>6, ReachIsNat, TimesAreNat
<1> QED BY <1>1, <1>3, <1>4, <1>6, <1>7 DEF SeenInv

LEMMA QuietStepsSeen ==
    ASSUME IInv, SeenInv, PeerStep \/ Crash \/ Restart \/ ObserverStep \/ UNCHANGED vars
    PROVE  SeenInv'
<1>1. CASE PeerStep \/ UNCHANGED vars
    <2>1. UNCHANGED <<phase, quiet, uptime, view, watchdog, net, budget>>
        BY <1>1 DEF PeerStep, vars, peer, observer
    <2> QED BY <2>1 DEF SeenInv, Explained, Unheard, OlderThan, LostSoFar
<1>2. CASE Crash \/ Restart
    <2>1. phase' # "running" /\ budget'.loss = budget.loss
        BY <1>2 DEF Crash, Restart, IInv, TypeOK
    <2> QED BY <2>1 DEF SeenInv
<1>3. CASE ObserverStep
    <2>1. UNCHANGED <<phase, quiet, uptime, net, budget>>
        BY <1>3 DEF ObserverStep, peer
    <2>2. CASE phase = "running" /\ Reach < kWatchdogTime
        <3>1. watchdog # 0
            BY <2>2 DEF SeenInv, IInv, ViewInv, Off
        <3>2. UNCHANGED <<watchdog, view>>
            BY <1>3, <3>1 DEF ObserverStep
        <3> QED BY <2>1, <3>2 DEF SeenInv, Explained, Unheard, OlderThan, LostSoFar
    <2>3. CASE ~ (phase = "running" /\ Reach < kWatchdogTime)
        BY <2>1, <2>3 DEF SeenInv
    <2> QED BY <2>2, <2>3
<1> QED BY <1>1, <1>2, <1>3

LEMMA SeenInvariance == Spec => [](IInv /\ SeenInv)
<1>1. IInv /\ SeenInv /\ [Next]_vars => SeenInv'
    BY StartSeen, TxSeen, RxSeen, TickSeen, QuietStepsSeen DEF Next
<1> QED BY InitOK, InitSeen, NextPreserves, <1>1, PTL DEF Spec

(* A node that has run for as long as a packet may take to get through is  *)
(* active to its peers and stays so, whatever packets are lost, repeated   *)
(* or overtaken, as long as the losses in a row do not add up to the       *)
(* watchdog time, whatever there are in all: no order of a working         *)
(* elevator is handed on for lack of contact.                              *)
THEOREM WorkingNodeIsSeen == Spec => []SeenWhenRunning
<1>1. IInv /\ SeenInv => SeenWhenRunning
    <2> SUFFICES ASSUME IInv, SeenInv, phase = "running", uptime = Reach,
                        Reach < kWatchdogTime, ~view.active
                 PROVE  FALSE
        BY DEF SeenWhenRunning
    <2>1. PICK x \in Int : x = uptime + TxTime
        BY ReachIsNat, TimesAreNat
    <2>2. x <= Reach
        BY <2>1, ExplainedIsShort DEF SeenInv
    <2> QED BY <2>1, <2>2, ReachIsNat, TimesAreNat
<1> QED BY SeenInvariance, <1>1, PTL
=============================================================================
