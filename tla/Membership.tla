----------------------------- MODULE Membership -----------------------------
(***************************************************************************)
(* How one node, the observer, knows whether a peer is alive: the state    *)
(* version and the watchdog timer of libs/elevator and libs/network, and   *)
(* the start-up time of a node.  HallOrders leaves time out; this module   *)
(* is about nothing else.  Time passes in units (Tick), and what has to    *)
(* happen by then holds time up.                                           *)
(***************************************************************************)
EXTENDS Integers, FiniteSets

CONSTANTS
    kWatchdogTime,  \* kWatchdogTimeMs
    SampleTime,     \* the control thread runs a step at least that often,
    TxTime,         \*   the transmitter sends at least that often
    Delay,          \* a packet arrives within that time, or never
    MaxVersion,     \* bounds on the environment: steps of one life,
    MaxLoss,        \*   packets lost in a row,
    MaxCrash        \*   crashes

kStartupTime == 2 * kWatchdogTime

ASSUME TimeAssumption == /\ {kWatchdogTime, SampleTime, TxTime} \subseteq Nat \ {0}
                         /\ Delay \in Nat
                         /\ Delay + SampleTime < kWatchdogTime
ASSUME MembershipBounds == {MaxVersion, MaxLoss, MaxCrash} \subseteq Nat

VARIABLES
    phase,          \* of the peer: "down", "starting" (asleep in Init) or "running"
    wait,           \* how long it will still sleep
    version,        \* version_ of its state
    quiet,          \* how long ago it sent
    uptime,         \* how long it has been running, up to Reach (history)
    view,           \* the observer's copy of its state
    watchdog,       \* the observer's watchdog timer: time left, 0 is expired
    lag,            \* how long ago the observer ran a step
    net,            \* the packets of the peer
    budget          \* what the environment may still do; loss is that until a packet arrives

peer     == <<phase, wait, version, quiet, uptime>>
observer == <<view, watchdog, lag>>
vars     == <<peer, observer, net, budget>>

Off == -1

View   == [active : BOOLEAN, version : Nat]
Packet == [version : Nat \ {0}, age : 0 .. Delay, got : BOOLEAN]   \* got: it or a later one

NoView == [active |-> FALSE, version |-> 0]

(* The longest time between two packets that arrive. *)
Reach == (MaxLoss + 1) * TxTime + Delay

(* A row of losses is over when a packet arrives, or with a new life. *)
NewRow == [budget EXCEPT !.loss = MaxLoss]

-----------------------------------------------------------------------------
(* The peer. *)

(* The end of Init, the first step, and the network threads. *)
Start ==
    /\ phase = "starting" /\ wait = 0
    /\ phase' = "running"
    /\ version' = version + 1
    /\ quiet' = TxTime
    /\ uptime' = 0
    /\ budget' = NewRow
    /\ UNCHANGED <<wait, observer, net>>

(* SyncPeers counts a version, an event another one. *)
PeerStep ==
    \E v \in {version + 1, version + 2} :
        /\ phase = "running"
        /\ v <= MaxVersion
        /\ version' = v
        /\ UNCHANGED <<phase, wait, quiet, uptime, observer, net, budget>>

Tx ==
    /\ phase = "running" /\ quiet > 0
    /\ quiet' = 0
    /\ net' = net \cup {[version |-> version, age |-> 0, got |-> FALSE]}
    /\ UNCHANGED <<phase, wait, version, uptime, observer, budget>>

Crash ==
    /\ phase \in {"starting", "running"}
    /\ budget.crash > 0
    /\ budget' = [budget EXCEPT !.crash = @ - 1]
    /\ phase' = "down"
    /\ UNCHANGED <<wait, version, quiet, uptime, observer, net>>

StartupOnce == kWatchdogTime      \* mutant: waits for the watchdogs, not for what is on its way

StartupTime == kStartupTime

(* A new process, as far as the sleep in Init. *)
Restart ==
    /\ phase = "down"
    /\ phase' = "starting"
    /\ wait' = StartupTime
    /\ version' = 1
    /\ UNCHANGED <<quiet, uptime, observer, net, budget>>

-----------------------------------------------------------------------------
(* The observer. *)

(* OnUpdate: a state is adopted if its version is higher. *)
OnUpdate(p) ==
    IF p.version > view.version THEN [active |-> TRUE, version |-> p.version] ELSE view

UpdateWatchdogNewer(p) ==         \* mutant: only news counts as a sign of life
    IF p.version > view.version THEN kWatchdogTime ELSE watchdog

UpdateWatchdogTimer(p) == kWatchdogTime

(* A packet stays: it may arrive again.  What was sent before it is no     *)
(* longer missed, should it be lost.                                       *)
Arrived(q, p) == [q EXCEPT !.got = @ \/ q.age >= p.age]

Rx ==
    \E p \in net :
        /\ watchdog' = UpdateWatchdogTimer(p)
        /\ view' = OnUpdate(p)
        /\ net' = {Arrived(q, p) : q \in net}
        /\ budget' = NewRow
        /\ UNCHANGED <<peer, lag>>

TimeoutKeepsVersion(v) ==         \* mutant: the version is not reset
    [v EXCEPT !.active = FALSE]

OnWatchdogTimeout(v) == [v EXCEPT !.active = FALSE, !.version = 0]

ObserverStep ==
    /\ lag' = 0
    /\ IF watchdog = 0
       THEN watchdog' = Off /\ view' = OnWatchdogTimeout(view)
       ELSE UNCHANGED <<watchdog, view>>
    /\ UNCHANGED <<peer, net, budget>>

-----------------------------------------------------------------------------
(* Time. *)

Overdue == {p \in net : p.age = Delay}
Lost    == {p \in Overdue : ~p.got /\ phase = "running"}

RunPastEnd(t) == t - 1            \* mutant: counts on when it has expired

RunDown(t) == IF t > 0 THEN t - 1 ELSE t

Tick ==
    /\ lag < SampleTime
    /\ phase = "running" => quiet < TxTime
    /\ Cardinality(Lost) <= budget.loss
    /\ budget' = [budget EXCEPT !.loss = @ - Cardinality(Lost)]
    /\ net' = {[p EXCEPT !.age = @ + 1] : p \in net \ Overdue}
    /\ lag' = lag + 1
    /\ watchdog' = RunDown(watchdog)
    /\ quiet'  = IF phase = "running" THEN quiet + 1 ELSE quiet
    /\ uptime' = IF phase = "running" /\ uptime < Reach THEN uptime + 1 ELSE uptime
    /\ wait'   = IF phase = "starting" THEN RunDown(wait) ELSE wait
    /\ UNCHANGED <<phase, version, view>>

-----------------------------------------------------------------------------
Init ==
    /\ phase    = "starting"
    /\ wait     = StartupTime
    /\ version  = 1
    /\ quiet    = 0
    /\ uptime   = 0
    /\ view     = NoView
    /\ watchdog = Off
    /\ lag      = 0
    /\ net      = {}
    /\ budget   = [loss |-> MaxLoss, crash |-> MaxCrash]

Next ==
    \/ Start \/ PeerStep \/ Tx
    \/ Crash \/ Restart
    \/ Rx \/ ObserverStep
    \/ Tick

Spec == Init /\ [][Next]_vars

-----------------------------------------------------------------------------
TypeOK ==
    /\ phase    \in {"down", "starting", "running"}
    /\ wait     \in 0 .. kStartupTime
    /\ version  \in Nat \ {0}
    /\ quiet    \in 0 .. TxTime
    /\ uptime   \in 0 .. Reach
    /\ view     \in View
    /\ watchdog \in Off .. kWatchdogTime
    /\ lag      \in 0 .. SampleTime
    /\ net      \in SUBSET Packet
    /\ budget   \in [loss : Nat, crash : Nat]

(* "Delay startup to ensure the peers' watchdog timers have timed out": by *)
(* the time a restarted node wakes up, nothing of its former life is on    *)
(* its way and the observer has written it off.  This is the guard of      *)
(* HallOrders!Restart.                                                     *)
ForgottenBeforeReturn ==
    phase = "starting" /\ wait = 0 => net = {} /\ watchdog = Off /\ view = NoView

(* Nothing that a former life has left behind makes the observer take the  *)
(* state of a running node for an old one and ignore it.                   *)
NeverShadowed ==
    phase = "running" => view.version <= version

(* A node that has run for as long as a packet may take to get through is  *)
(* active, and stays so: its orders are not handed on while it works, as   *)
(* long as the packets lost in a row do not add up to the watchdog time,   *)
(* however often the network loses some.                                   *)
SeenWhenRunning ==
    phase = "running" /\ uptime = Reach /\ Reach < kWatchdogTime => view.active
=============================================================================
