# Verification of cpp-elevator

TLA+ models of the elevator nodes in `libs/` and `services/`, the TLC runs that
check them on small instances, and TLAPS proofs of the results that hold for
every instance.  Paths below are relative to the root of the repository.

## 1. The system

Up to `kElevs` = 4 elevators serve a building.  Each has a process, an
`ElevatorNode`, that drives its own cabin and shares the hall calls with the
other nodes.  There is no master: every node broadcasts all it knows every
50 ms and merges what it receives.

| Component | State | Operations | Interacts with |
|---|---|---|---|
| `Order`, `OrderTable` (libs/ordersync) | status, version, assignee, observation mask of each order | `OnRequest`, `OnConfirm`, `OnClear`, `OnReset`, `OnReassignment`, `Observe`, merge `OnUpdate` / `Join` | called by `Peers` and `ElevatorNode` under the mutex |
| `Peers` (libs/network) | `orders_`, `order_timers_`, `watchdog_timers_`, `all_states_`, `cab_button_orders_` | `Step` (watchdogs, faults, observe, confirm, reset, order timers), `ClearOrders` | shared by the three threads of a node, `peers_mutex_` |
| `ElevatorState` (libs/elevator) | floor, motor, door, health, activity, version | setters, `OnUpdate`, `OnWatchdogTimeout` | own copy in `Elevator`, one copy per peer in `Peers` |
| `Elevator`, buttons | previous floor, sampled buttons | `Step`, `Init`, motor and door | hardware; `Controller` |
| `Controller`, `RequestTable` (libs/control) | requests, previous requests, inertia, door timer, floor timer | six `Fsm...` handlers | one event per step of the node |
| `ElevatorNode`, `main` (services) | the parts above, the mutex, three threads | `Step`, `Event`, `RxPacketProcessing`, `TxPacketCopy` | all |
| UDP transport | sockets | send, receive, validate | other nodes |
| button lamps | `button_lamps_`, what the panel shows | `SetButtonLamps` | the request table, hardware |
| hardware driver | TCP connection | polls and commands | elevator server |

What is hard here, and where each of it bites, is listed under `hazards` in
`PROJECT.json`.  In short:

* **Copies, not a master.** Stale, repeated and overtaken packets meet a merge
  that decides by version, then status, then assignee.  Two nodes may confirm
  or reassign the same order at the same time.
* **A barrier on partial knowledge.** A request is confirmed when all elevators
  believed active have seen it; who is active is a matter of timeouts.
* **Failures.** Nodes die with all of their memory and come back; contact is
  lost and returns; elevators are obstructed, stopped or at fault.
* **Three threads, one mutex.** The control thread takes the lock twice per
  step; between the two the receiver may change what it decided on.
* **One event per step.** The first condition that holds is handled, some
  conditions consume what they tested, and handlers decline when the elevator
  is stopped or obstructed: wake-ups can get lost.
* **Time decides who is alive.** A watchdog, a start-up time and a version that
  restarts from one have to fit together, or a node that works is ignored.

## 2. Modules

| Module | Models |
|---|---|
| `Order` | one copy of an order and its merge |
| `HallOrders` (extends `Order`) | the hall orders of a group of nodes: `Peers` as `ElevatorNode` drives it, threads, network, crashes, timers |
| `HallCall` | abstract: what the group promises about its hall buttons, independently of each other |
| `HallCallRefinement` (extends `HallOrders`) | the mapping to `HallCall`, the quiet group and the condition `InTime` under which it is claimed |
| `MCHallOrders` | groups, start states and specifications for TLC |
| `CabOrders` (extends `Order`) | a cab order of one elevator and the backups of it: press, serve, preservation join, crash and return |
| `MCCabOrders` | a group of three for TLC |
| `Fsm` | the decisions and handlers of `Controller` as functions of the elevator and its requests |
| `Controller` (extends `Fsm`) | one elevator: `Elevator`, the dispatch of `ElevatorNode::Step`, the cabin as environment |
| `MCController` | a building of three floors for TLC |
| `ElevatorNode` (extends `HallOrders`, `Fsm`) | the composition: a group of nodes that share the hall orders, each with its cabin, its snapshot of the requests and its lamps |
| `MCElevatorNode` | a group of two in a building of two floors for TLC |
| `ElevatorNodeRefinement` (extends `ElevatorNode`, `HallCallRefinement`) | the same mapping for nodes with cabins, and what ends a call there |
| `MCElevatorNodeRefinement` | two elevators that work for TLC |
| `Membership` | the state of a peer as one node knows it: versions, watchdog, start-up time |
| `CostFunction` (extends `HallOrders`, `Fsm`) | the numbers of the cost function and the choice from the sorted array |
| `OrderProofs`, `HallOrdersProofs`, `CabOrdersProofs`, `FsmProofs`, `ControllerProofs`, `ElevatorNodeProofs`, `MembershipProofs`, `CostFunctionProofs` | theorems and proofs |

Operators ending in a comment `mutant:` are plausible mistakes in the code.
Nothing uses them; `PROJECT.json` lists for every checked property one of them
which, put in the place of the faithful definition, TLC finds out.

### Order

A copy is a record with the fields of the class.  The mask is a set of
elevators, the version a natural number: at one update per 40 ms the 64 bits
last longer than the building.  `Leq` is the order in which copies grow.

### HallOrders

`orders[n]`, `timers[n]`, `watchdogs[n]` and `states[n]` are the members of the
`Peers` of node n; `phase[n]` says where its control thread is; `net` is the set
of packets in the network.  Each action is one critical section:

| Action | Code |
|---|---|
| `Step(n)` | `ElevatorNode::Step` up to the unlock: `SyncPeers`, all of `Peers::Step` |
| `Event(n)`, `NoEvent(n)` | `ElevatorNode::Event` with `Peers::ClearOrders`; the step without an event |
| `Tx(n)` | `TxPacketCopy` and the broadcast |
| `Rx(n, m)` | `RxPacketProcessing` of a packet of m |
| `OrderTimerExpires`, `ContactLost`, `PeerSilent`, `LastPacketsGone` | time and the network |
| `ChangeHealth`, `Crash`, `Restart` | the elevator, the machine, the operator |

`Peers::Step` treats the hall orders independently of each other, so it is
written as a function of one order and its timer (`PeersStep`), with one
operator per loop, in the order of the code.  `num_elevs_` is counted before
the watchdogs, as in the code.

Abstractions, and why they are sound for what is checked:

* *Costs* are any ranking of the elevators that respects the penalties.  Every
  choice of the code is one of the model's: that is the theorem `CostsAreRanked`
  about `CostFunction`.  The penalties of an elevator
  both stopped and at fault add up in the code; here both count as one, which
  allows more rankings of such elevators.
* *Timers* are off, on, or due.  A due watchdog that hears a packet before the
  next step is restarted, as in the code.
* *Versions of states*: the state of an elevator that is not active here has
  version 0 and is adopted; any other may be newer or not.  `Membership` has the
  versions.
* *Packets*: receiving leaves the packet in the network (duplication), a sender
  may drop any of its earlier packets when it sends (loss), and packets are
  received in any order.
* *Restart* happens when nothing of the former life is on its way and the
  watchdogs have fired: that is what `kStartupTimeMs` is for
  (elevator_node.cpp:112), and `ForgottenBeforeReturn` of `Membership` says that it
  is long enough.  Nothing is persisted, so a restarted node is new.
* *Cab orders* are not part of this module: `Join` skips them, and they have a
  module of their own.

### CabOrders

`cab` is the order of one floor in the `Orders` of its owner, `backup[n]` the
owner's entry of `cab_button_orders_` in node n, the owner's own entry included.
`Preserve` is the join of elevator_node.cpp:97: the owner merges a backup into its
order and into its own backup, a peer merges the owner's order into its backup.
Peers do not pass backups of others on, and floors and owners do not meet in any
statement of the code, so one of each is enough.  A packet is reduced to what its
receivers read of this order.  Threads, network and crashes are those of
`HallOrders`; only nodes that run or start matter, since who is *active* has no
influence on cab orders.

### Fsm and Controller

`Fsm` has no state: every handler is a function of the elevator (`ElevatorState`, the
inertia, the two timers) and the requests, named as in the code, and returns the
elevator and the buttons to clear.  `Controller` runs them for one elevator.
`elev` holds the `ElevatorState`, the inertia and the two timers; `orders` is
what `ToBoolTable` yields for this node.  A step is `Sample` (the inputs and
`SyncPeers`) and then one action per branch of `ElevatorNode::Step`
(`EmergencyStop`, `EmergencyStopReset`, `FloorArrival`, `TableUpdate`,
`DoorTimeout`, `FloorTimeout`, `NoEvent`), with the side effects of the
conditions that were evaluated before it.  In between the cabin moves
by half a floor, orders come and go, timers expire and the obstruction switch
changes.  The cabin stays at a position for at least a full step (a step is
40 ms, passing a sensor takes several times that), which `seen` keeps track of;
it may still leave between the sampling and the handling of a later step.

### ElevatorNode

The variables of `HallOrders` and `cars[n]`: the elevator, the snapshot
(`requests`, `prevRequests`), the cabin, the lamps as the node remembers them
(`lit`) and as the panel shows them (`lamps`).

| Action | Code |
|---|---|
| `SyncAndStep(n)` | `ElevatorNode::Step` up to `SetButtonLamps`: `Step(n)` of `HallOrders`, and the snapshot that was taken of the orders *before* `Peers::Step` changed them |
| `HandleEvent(n)`, `HandleNothing(n)` | the dispatch, `Event`, `ClearOrders`: the handler decides on the snapshot, `Serve` of `HallOrders` clears in the orders of now |
| `Network(n)` | transmitter, receiver, lost contact, timers of `HallOrders` |
| `Move`, `MotorFails`, `DoorTimerExpires`, `FloorTimerExpires` | the cabin, which is external, and time |
| `CrashWithCar`, `RestartWithCar` | the process dies and the elevator server stops the motor; `Init` lets the cabin down to a floor; nobody resets the lamps |

What `HallOrders` leaves to chance (which orders are served, who is at fault) is here
what the handlers do, and what `Controller` leaves to chance (which orders come and
go) is what the group does.  A motor may fail for good; the floor timer expires only
then, since `kFaultTimeoutMs` is longer than a working cabin takes to the next floor.
Cab calls, the stop button and the obstruction switch stay with `CabOrders` and
`Controller`.

### HallCall and its refinements

`HallCall` is what somebody who presses a button may expect: the call is noted,
accepted, answered, in this order, and an answered call does not come back.
`HallCallRefinement` reads the state of a call off the *leading* copy, of all that are
held or in flight the one with the highest version and status.  A merge never overtakes
it, so only a node that is up to date moves the call on; that stale copies do
not make two calls out of one is the question.

It is claimed of a group of at least two nodes in which nothing fails and no order
timer fires (`InTime`; `NothingFails` with cabins).  A lone node notes and accepts a
call in one step.  With failures the claim is false, see the hazard at
ordersync.cpp:64.  With a late order it is false too: two nodes confirm the same request
in one round; one of them serves it, and its button is pressed again; the other, whose
timer fires before it hears of the service, reassigns the old confirmation to itself and
clears it, and this cleared copy reaches the version of the new request and wins.  In
the code the timer takes 25 s (config.hpp:18) and the disagreement lasts until the next
packet, so that this needs a packet as late as that; the model has no clock that rules
it out.  TLC finds it with three presses in `HallOrders`.

`CallEndsAtDoor`, in the composition, says what an answer is: an accepted call is over
in a step in which a cabin stands at the floor with its door open.

### Membership

One peer and one node that observes it, in discrete time.  `Tick` is a unit of time;
it waits for what the code does periodically (a step at least every `SampleTime`, a
packet at least every `TxTime`), and drops packets older than `Delay`.  `MaxLoss` bounds
the packets lost *in a row*: `budget.loss` is full again when the observer receives one
(`NewRow`), and whatever was sent no later than that one is a loss no more (`Arrived`).
How many are lost in all is not bounded.  The peer
counts its version from 1 in every life (`Restart`, `Start`, `PeerStep`); the observer
adopts newer states only, restarts the watchdog for any packet, and forgets the version
when the watchdog fires (`Rx`, `ObserverStep`).

### CostFunction

The sum of `CalculateElevatorCosts` in two parts, what an elevator has to do (`Effort`)
and what is wrong with it (`Trouble`), and the sorted array as the relation `Before`.
It has no behaviour of its own and is in no run; it is there for its proof.

## 3. Runs

| Run | Question | Instance |
|---|---|---|
| `hall_safety` | do activity and watchdogs stay together, do copies only grow, is the assertion or the `Abort` of a reassignment ever reached | 2 nodes, 1 button; either a crash, a restart, lost contact and a late order, or a fault and lost contact; versions up to 6 |
| `node` | is a call answered, cleared only where it was answered, and its lamp put out; do requests get past the barrier and the nodes agree | 2 nodes with cabins, 2 floors, 1 button, versions up to 7, one kind of trouble at a time |
| `hall_takeover` | does an order leave the one elevator that died; does a lonely node keep only its own orders | 3 nodes, started after a takeover, with one node dead and no further crash |
| `hall_call` | do all copies together behave like one call, and does it end only at an open door | 2 nodes with cabins, 2 floors, 2 presses, versions up to 9, nothing fails and no order is late |
| `hall_barrier` | *violated*: a marked node has seen the request | 2 nodes, 2 presses, no failures |
| `cab_restore` | is the order the owner's until it crashes, does the call return after a restart, do the backups follow | 3 nodes, 2 presses, a crash of the owner, a crash of a peer, a restart, versions up to 6 |
| `cab_restart` | *violated*: a confirmed cab call goes only by being served | 3 nodes, 3 presses, a crash and a restart of the owner, versions up to 8 |
| `controller_safety` | door, motor, position and clearing | 3 floors, 2 orders, a withdrawal, an obstruction, 2 stop presses |
| `controller_live` | is every order served, does the door close | 3 floors, 3 orders, an obstruction while the door stands open |
| `controller_idle` | *violated*: an idle elevator goes to its order | 3 floors, 1 order, an obstruction at any time |
| `controller_door` | *violated*: the door stays closed between floors | 3 floors, a stop press and a withdrawal |
| `membership` | is the start-up time long enough, does an old state ever shadow a running node, is a node that works seen as active | watchdog 6, delay 2, step and packet 1; 2 crashes, 2 losses in a row, versions up to 5 |

**Bounds.** Two nodes are enough for every interleaving of a copy, a stale
packet of it and a concurrent decision; `TwoNodes` is {0, 3} so that the loops
run over elevators that do not exist, as in a building with fewer than four.
Three nodes are needed for a takeover by a third; `hall_takeover` starts in the
middle of one, in a state described in `MCHallOrders`, since the way there from
`Init` is out of TLC's reach.  The version bounds let an order live through a
request, a confirmation, one or more reassignments, a clear and a second request
where two presses are allowed; in `CabOrders` a call and its answer take four
versions, so six are a served call and a second one, in the former life or the new.
Three nodes are needed there for two backups of different age.  The bounds of `Budget`
limit only what the environment does.  Hall orders do not influence each other in
`Peers`, hence one button.  Three floors have both ends and a floor with both hall
buttons between; `kFloors` appears nowhere else in the decisions.  No symmetry is
used: the identities decide ties.

`node` starts from five situations (`GroupInit`), each with its own trouble: a quiet
group in which a node may die and a motor fail, a quiet group with an order that is
late, a button pressed at both elevators in the same round, and a group with a dead
node that is restarted, with and without an order waiting for it.  Two floors make a
cabin travel, arrive and be found at or between floors; what more floors add is in
the `controller` runs, and any trouble of the orders at once in `hall_safety`.

`hall_call` starts from a quiet group with each cabin at any floor.  Two presses are two
lives of the order, so packets of the first meet the second; all versions stay below 9,
so that the bound on them cuts nothing off.  More presses, nodes, buttons and floors are what the
theorems `CallsAreKept` and `NodesKeepCalls` add.

`MaxInFlight` is one in the runs of hall orders: of each sender one packet at a time is
on its way, which may be late, lost and repeated.  In `cab_restore` it is two, so that
packets of one sender overtake each other; for the hall orders that case is covered by
the proofs, which hold for any number.

`membership` measures time in units of 100 ms: a watchdog of 600 ms, packets and steps
at least every 100 ms (50 and 40 in the code), packets late by up to 200 ms.

**Fairness.** The control thread and the transmitter run periodically
(main.cpp:54, 85), a packet that keeps being sent keeps being received, time
passes for the watchdog of a node that is dead and for the door timer, a motor that
runs and has not failed moves the cabin, and the floor timer expires when it has
failed.  The obstruction switch is released some time; without that `DoorCloses`
would be false, rightly.  Not assumed: that an elevator in `HallOrders` serves an
order, that a motor fails or works again, that anybody restarts a node or presses a
button, that an order timer expires.  In the bounded runs the last failure is followed
by a quiet time; that is what liveness is about here.

**The liveness of a call.** `CallServed` follows a call from the button to the open
door, wherever in the group it is served.  It is stated of a node that runs and knows
the latest copy (`Fresh`): of a call that was overwritten by a later life of the order
it is not true, see the hazard at ordersync.cpp:64.  An order for an elevator that was
written off before the order came is handed on by nobody (peers.cpp:319);
`StrandedServed` says what becomes of it: its elevator learns of it when it is
restarted, from a peer that had written it off, and serves it.  `DeadAssigneeReplaced`
is checked with one death only, for the same reason.

A node whose order is at `MaxVersion` is stuck in the model, and not in the code.
Fairness on `PhaseMoves` leaves such behaviours out of the liveness runs, which
therefore speak of orders that stay below the bound.

**What the violated runs show.** See `findings` in `PROJECT.json`:

1. `hall_barrier`: a copy of equal version from the previous life of an order
   leaks its marks into a new request (ordersync.cpp:73), so the barrier of
   `ObservedByAll` can be passed without the peer.
2. `controller_idle`: an elevator that is idle with the obstruction switch set
   uses up the table update and stays (controller.cpp:118).  `controller_live`
   holds because there the switch is set only while the door is open.
3. `controller_door`: `Floor()` never is `kBetweenFloors`, so the guard before
   `OpenDoor` does not keep the door closed between floors (controller.cpp:111).
4. `cab_restart`: after a restart the versions of a cab order begin at zero again, so
   a call made before the first packet of a peer loses against the backup of an order
   that was answered before the crash (elevator_node.cpp:104).  `CallReturns` is for
   that reason stated of a call that the latest backup still holds.

The emergency stop also voids `DoorOpenAtFloor`, `NotDrivenIntoEnd` and
`ServedAtFloor`; they are stated for as long as the stop button is not used.
`DoorOpenMeansStill` holds with it.  A restarted node takes every lamp of its panel
to be out (elevator_node.cpp:193), so one that its former life lit may stay alight;
`LampGoesOut` speaks of the lamps the running process has lit.

## 4. Proofs

All theorems hold for every value of the constants that the named assumptions
allow: any group of nodes out of 0..3, any finite set of hall buttons, any
number of floors above one, any bounds.  `NodesAssumption`, `HallAssumption` and their
like stand in the modules that declare the constants; TLC evaluates them in the runs.

* **OrderProofs.** Up to what nobody reads (the assignee of an order that is not
  confirmed), `OnUpdate` is the join of the order `Leq`: `MergeIsUpperBound`,
  `MergeIsLeast`, hence `MergeCommutes`, `MergeAssociates`, `MergeAbsorbs`.  This
  is why loss, repetition and reordering of packets cannot make copies diverge.
* **HallOrdersProofs.** The inductive invariant `IInv` consists of the types, of
  `NeverAborts`, and of
  - `WatchdogInv`: in a running node a peer is active exactly while its watchdog
    runs, and a node that is down has neither;
  - `CopiesOK`, `PacketsOK`: a confirmed copy, held or in flight, names an
    elevator of the group, an active one in what is sent;
  - `TimerInv`: when the timer of a confirmed order runs, the order is the node's
    own, or another elevator is active (a packet may have taken the order away since
    the last step, and its sender is active).

  `NeverAborts` is not inductive: that the `Abort` at peers.cpp:280 is not reached
  needs an active candidate, which needs `WatchdogInv`; that the assertion at 232
  holds needs `CopiesOK`, which needs `PacketsOK` for what `Rx` merges.  The proof
  goes through `PeersStep` loop by loop (one lemma each) and then action by action.
  From `IInv` follow `TypeCorrect`, `NoAbort`, `ConfirmedIsAssigned`,
  `ActiveIsGuarded` and `AloneReassignsToSelf`; `CopiesOnlyGrow` is proved from
  `IInv` and the lemmas of `OrderProofs`.

  `CallsAreKept` is the refinement of `HallCall`, for any number of nodes, presses
  and packets.  That the copies of one version may differ (one node confirms what another
  resets) makes it hard; what holds instead is the *history* of an order
  (`History` in `OrderProofs`): every version up to the latest has a kind (at rest,
  asked for, given, served), the kinds follow each other in the order of a call, and each
  copy, held or in flight, suits the kind of its version.  An "ask" is
  followed by "given" or "served", but by one of them only, and what decides that
  once and for all is the barrier: a node that confirmed is missing from the masks of
  all copies that still ask (`Blocked`), or no node is left that could confirm
  (`Granted`).  `MoveKept` shows that any move of one node keeps such a
  history and moves the call as `HallCall` allows, and `AnsweredBy` that a call
  ends only by the clear of a node that has the latest copy; `QuietNext` shows that every
  action of a group in time is such a move.  `QuietInv` says that all nodes stay active
  and no timer is due.  The barrier violated in `hall_barrier` does no harm
  here: `Marked` holds where the kind is "ask".
* **CabOrdersProofs.** `OwnerDecides` needs that no copy anywhere is later than what
  the owner has.  The invariant says so for the first life of the owner
  (`OwnerLeads`: a backup or a packet is at most as late as `cab` in `Leq`), and adds
  that the owner's backup equals `cab` whenever the mutex is free and that every copy
  is `None` or `Confirmed` (`AllSettled`), so that serving changes a confirmed order
  only.  `StaleCopyIgnored` then concludes that no merge changes the order.
  It gives `TypeCorrect` and `OwnerAloneDecides`.
* **FsmProofs.** What every handler preserves of an elevator, whoever runs it.  `Sound`:
  only a moving elevator runs its motor, and a moving elevator has its door closed, the
  stop button in use.  `Steers`, of an elevator that is not stopped (`Ready`): its
  motor starts only towards a request, the inertia is the direction of the motor, and what
  is cleared is cleared with the door open.  `Timely`, of one that is not
  at fault and whose floor timer is not due: it stays so.  Only lemmas, used by the next
  two:
* **ControllerProofs.** `Sound` gives `TypeCorrect` and `NeverDrivesWithDoorOpen`.
  `Known` adds, as long as the stop button is unused, where the cabin is: at the last
  floor unless it is moving, on the side of it to which the motor runs, and never at the
  end of the shaft with the motor running outwards once the step there is handled.
  `IInv /\ Tracked` is inductive and gives `DoorOpensAtFloorOnly`, `NeverDrivesIntoEnd`
  and `ClearedOnlyWhenServed`.  The safety stop at controller.cpp:131, which compares
  with `kFloors`, contributes nothing at the top: what keeps the cabin in the shaft is
  `ShouldStop`.
* **ElevatorNodeProofs.** `NodeInv` is `IInv` of `HallOrdersProofs` and `CarsOK`: each
  cabin is `Sound`, and a running node knows where its cabin is (`Tracked`).  The actions
  are those of `HallOrders` joined to a cabin, so the first half follows from the lemmas
  of `HallOrdersProofs`, the second from those of `FsmProofs`.  It gives
  `NodeTypeCorrect`, `NodesNeverAbort`, `NodesGuardPeers` and `NodesCopiesGrow` (what
  holds of the shared orders survives the composition), `DoorsOpenAtFloors`, and
  `ClearedWhenAnswered`: for any building and group, an order is cleared
  by the node it is assigned to *at that moment*, with the cabin at the floor and the door
  open, although the handler decided on an older snapshot.

  When nothing fails (`NothingFails`), no floor timer comes due and no elevator is ever
  at fault (`TimelyCars`), so every step of a node with its cabin is a step of
  `HallOrders` in time, and `QuietNodeInv` carries `CallsInv` over: `NodesKeepCalls` is
  the refinement of `HallCall` by the whole, and `CallsEndAtDoors` joins `AnsweredBy`, by
  which only the clear of a node with the latest copy ends a call, to
  `ClearedWhenAnswered`, by which that node's door is open at the floor.
* **MembershipProofs.** The invariant bounds the age of what a former life has left by the
  time the new one has been asleep (`StartInv`), and says that no version known or in
  flight exceeds that of a running node (`RunInv`).  From `Delay + SampleTime <
  kWatchdogTime` follows `StartupTimeSuffices`, the guard of `HallOrders!Restart`, and
  `NewLifeIsHeard`.  `WorkingNodeIsSeen` needs an account of every silence (`SeenInv`):
  one packet per `TxTime` was sent in it, and each is still on its way or was lost at the
  cost of `budget.loss`, at most `MaxLoss` of them since the last one that arrived, which
  for any age t bounds what is older (`Explained`).  A packet that arrives begins a new
  silence and a new row of losses, so they never add up over a behaviour.
* **CostFunctionProofs.** `Effort` is at most 99 in a building of up to five floors
  (`kFloors` is 4), so less than any penalty; counting the elevators that come before one
  in the sorted array then is a ranking that `HallOrders!Costs` contains, and the first
  of any set of active elevators is its `Cheapest` (`CostsAreRanked`).  With six floors
  the sum may exceed 100, and an elevator with many orders would lose to one that is
  obstructed.

Model-checked only: the liveness properties (`CallServed`, `StrandedServed`,
`LampGoesOut`, `RequestsConfirmed`, `DeadAssigneeReplaced`, `EventuallyAgree`,
`CallReturns`, `BackupsCatchUp`, `OrdersServed`, `DoorCloses`), which are beyond this
prover.  Every invariant, action property and refinement that a passing run checks is
also proved.

## 5. What is not modelled

* The **hardware driver**: one TCP exchange per call, which decides nothing; its results
  are the inputs of `Controller` and `ElevatorNode`.  Its failures (a server that does not
  answer blocks the control thread while the transmitter keeps the node alive to its
  peers; a closed connection leaves the reply uninitialized) are hazards without a
  property: the code makes no promise there that could be checked.
* **Sockets and the validation of packets**, **argument parsing**, **printing**: input
  and output.  The **orderly shutdown** looks like a crash to every other node.
* The **lamps** of the cab buttons (same loop and table as those of the hall buttons), of
  the door and the stop button, and the floor indicator, which is set once.
* A **stop button held down, or a door obstructed, while the node starts**.
* `OnRevoke`, `SetAssignedId`, `ShouldClearImmediately` (no caller outside the tests).

Known limits of what is modelled are notes on the hazards: the refinement fails when
faults, partitions or late orders let branches of an order grow apart, an order merged
after a watchdog has fired stays with the dead elevator until it returns, and an order
timer that comes due late hands on an order that is no longer this node's.  After the stop
button was used nothing is claimed of where the cabin is, nor of what answers an order:
the reset drives in the last direction even at the end of the shaft (controller.cpp:81),
and a door that closes while the elevator is stopped leaves the state `DoorOpen`, in
which the next call at that floor is cleared with the door shut (controller.cpp:99).

## 6. Plan

Done: `Order`, `HallOrders` with `HallCall`, `CabOrders`, `Fsm` and `Controller`,
`Membership`, `CostFunction`, `ElevatorNode` with its refinement, and their proofs.  Worth doing next:

1. The stop button and the obstruction switch in `ElevatorNode`: an obstructed elevator
   shortens its order timer (peers.cpp:372) and gives its orders away in time.
2. `ElevatorNode` with three nodes and a state after a takeover, as `hall_takeover`.
3. What is left of `HallCall` when elevators fail: which calls may be lost, stated as a
   weaker abstract specification, and proved.
4. That each cabin of `ElevatorNode` implements `Controller`, with the group in the place
   of its environment.
5. A driver module for the connection to the elevator server, once the code says what is
   to happen when it is lost.
