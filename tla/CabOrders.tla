----------------------------- MODULE CabOrders -----------------------------
(***************************************************************************)
(* The cab order of one floor of one elevator, the Owner, and the backups  *)
(* of it that all nodes keep: the Cab column of orders_ and                *)
(* cab_button_orders_ of Peers, with their part of RxPacketProcessing.     *)
(*                                                                         *)
(* Nothing is persisted: an owner that crashes loses its cab orders, and   *)
(* when it returns it merges what its peers kept of them.  Floors and      *)
(* elevators are treated independently of each other, so one of each is    *)
(* enough.  Threads, network and crashes are those of HallOrders.          *)
(***************************************************************************)
EXTENDS Order, FiniteSets

CONSTANTS
    Nodes,          \* the elevators of the group, out of 0 .. kElevs - 1
    Owner,          \* the one whose cab order this is
    MaxInFlight,    \* packets of one sender in the network at a time
    MaxVersion,     \* no step takes the order beyond this version
    MaxPress,       \* bounds on the environment: presses of the cab button,
    MaxCrash,       \*   crashes of the owner,
    MaxPeerCrash,   \*   crashes of other nodes,
    MaxRestart      \*   restarts

ASSUME CabNodesAssumption == Nodes \subseteq ElevId /\ Owner \in Nodes
ASSUME CabBoundAssumption ==
    /\ MaxInFlight \in Nat \ {0}
    /\ MaxVersion \in Nat
    /\ {MaxPress, MaxCrash, MaxPeerCrash, MaxRestart} \subseteq Nat

VARIABLES
    phase,          \* phase[n]: where the process of n is
    cab,            \* the Cab order in the owner's orders_
    backup,         \* backup[n]: the owner's order in n's cab_button_orders_
    net,            \* the packets in the network
    budget          \* what the environment may still do

vars == <<phase, cab, backup, net, budget>>

Phase == {"down",       \* no process
          "starting",   \* initialised, before the first step and the network threads
          "running"}

(* What a packet says of this order, as far as its receivers read it: the  *)
(* owner's order from the owner, the backup from anybody else.             *)
Packet == [from : Nodes, copy : OrderRec]

Peers == Nodes \ {Owner}

Spend(what) == /\ budget[what] > 0
               /\ budget' = [budget EXCEPT ![what] = @ - 1]

-----------------------------------------------------------------------------
(* The owner's button and door change the order and its own backup alike. *)

PressedCab(o) == OnConfirm(OnRequest(o, Owner), Owner)

ServedCab(o) == OnReset(OnClear(o))

(* SyncButtonSignals, with the button pressed. *)
Press ==
    /\ phase[Owner] # "down"
    /\ PressedCab(cab).version <= MaxVersion
    /\ phase' = [phase EXCEPT ![Owner] = "running"]
    /\ cab' = PressedCab(cab)
    /\ backup' = [backup EXCEPT ![Owner] = PressedCab(@)]
    /\ Spend("press")
    /\ UNCHANGED net

(* The first step, without a press.  Later ones change nothing here. *)
FirstStep(n) ==
    /\ phase[n] = "starting"
    /\ phase' = [phase EXCEPT ![n] = "running"]
    /\ UNCHANGED <<cab, backup, net, budget>>

(* ClearOrders, when the door opens at this floor. *)
Serve ==
    /\ phase[Owner] = "running"
    /\ ServedCab(cab).version <= MaxVersion
    /\ cab' = ServedCab(cab)
    /\ backup' = [backup EXCEPT ![Owner] = ServedCab(@)]
    /\ UNCHANGED <<phase, net, budget>>

PacketOf(n) == [from |-> n, copy |-> IF n = Owner THEN cab ELSE backup[n]]

From(n) == {p \in net : p.from = n}

Tx(n) ==
    \E kept \in SUBSET From(n) :
        /\ phase[n] = "running"
        /\ Cardinality(kept \cup {PacketOf(n)}) <= MaxInFlight
        /\ net' = (net \ From(n)) \cup kept \cup {PacketOf(n)}
        /\ UNCHANGED <<phase, cab, backup, budget>>

(* RxPacketProcessing.  The owner merges a backup into its order and its   *)
(* own backup, a peer merges the owner's order into its backup.            *)
RestoreOverwrites(n, p) ==        \* mutant: the backup is taken as it is
    /\ backup' = [backup EXCEPT ![n] =
            IF n = Owner \/ p.from = Owner THEN OnUpdate(@, p.copy) ELSE @]
    /\ cab' = IF n = Owner THEN p.copy ELSE cab

RestoreBackupOnly(n, p) ==        \* mutant: the order is not restored
    /\ backup' = [backup EXCEPT ![n] =
            IF n = Owner \/ p.from = Owner THEN OnUpdate(@, p.copy) ELSE @]
    /\ cab' = cab

Preserve(n, p) ==
    /\ backup' = [backup EXCEPT ![n] =
            IF n = Owner \/ p.from = Owner THEN OnUpdate(@, p.copy) ELSE @]
    /\ cab' = IF n = Owner THEN OnUpdate(cab, p.copy) ELSE cab

Rx(n, m) ==
    \E p \in From(m) :
        /\ phase[n] = "running"
        /\ m # n
        /\ Preserve(n, p)
        /\ UNCHANGED <<phase, net, budget>>

-----------------------------------------------------------------------------
(* The environment. *)

Crash(n) ==
    /\ phase[n] # "down"
    /\ phase' = [phase EXCEPT ![n] = "down"]
    /\ cab' = IF n = Owner THEN DefaultOrder ELSE cab
    /\ backup' = [backup EXCEPT ![n] = DefaultOrder]
    /\ Spend(IF n = Owner THEN "crash" ELSE "peerCrash")
    /\ UNCHANGED net

(* The last packets of a dead node have reached whom they will reach. *)
LastPacketsGone(n) ==
    /\ phase[n] = "down"
    /\ net' = net \ From(n)
    /\ UNCHANGED <<phase, cab, backup, budget>>

(* A new process, and its Init, which lasts longer than any packet is on   *)
(* its way.                                                                *)
Restart(n) ==
    /\ phase[n] = "down"
    /\ From(n) = {}
    /\ phase' = [phase EXCEPT ![n] = "starting"]
    /\ Spend("restart")
    /\ UNCHANGED <<cab, backup, net>>

-----------------------------------------------------------------------------
Init ==
    /\ phase  = [n \in Nodes |-> "starting"]
    /\ cab    = DefaultOrder
    /\ backup = [n \in Nodes |-> DefaultOrder]
    /\ net    = {}
    /\ budget = [press |-> MaxPress, crash |-> MaxCrash,
                 peerCrash |-> MaxPeerCrash, restart |-> MaxRestart]

Next ==
    \/ Press
    \/ Serve
    \/ \E n \in Nodes :
        \/ FirstStep(n)
        \/ Tx(n)
        \/ \E m \in Nodes : Rx(n, m)
        \/ Crash(n)
        \/ LastPacketsGone(n)
        \/ Restart(n)

Spec == Init /\ [][Next]_vars

(* The threads run periodically and a packet that keeps being sent keeps   *)
(* being received.                                                         *)
Fairness ==
    /\ \A n \in Nodes : WF_vars(FirstStep(n)) /\ WF_vars(Tx(n)) /\ WF_vars(LastPacketsGone(n))
    /\ \A n, m \in Nodes : WF_vars(Rx(n, m))

FairSpec == Spec /\ Fairness

-----------------------------------------------------------------------------
(* Safety. *)

TypeOK ==
    /\ phase  \in [Nodes -> Phase]
    /\ cab    \in OrderRec
    /\ backup \in [Nodes -> OrderRec]
    /\ net    \in SUBSET Packet
    /\ budget \in [press : Nat, crash : Nat, peerCrash : Nat, restart : Nat]

FirstLife == budget.crash = MaxCrash

(* As long as the owner has not crashed, nothing but its own button and    *)
(* its own door changes its cab order: no backup, however stale, brings an *)
(* answered call back or takes a call away, whatever its peers go through. *)
OwnerDecides ==
    [][FirstLife /\ FirstLife' =>
            \/ cab' = cab
            \/ budget'.press < budget.press
            \/ cab.status = Confirmed /\ cab' = ServedCab(cab)]_vars

(* "Cab order preservation join": a call that the passenger has seen       *)
(* accepted goes only by being served, or with the process.                *)
CallPreserved ==
    [][cab.status = Confirmed =>
            \/ cab'.status = Confirmed
            \/ cab' = ServedCab(cab)
            \/ phase'[Owner] = "down"]_vars

-----------------------------------------------------------------------------
(* Liveness, under FairSpec. *)

Latest(o) == /\ \A n \in Nodes : backup[n].version <= o.version
             /\ \A p \in net : p.copy.version <= o.version

(* A call survives the crash of the owner in the memory of a peer: when    *)
(* the owner returns it takes the call up again.                           *)
CallReturns ==
    \A m \in Peers :
        (/\ phase[Owner] = "starting"
         /\ phase[m] = "running"
         /\ backup[m].status = Confirmed
         /\ Latest(backup[m]))
        ~> \/ cab.status = Confirmed
           \/ phase[Owner] = "down"
           \/ phase[m] = "down"

(* In the end every running peer backs up what the owner has. *)
BackupsCatchUp ==
    <>[](\A n \in Nodes :
            phase[Owner] = "running" /\ phase[n] = "running" => SameOrder(backup[n], cab))
=============================================================================
