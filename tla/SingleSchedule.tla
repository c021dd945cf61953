----------------------------- MODULE SingleSchedule -----------------------------
(***************************************************************************)
(* The single-queue variant of the network: the controller                 *)
(* SingleRouteSchedule, the routing Ipv4SingleEPSRouting of every ToR,     *)
(* which knows one destination instead of a window, and the uplinks, each  *)
(* with one queue.  There is no index of a working queue: what waits at    *)
(* dusk is thrown away, and the queue starts afresh for the next ToR.      *)
(*                                                                         *)
(* A packet is represented by the ToR it goes to; the packets the routing  *)
(* leaves to the electrical network are not modelled.                      *)
(***************************************************************************)
EXTENDS Integers, Sequences

CONSTANTS
    N, Interval, ReConfigurable, FinishTime,    \* as in OcsSchedule
    Capacity, NoPacket,                         \* as in MultiChannelDevice
    LeftSizes       \* values of OcsTag.leftsize a packet arrives with

Tor == 0 .. N - 1

ASSUME SingleAssumption ==
    /\ N \in Nat /\ N >= 2
    /\ Interval \in Nat /\ ReConfigurable \in Nat /\ FinishTime \in Nat
    /\ Capacity \in Nat
    /\ NoPacket \notin Tor
    /\ LeftSizes \subseteq Nat

SetNumbers == N - 1
NoAddress == -1     \* a default Ipv4Address

VARIABLES
    set_index, event, rounds,   \* SingleRouteSchedule, as in OcsSchedule
    devicesMap, atnight,        \* Ipv4OcsRouting
    ocs_dest_addr,              \* Ipv4SingleEPSRouting of each ToR
    dev                         \* the uplink of each ToR

ctlVars == <<set_index, event, rounds, devicesMap, atnight, ocs_dest_addr>>
vars == <<ctlVars, dev>>

Device == INSTANCE MultiChannelDevice WITH Q <- 1
-------------------------------------------------------------------------------
Matching(interval) == [i \in Tor |-> (i + interval) % N]
NextSetIndex == (set_index + 1) % SetNumbers

(* The new destination of ToR i; with a queue_number of 1 the wrap that    *)
(* skips i itself is never needed.                                         *)
LastAddrNoWrap(i, interval) == i + interval
LastAddrAlwaysSkips(i, interval) == (i + interval + 1) % N
LastAddr(i, interval) ==
    IF interval + 1 - 1 >= N
    THEN (i + interval + 1) % N
    ELSE (i + interval + 1 - 1) % N

Init ==
    /\ set_index = 0
    /\ event = "Initialize"
    /\ rounds = 0
    /\ devicesMap = [i \in {} |-> i]
    /\ atnight = FALSE
    /\ ocs_dest_addr = [i \in Tor |-> NoAddress]
    /\ dev = [i \in Tor |-> Device!NewDevice]

Now(r) == r * (Interval + ReConfigurable)

(* The body of SetRoutings, which Initialize also runs.                    *)
StartDay ==
    /\ rounds' = rounds + 1
    /\ \/ /\ Now(rounds) >= FinishTime
          /\ event' = "none"
          /\ UNCHANGED <<atnight, dev>>
       \/ /\ Now(rounds) < FinishTime
          /\ atnight' = FALSE
          /\ dev' = [i \in Tor |-> Device!BeginWork(dev[i]).device]
          /\ event' = "SetNight"

(* Initialize: the first address SetDestAddr gives a ToR is its successor. *)
Initialize ==
    /\ event = "Initialize"
    /\ ocs_dest_addr' = [i \in Tor |-> (i + 1) % N]
    /\ devicesMap' = Matching(set_index + 1)
    /\ set_index' = NextSetIndex
    /\ StartDay

(* SetRoutings, the event that ends a night.  The last transmission of a   *)
(* day is over by then (the drivers' nights are longer than a packet).     *)
SetRoutings ==
    /\ event = "SetRoutings"
    /\ \A i \in Tor : dev[i].machine = "READY"
    /\ StartDay
    /\ UNCHANGED <<set_index, devicesMap, ocs_dest_addr>>

(* SetNight, the event that ends a day: BeginConfig and IntoNight on every *)
(* ToR.                                                                    *)
SetNight ==
    LET interval == set_index + 1 IN
    /\ event = "SetNight"
    /\ devicesMap' = Matching(interval)
    /\ atnight' = TRUE
    /\ ocs_dest_addr' = [i \in Tor |-> LastAddr(i, interval)]
    /\ dev' = [i \in Tor |-> Device!IntoNight(dev[i])]
    /\ set_index' = NextSetIndex
    /\ event' = "SetRoutings"
    /\ UNCHANGED rounds

(* Ipv4SingleEPSRouting::RouteInput, for a packet of ToR i to ToR j with   *)
(* left_size still to come: long flows whose destination is the current    *)
(* one take the uplink; by night that is tomorrow's.                       *)
TakesCircuitAnyElephant(i, j, left_size) == left_size >= 500
TakesCircuit(i, j, left_size) ==
    /\ left_size >= 500
    /\ j = ocs_dest_addr[i]

RouteInput(i, j, left_size) ==
    /\ rounds > 0
    /\ TakesCircuit(i, j, left_size)
    /\ dev' = [dev EXCEPT ![i] = Device!Send(dev[i], j, 0).device]
    /\ UNCHANGED ctlVars

TransmitComplete(i) ==
    /\ dev[i].machine = "BUSY"
    /\ dev' = [dev EXCEPT ![i] = Device!TransmitComplete(dev[i]).device]
    /\ UNCHANGED ctlVars

Next ==
    \/ Initialize \/ SetRoutings \/ SetNight
    \/ \E i \in Tor : \/ TransmitComplete(i)
                      \/ \E j \in Tor, left_size \in LeftSizes :
                             RouteInput(i, j, left_size)

Spec == Init /\ [][Next]_vars
-------------------------------------------------------------------------------
Ready == event # "Initialize"

(* Types and ranges, the destination and the matching being set once       *)
(* Initialize has run.                                                     *)
TypeOK ==
    /\ set_index \in 0 .. SetNumbers - 1
    /\ event \in {"Initialize", "SetNight", "SetRoutings", "none"}
    /\ rounds \in Nat
    /\ devicesMap \in IF Ready THEN [Tor -> Tor] ELSE {[i \in {} |-> i]}
    /\ atnight \in BOOLEAN
    /\ ocs_dest_addr \in [Tor -> IF Ready THEN Tor ELSE {NoAddress}]
    /\ dev \in [Tor -> Device!DeviceState(Tor)]

(* What an uplink has for the ToR its circuit leads to.                    *)
CarriesOnly(d, j) ==
    /\ \A n \in DOMAIN d.queues[0] : d.queues[0][n] = j
    /\ d.working /\ d.current # NoPacket => d.current = j

(* Everything in the queue of an uplink is for the ToR the switch connects *)
(* it to, or will after this night, and so is what it transmits by day:    *)
(* the routing renames the destination, the device throws its queue away,  *)
(* the switch is rewired, and packets come before and after each.          *)
QueuedForCircuit ==
    Ready => \A i \in Tor : CarriesOnly(dev[i], devicesMap[i])

(* The interval whose matching is installed, see OcsSchedule.              *)
Current == IF set_index = 0 THEN N - 1 ELSE set_index

(* What QueuedForCircuit and the refinement rest on: the destination of a  *)
(* ToR is the one its circuit leads to, the uplinks serve their one queue, *)
(* and everything is as constructed before Initialize.                     *)
InstalledIsCurrent == Ready => devicesMap = Matching(Current)
DestinationIsCircuit == Ready => ocs_dest_addr = devicesMap
FreshUntilInitialize ==
    ~Ready => set_index = 0 /\ rounds = 0
                /\ dev = [i \in Tor |-> Device!NewDevice]
IInv ==
    /\ TypeOK
    /\ FreshUntilInitialize
    /\ InstalledIsCurrent
    /\ DestinationIsCircuit
    /\ QueuedForCircuit

(* The schedule of OcsSchedule with windows of one slot.                   *)
Schedule == INSTANCE OcsSchedule WITH
    Q <- 1,
    ocs_dest_addr <-
        [i \in Tor |-> IF Ready THEN [k \in 0 .. 0 |-> ocs_dest_addr[i]]
                       ELSE [k \in {} |-> k]],
    working_queue_index <- [i \in Tor |-> 0],
    working <- [i \in Tor |-> dev[i].working],
    working_queue_idx <- [i \in Tor |-> dev[i].queue]

(* The variant is the rotor controller with one queue: although it never   *)
(* moves a working queue and computes the address without a window, every  *)
(* step is a step of OcsSchedule, whatever packets do meanwhile.           *)
ImplementsSchedule == Schedule!Spec
===============================================================================
