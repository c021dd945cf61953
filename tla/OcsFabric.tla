------------------------------- MODULE OcsFabric -------------------------------
(***************************************************************************)
(* The optical fabric as a whole: the controller of OcsSchedule, the       *)
(* MultiChannelDevice uplink of every ToR, the fibres, the forwarding of   *)
(* the optical switch (Ipv4OcsRouting::RouteInput) and its output ports,   *)
(* all driven by the event list of the simulator.                          *)
(*                                                                         *)
(* A packet enters when the routing of a ToR decides for the optical path, *)
(* which it may do at any time for a ToR of its window; the packets it     *)
(* leaves to the electrical network are not modelled here.  A packet that  *)
(* reaches its ToR goes on to a host.                                      *)
(***************************************************************************)
EXTENDS MultiChannelDevice, EventList

CONSTANTS
    N, Interval, ReConfigurable, FinishTime,    \* as in OcsSchedule
    TxTime,         \* transmission time of a packet
    Delay,          \* propagation delay of a fibre
    Senders,        \* the ToRs whose hosts send
    MaxPackets      \* bound: packets sent

Tor == 0 .. N - 1
Packet == [src : Tor, dst : Tor, id : 1 .. MaxPackets]

(***************************************************************************)
(* The last transmission of a day reaches the switch before the night is   *)
(* over.  The drivers use 20 us nights, 8 us fibres and 80 Gbps.  The rest *)
(* is that of OcsSchedule.                                                 *)
(***************************************************************************)
ASSUME FabricAssumption ==
    /\ N \in Nat /\ Q <= N - 1
    /\ Interval \in Nat /\ ReConfigurable \in Nat /\ FinishTime \in Nat
    /\ TxTime \in Nat \ {0} /\ Delay \in Nat
    /\ TxTime + Delay <= ReConfigurable
    /\ Senders \subseteq Tor
    /\ MaxPackets \in Nat
    /\ NoPacket \notin Packet

VARIABLES
    set_index, rounds, devicesMap, atnight, ocs_dest_addr,
    working_queue_index,    \* as in OcsSchedule
    dev,        \* the uplink of each ToR
    port,       \* the port of the switch towards each ToR
    events,     \* the event list
    sends,      \* packets sent so far
    fate        \* history: what became of each of them

ctlVars == <<set_index, rounds, devicesMap, atnight, ocs_dest_addr,
             working_queue_index>>
vars == <<ctlVars, dev, port, events, sends, fate>>

Fates == {"none", "pending", "delivered", "flushed", "refused",
          "dropped at night", "dropped: no circuit", "dropped at port"}

(* Events carry the ToR or switch port they run at and, for arrivals, the  *)
(* packet.                                                                 *)
CtlEvent(kind) == [kind |-> kind, at |-> -1, packet |-> NoPacket]
DevEvent(kind, i) == [kind |-> kind, at |-> i, packet |-> NoPacket]
Arrival(kind, i, p) == [kind |-> kind, at |-> i, packet |-> p]

CtlKinds == {"Initialize", "SetNight", "SetRoutings"}
CtlScheduled ==
    {events[n].what.kind : n \in DOMAIN events} \cap CtlKinds

Port == INSTANCE PointToPointPort

Ctl == INSTANCE OcsSchedule WITH
    event <- IF CtlScheduled = {} THEN "none"
             ELSE CHOOSE k \in CtlScheduled : TRUE,
    working <- [i \in Tor |-> dev[i].working],
    working_queue_idx <- [i \in Tor |-> dev[i].queue]
-------------------------------------------------------------------------------
Crashed == \E i \in Tor : dev[i].crashed \/ port[i].crashed

NextIs(kind) ==
    /\ ~Crashed
    /\ HasDue(events)
    /\ NextEvent(events).kind = kind

(* The events of a transmission: its completion at the sender, then the    *)
(* arrival at the other end.                                               *)
Transmission(list, i, p, completion, arrival) ==
    IF p = NoPacket THEN list
    ELSE Schedule(Schedule(list, TxTime, DevEvent(completion, i)),
                  TxTime + Delay, Arrival(arrival, i, p))
FromUplink(list, i, p) ==
    Transmission(list, i, p, "UplinkComplete", "ArriveAtSwitch")
FromPort(list, j, p) ==
    Transmission(list, j, p, "PortComplete", "ArriveAtTor")

Init ==
    /\ dev = [i \in Tor |-> NewDevice]
    /\ port = [i \in Tor |-> Port!New]
    /\ events = Schedule(<<>>, 0, CtlEvent("Initialize"))
    /\ Ctl!Init
    /\ sends = 0
    /\ fate = [n \in 1 .. MaxPackets |-> "none"]

(* The events of the transmissions that start at dawn, in the order of the *)
(* ports.                                                                  *)
DawnEvents(list, result) ==
    LET after[n \in 0 .. N] ==
            IF n = 0 THEN list
            ELSE FromUplink(after[n - 1], n - 1, result[n - 1].sent)
    IN  after[N]

(* BeginWork on every uplink, then the event of the next night; nothing    *)
(* after finishtime.                                                       *)
StartDay ==
    LET list == RemoveNext(events)
        result == [i \in Tor |-> BeginWork(dev[i])] IN
    IF Ctl!Now(rounds) >= FinishTime
    THEN events' = list /\ UNCHANGED dev
    ELSE /\ dev' = [i \in Tor |-> result[i].device]
         /\ events' =
              Schedule(DawnEvents(list, result), Interval,
                       CtlEvent("SetNight"))

(* The call the driver makes, once, before it runs the simulator.          *)
Initialize ==
    /\ NextIs("Initialize")
    /\ rounds = 0
    /\ StartDay
    /\ Ctl!Initialize
    /\ UNCHANGED <<port, sends, fate>>

SetRoutings ==
    /\ NextIs("SetRoutings")
    /\ StartDay
    /\ Ctl!SetRoutings
    /\ UNCHANGED <<port, sends, fate>>

(* BeginConfig, SetWorkingQueue and IntoNight on every ToR.                *)
SetNight ==
    /\ NextIs("SetNight")
    /\ dev' = [i \in Tor |->
                 IntoNight(SetWorkingQueue(dev[i], Ctl!NextQueue(i)))]
    /\ events' = Schedule(RemoveNext(events), ReConfigurable,
                          CtlEvent("SetRoutings"))
    /\ Ctl!SetNight
    /\ fate' = [n \in DOMAIN fate |->
                  IF \E i \in Tor : \E p \in Queued(dev[i]) \ Queued(dev'[i]) :
                         p.id = n
                  THEN "flushed" ELSE fate[n]]
    /\ UNCHANGED <<port, sends>>

(* Ipv4EpsRouting::GetQueueIdx: the first slot that names the destination. *)
GetQueueIdx(i, j) ==
    {k \in Slot : /\ ocs_dest_addr[i][k] = j
                  /\ \A l \in 0 .. k - 1 : ocs_dest_addr[i][l] # j}

(* RouteInput of the ToR's routing takes the optical path: a destination   *)
(* in the window, the packet tagged with its slot and sent.                *)
SendOptical(i, j) ==
    /\ ~Crashed
    /\ rounds > 0
    /\ sends < MaxPackets
    /\ \E k \in GetQueueIdx(i, j) :
          LET p == [src |-> i, dst |-> j, id |-> sends + 1]
              result == Send(dev[i], p, k)
              kept == p \in Queued(result.device) \/ result.sent = p IN
          /\ dev' = [dev EXCEPT ![i] = result.device]
          /\ events' = FromUplink(events, i, result.sent)
          /\ fate' = [fate EXCEPT
                        ![p.id] = IF kept THEN "pending" ELSE "refused"]
    /\ sends' = sends + 1
    /\ UNCHANGED <<ctlVars, port>>

UplinkComplete ==
    /\ NextIs("UplinkComplete")
    /\ LET i == NextEvent(events).at
           result == TransmitComplete(dev[i]) IN
       /\ dev' = [dev EXCEPT ![i] = result.device]
       /\ events' = FromUplink(RemoveNext(events), i, result.sent)
    /\ UNCHANGED <<ctlVars, port, sends, fate>>

(* Ipv4OcsRouting::RouteInput: no forwarding at night, and only from an    *)
(* input to the output it is matched with.                                 *)
Forwards(i, p) == ~atnight /\ devicesMap[i] = p.dst

ArriveAtSwitch ==
    /\ NextIs("ArriveAtSwitch")
    /\ LET i == NextEvent(events).at
           p == NextEvent(events).packet
           j == p.dst
           result == Port!Send(port[j], p) IN
       \/ /\ Forwards(i, p)
          /\ port' = [port EXCEPT ![j] = result.device]
          /\ events' = FromPort(RemoveNext(events), j, result.sent)
          /\ fate' = IF result.ok THEN fate
                     ELSE [fate EXCEPT ![p.id] = "dropped at port"]
       \/ /\ ~Forwards(i, p)
          /\ fate' = [fate EXCEPT
                        ![p.id] = IF atnight THEN "dropped at night"
                                  ELSE "dropped: no circuit"]
          /\ events' = RemoveNext(events)
          /\ UNCHANGED port
    /\ UNCHANGED <<ctlVars, dev, sends>>

PortComplete ==
    /\ NextIs("PortComplete")
    /\ LET j == NextEvent(events).at
           result == Port!TransmitComplete(port[j]) IN
       /\ port' = [port EXCEPT ![j] = result.device]
       /\ events' = FromPort(RemoveNext(events), j, result.sent)
    /\ UNCHANGED <<ctlVars, dev, sends, fate>>

ArriveAtTor ==
    /\ NextIs("ArriveAtTor")
    /\ fate' = [fate EXCEPT ![NextEvent(events).packet.id] = "delivered"]
    /\ events' = RemoveNext(events)
    /\ UNCHANGED <<ctlVars, dev, port, sends>>

Tick ==
    /\ ~Crashed
    /\ events # <<>>
    /\ ~HasDue(events)
    /\ events' = Elapse(events)
    /\ UNCHANGED <<ctlVars, dev, port, sends, fate>>

Simulator ==
    \/ Initialize \/ SetRoutings \/ SetNight
    \/ UplinkComplete \/ ArriveAtSwitch \/ PortComplete \/ ArriveAtTor
    \/ Tick

Next == Simulator \/ \E i \in Senders, j \in Tor : SendOptical(i, j)

Spec == Init /\ [][Next]_vars /\ WF_vars(Simulator)
-------------------------------------------------------------------------------
InFlight(kind) ==
    {n \in DOMAIN events : events[n].what.kind = kind}
Fibre(kind) == {events[n].what.packet : n \in InFlight(kind)}
InPort(j) == {port[j].queue[n] : n \in DOMAIN port[j].queue}

(* Types of everything the fabric adds to the controller; no assertion of  *)
(* an uplink or a port fails, no queue index is wrong.                     *)
TypeOK ==
    /\ ~Crashed
    /\ dev \in [Tor -> DeviceState(Packet)]
    /\ port \in [Tor -> Port!State(Packet)]
    /\ sends \in 0 .. MaxPackets
    /\ fate \in [1 .. MaxPackets -> Fates]
    /\ Cardinality(CtlScheduled) <= 1

(* Every packet in the k-th queue of a ToR is for the ToR that the k-th    *)
(* slot of its window names now.  The window changes in the routing, the   *)
(* queue is emptied in the device, and packets come in between.            *)
QueuePurity ==
    \A i \in Tor : \A k \in Slot : \A n \in DOMAIN dev[i].queues[k] :
        dev[i].queues[k][n].dst = ocs_dest_addr[i][k]

(* By day the switch never refuses a packet: all it loses are the tails of *)
(* days that reach it at night.                                            *)
NoCircuitMissed ==
    \A n \in DOMAIN fate : fate[n] # "dropped: no circuit"

(* The packets in and behind an output port came over one circuit, even    *)
(* across a reconfiguration: outputs are free of contention.               *)
CircuitExclusive ==
    \A j \in Tor : \A p, q \in InPort(j) \cup ({port[j].current} \ {NoPacket}) :
        p.src = q.src

(* The places where packet n is.                                           *)
Carrying(s, n) == {m \in DOMAIN s : s[m].id = n}
AtUplinks(n) ==
    UNION {{x} \X Carrying(dev[x[1]].queues[x[2]], n) : x \in Tor \X Slot}
AtPorts(n) == UNION {{j} \X Carrying(port[j].queue, n) : j \in Tor}
OnFibres(n) ==
    {m \in InFlight("ArriveAtSwitch") \cup InFlight("ArriveAtTor") :
        events[m].what.packet.id = n}

(* Every packet sent is in exactly one place: a queue of its uplink, a     *)
(* fibre, a port's queue, or its fate is settled.                          *)
OnePlace ==
    \A n \in 1 .. sends :
        Cardinality(AtUplinks(n)) + Cardinality(AtPorts(n))
            + Cardinality(OnFibres(n))
            = IF fate[n] = "pending" THEN 1 ELSE 0

InTransit ==
    (UNION {Queued(dev[i]) \cup InPort(i) : i \in Tor})
        \cup Fibre("ArriveAtSwitch") \cup Fibre("ArriveAtTor")

Channel == INSTANCE PairChannel WITH
    accepted <- sends,
    transit <- InTransit,
    delivered <- {n \in DOMAIN fate : fate[n] = "delivered"}

(* To the hosts the fabric is a channel per pair of ToRs that may lose     *)
(* packets but neither duplicates nor reorders them, although a packet     *)
(* passes two queues and a switch that is rewired under way.               *)
ImplementsChannel == Channel!Spec

Settled(n) == fate[n] \notin {"none", "pending"}
HasQDaysLeft(n) ==
    /\ fate[n] = "pending"
    /\ (rounds + Q) * (Interval + ReConfigurable) < FinishTime

(* A packet that is taken while Q whole days are left before finishtime    *)
(* does not stay in the fabric: it is delivered, flushed or dropped.       *)
PacketSettles == \A n \in 1 .. MaxPackets : HasQDaysLeft(n) ~> Settled(n)
===============================================================================
