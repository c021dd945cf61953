-------------------------- MODULE MultiChannelUplink ---------------------------
(***************************************************************************)
(* One uplink between its routing, which calls Send at any time, and the   *)
(* controller, which calls SetWorkingQueue and IntoNight at the end of a   *)
(* day and BeginWork at the end of a night.  Time is counted in units; the *)
(* events of the device and of the controller are ordered by the event     *)
(* list of the simulator.                                                  *)
(***************************************************************************)
EXTENDS MultiChannelDevice, EventList

CONSTANTS
    DayLength, NightLength, \* the controller's two delays
    TxTime,                 \* transmission time of a packet
    MaxPackets              \* bound: calls of Send

(* A packet is the slot its tag names and its number in sending order.     *)
Packet == [slot : Slot, id : 1 .. MaxPackets]

ASSUME UplinkAssumption ==
    /\ DayLength \in Nat \ {0} /\ NightLength \in Nat \ {0}
    /\ TxTime \in Nat \ {0} /\ MaxPackets \in Nat
    /\ NoPacket \notin Packet

VARIABLES
    dev,        \* the device
    events,     \* the simulator's event list
    sends,      \* calls of Send so far
    lastSend    \* the last packet handed to Send and what Send returned

vars == <<dev, events, sends, lastSend>>

Init ==
    /\ dev = NewDevice
    /\ events = Schedule(<<>>, 0, "SetRoutings")
    /\ sends = 0
    /\ lastSend = [packet |-> NoPacket, ok |-> TRUE]

(* What a handler leaves, and the event of a transmission it started.      *)
Finish(list, result) ==
    /\ dev' = result.device
    /\ events' = IF result.sent = NoPacket THEN list
                 ELSE Schedule(list, TxTime, "TransmitComplete")

(* The next event is e and the program still runs.                         *)
Running(e) ==
    /\ ~dev.crashed
    /\ HasDue(events)
    /\ NextEvent(events) = e

SendPacket(k) ==
    LET p == [slot |-> k, id |-> sends + 1]
        result == Send(dev, p, k) IN
    /\ ~dev.crashed
    /\ sends < MaxPackets
    /\ Finish(events, result)
    /\ sends' = sends + 1
    /\ lastSend' = [packet |-> p, ok |-> result.ok]

DoTransmitComplete ==
    /\ Running("TransmitComplete")
    /\ Finish(RemoveNext(events), TransmitComplete(dev))
    /\ UNCHANGED <<sends, lastSend>>

DoBeginWork ==
    /\ Running("SetRoutings")
    /\ Finish(Schedule(RemoveNext(events), DayLength, "SetNight"),
              BeginWork(dev))
    /\ UNCHANGED <<sends, lastSend>>

DoIntoNight ==
    /\ Running("SetNight")
    /\ dev' = IntoNight(SetWorkingQueue(dev, (dev.queue + 1) % Q))
    /\ events' = Schedule(RemoveNext(events), NightLength, "SetRoutings")
    /\ UNCHANGED <<sends, lastSend>>

Tick ==
    /\ ~dev.crashed
    /\ ~HasDue(events)
    /\ events' = Elapse(events)
    /\ UNCHANGED <<dev, sends, lastSend>>

Simulator == DoTransmitComplete \/ DoBeginWork \/ DoIntoNight \/ Tick
Next == Simulator \/ \E k \in Slot : SendPacket(k)

(* Simulator::Run executes events as long as there are any, and the        *)
(* controller always schedules its next one.  Nothing is fair about Send.  *)
Spec == Init /\ [][Next]_vars /\ WF_vars(Simulator)
-------------------------------------------------------------------------------
(* Types of the device, of the event list and of the bookkeeping.  The     *)
(* program has not failed: neither assertion of TransmitComplete fails     *)
(* ("Must be BUSY if transmitting", MultiChannelPointToPoint.cc:121) and   *)
(* IntoNight finds the queue it empties.                                   *)
TypeOK ==
    /\ ~dev.crashed
    /\ dev \in DeviceState(Packet)
    /\ \A n \in DOMAIN events :
           /\ events[n].left \in
                  0 .. DayLength + NightLength + TxTime
           /\ events[n].what \in
                  {"SetRoutings", "SetNight", "TransmitComplete"}
    /\ sends \in 0 .. MaxPackets
    /\ lastSend.packet \in Packet \cup {NoPacket} /\ lastSend.ok \in BOOLEAN
    /\ \A k \in Slot : Len(dev.queues[k]) <= Capacity

(* Send, BeginWork and TransmitComplete together keep exactly one          *)
(* completion outstanding while the machine is BUSY and none while it is   *)
(* READY, although BeginWork forces the machine to READY: two packets are  *)
(* never on the wire at once.                                              *)
OneTransmission ==
    CountEvents(events, {"TransmitComplete"}) =
        IF dev.machine = "BUSY" THEN 1 ELSE 0

(* By day the uplink is idle only if the working queue is empty, whichever *)
(* of Send, BeginWork and TransmitComplete ran last.                       *)
WorkConserving ==
    dev.working /\ dev.machine = "READY" => dev.queues[dev.queue] = <<>>

(* No transmission starts at night: "when configuring, this device of TOR  *)
(* node does not work" (MultiChannelPointToPoint.h:82).                    *)
SilentAtNight ==
    [][dev'.current \notin {dev.current, NoPacket} => dev'.working]_vars

(* At the end of a day nothing stays in the queue that was served: its     *)
(* slot is about to stand for another ToR.                                 *)
ServedQueueFlushed ==
    [][dev.working /\ ~dev'.working => dev'.queues[dev.queue] = <<>>]_vars

(* Send returns whether it succeeded (net-device.h:247): a packet it       *)
(* refuses is not kept by the device.                                      *)
RefusedPacketNotKept ==
    ~lastSend.ok => lastSend.packet \notin Queued(dev)
===============================================================================
