--------------------------- MODULE FlowSizeQueueDisc ---------------------------
(***************************************************************************)
(* PFifoFlowSizeQueueDisc on top of a PointToPointNetDevice whose short    *)
(* queue is under flow control: the disc holds packets back in two bands   *)
(* by the size left of their flow, and hands them down while the device    *)
(* queue is not stopped.  The device stops its queue when another packet   *)
(* might not fit, and schedules a wake-up with every packet it takes out.  *)
(***************************************************************************)
EXTENDS Integers, Sequences

CONSTANTS
    MaxSize,        \* packets the disc accepts
    DeviceQueue,    \* packets the device queue holds
    FlowSizeThresh, \* flowsizethresh
    Quota,          \* m_quota: packets a run of the disc may move
    NoTag,          \* left of a packet without an OcsTag
    NoPacket

Band == {0, 1}

State(Packet) ==
    [bands   : [Band -> Seq(Packet)],       \* the two internal queues
     queue   : Seq(Packet),                 \* m_queue of the device
     stopped : BOOLEAN,                     \* m_stoppedByDevice
     wakes   : Nat,                         \* wake-ups scheduled, not yet run
     machine : {"READY", "BUSY"},           \* m_txMachineState
     current : Packet \cup {NoPacket}]      \* m_currentPkt

New == [bands |-> [b \in Band |-> <<>>], queue |-> <<>>, stopped |-> FALSE,
        wakes |-> 0, machine |-> "READY", current |-> NoPacket]

InBands(d) == UNION {{d.bands[b][n] : n \in DOMAIN d.bands[b]} : b \in Band}
InDevice(d) == {d.queue[n] : n \in DOMAIN d.queue}
Result(d, ok) == [device |-> d, ok |-> ok]
-------------------------------------------------------------------------------
(* The device takes the next packet for transmission, if it is READY and   *)
(* has one; the dequeue trace schedules a wake-up (PacketDequeued).        *)
DeviceServe(d) ==
    IF d.machine = "BUSY" \/ d.queue = <<>> THEN d
    ELSE [d EXCEPT !.queue = Tail(@), !.wakes = @ + 1,
                   !.machine = "BUSY", !.current = Head(d.queue)]

(* PointToPointNetDevice::Send with the enqueue trace (PacketEnqueued).    *)
DeviceSend(d, p) ==
    LET e == [d EXCEPT !.queue = Append(@, p),
                       !.stopped = @ \/ Len(d.queue) + 1 >= DeviceQueue] IN
    IF Len(d.queue) >= DeviceQueue THEN [d EXCEPT !.stopped = TRUE]
    ELSE DeviceServe(e)

(* QueueDisc::Restart: DoDequeue takes from the first band that holds a    *)
(* packet, which goes to the device.  A disc of one device queue never has *)
(* to put a packet back.                                                   *)
Restart(d) ==
    LET full == {b \in Band : d.bands[b] # <<>>} IN
    IF d.stopped \/ full = {} THEN d
    ELSE LET b == CHOOSE b \in full : \A c \in full : b <= c IN
         DeviceSend([d EXCEPT !.bands[b] = Tail(@)], Head(d.bands[b]))

(* QueueDisc::Run: Restart until the device stops, nothing is left or the  *)
(* quota is used up.  In that case, nothing schedules another run.         *)
Run(d) ==
    LET after[n \in 0 .. Quota] == IF n = 0 THEN d ELSE Restart(after[n - 1])
    IN after[Quota]

(* DoEnqueue: the tag is taken off the packet whatever the band is.        *)
BandOf(p) == IF p.left # NoTag /\ p.left > FlowSizeThresh THEN 1 ELSE 0
DoEnqueue(d, p) ==
    [d EXCEPT !.bands[BandOf(p)] = Append(@, [p EXCEPT !.left = NoTag])]

(* TrafficControlLayer::Send: Enqueue, then Run, also after a drop.        *)
Send(d, p) ==
    IF Len(d.bands[0]) + Len(d.bands[1]) >= MaxSize THEN Result(Run(d), FALSE)
    ELSE Result(Run(DoEnqueue(d, p)), TRUE)

TransmitComplete(d) ==
    DeviceServe([d EXCEPT !.machine = "READY", !.current = NoPacket])

(* The event PacketDequeued schedules: when there is room again, the queue *)
(* is no longer stopped, and the disc runs if it was (NetDeviceQueue::Wake).*)
WakeForgetsDisc(d) ==
    LET e == [d EXCEPT !.wakes = @ - 1] IN
    IF Len(d.queue) >= DeviceQueue THEN e ELSE [e EXCEPT !.stopped = FALSE]
Wake(d) ==
    LET e == [d EXCEPT !.wakes = @ - 1] IN
    IF Len(d.queue) >= DeviceQueue \/ ~d.stopped THEN e
    ELSE Run([e EXCEPT !.stopped = FALSE])
===============================================================================
