--------------------------- MODULE PointToPointPort ----------------------------
(***************************************************************************)
(* PointToPointNetDevice, the base class the optical switch uses for its   *)
(* ports: one queue, served whenever the transmitter is free, day or       *)
(* night.  Operators from a port to a result, as in MultiChannelDevice.    *)
(***************************************************************************)
EXTENDS Integers, Sequences

CONSTANTS
    Capacity,   \* packets the queue holds
    NoPacket    \* a null Ptr<Packet>

State(Packet) ==
    [queue   : Seq(Packet),             \* m_queue
     machine : {"READY", "BUSY"},       \* m_txMachineState
     current : Packet \cup {NoPacket},  \* m_currentPkt
     crashed : BOOLEAN]                 \* an assertion failed

New == [queue |-> <<>>, machine |-> "READY", current |-> NoPacket,
            crashed |-> FALSE]

Result(d, p, ok) == [device |-> d, sent |-> p, ok |-> ok]

(* Dequeue and TransmitStart.                                              *)
Serve(d) ==
    Result([d EXCEPT !.queue = Tail(@), !.machine = "BUSY",
                         !.current = Head(d.queue)],
               Head(d.queue), TRUE)

(* PointToPointNetDevice::Send.                                            *)
Send(d, p) ==
    IF Len(d.queue) >= Capacity THEN Result(d, NoPacket, FALSE)
    ELSE LET e == [d EXCEPT !.queue = Append(@, p)] IN
         IF d.machine = "READY" THEN Serve(e)
         ELSE Result(e, NoPacket, TRUE)

(* PointToPointNetDevice::TransmitComplete.                                *)
TransmitCompleteNoNext(d) ==
    IF d.machine # "BUSY" \/ d.current = NoPacket
    THEN Result([d EXCEPT !.crashed = TRUE], NoPacket, FALSE)
    ELSE Result([d EXCEPT !.machine = "READY", !.current = NoPacket],
                NoPacket, TRUE)
TransmitComplete(d) ==
    IF d.machine # "BUSY" \/ d.current = NoPacket
    THEN Result([d EXCEPT !.crashed = TRUE], NoPacket, FALSE)
    ELSE LET e == [d EXCEPT !.machine = "READY", !.current = NoPacket] IN
         IF e.queue = <<>> THEN Result(e, NoPacket, TRUE)
         ELSE Serve(e)
===============================================================================
