-------------------------- MODULE MultiChannelDevice ---------------------------
(***************************************************************************)
(* MultiChannelPointToPointDevice, the optical uplink of a ToR: one queue  *)
(* per slot of the destination window, of which only the working one is    *)
(* served, and only by day.  Each handler of the class is an operator from *)
(* the device it is called on to a result:                                 *)
(*   device  the device afterwards,                                        *)
(*   sent    the packet whose transmission it started, or NoPacket,        *)
(*   ok      what the handler returns.                                     *)
(* A handler that starts a transmission schedules TransmitComplete and the *)
(* arrival at the other end; the modules that use these operators do so.   *)
(***************************************************************************)
EXTENDS Integers, Sequences

CONSTANTS
    Q,          \* queue_number
    Capacity,   \* packets a queue holds (MaxSize of DropTailQueue)
    NoPacket    \* a null Ptr<Packet>

ASSUME DeviceAssumption == Q \in Nat /\ Q >= 1 /\ Capacity \in Nat

Slot == 0 .. Q - 1

DeviceState(Packet) ==
    [queues  : [Slot -> Seq(Packet)],           \* multi_queues
     working : BOOLEAN,                         \* working
     queue   : Slot,                            \* working_queue_idx
     machine : {"READY", "BUSY"},               \* m_txMachineState
     current : Packet \cup {NoPacket},          \* m_currentPkt
     crashed : BOOLEAN]     \* an assertion failed or memory was corrupted

(* The constructor, after the helper has added the queues.                 *)
NewDevice ==
    [queues |-> [k \in Slot |-> <<>>], working |-> FALSE, queue |-> 0,
     machine |-> "READY", current |-> NoPacket, crashed |-> FALSE]

Result(d, p, ok) == [device |-> d, sent |-> p, ok |-> ok]
Crash(d) == Result([d EXCEPT !.crashed = TRUE], NoPacket, FALSE)

Queued(d) == UNION {{d.queues[k][n] : n \in DOMAIN d.queues[k]} : k \in Slot}
-------------------------------------------------------------------------------
(* TransmitStart; all its callers have made sure the machine is READY.     *)
TransmitStart(d, p) ==
    Result([d EXCEPT !.machine = "BUSY", !.current = p], p, TRUE)

(* Dequeue from the working queue and transmit, or do nothing.             *)
ServeWorkingQueuePeeks(d) ==
    IF d.queues[d.queue] = <<>>
    THEN Result(d, NoPacket, FALSE)
    ELSE TransmitStart(d, Head(d.queues[d.queue]))
ServeWorkingQueueNewest(d) ==
    LET q == d.queues[d.queue] IN
    IF q = <<>>
    THEN Result(d, NoPacket, FALSE)
    ELSE TransmitStart([d EXCEPT !.queues[d.queue] =
                                     SubSeq(q, 1, Len(q) - 1)],
                       q[Len(q)])
ServeWorkingQueue(d) ==
    IF d.queues[d.queue] = <<>>
    THEN Result(d, NoPacket, FALSE)
    ELSE TransmitStart([d EXCEPT !.queues[d.queue] = Tail(@)],
                       Head(d.queues[d.queue]))

(* Send, for a packet whose tag selects queue k.  A packet without a tag   *)
(* would index the queues with 65535; the routing tags what it sends here. *)
(* The link is never down.                                                 *)
SendUnbounded(d, p, k) ==
    LET e == [d EXCEPT !.queues[k] = Append(@, p)] IN
    IF d.working /\ d.machine = "READY" THEN ServeWorkingQueue(e)
    ELSE Result(e, NoPacket, TRUE)
Send(d, p, k) ==
    IF Len(d.queues[k]) >= Capacity THEN Result(d, NoPacket, FALSE)
    ELSE LET e == [d EXCEPT !.queues[k] = Append(@, p)] IN
         IF d.working /\ d.machine = "READY" THEN ServeWorkingQueue(e)
         ELSE Result(e, NoPacket, TRUE)

(* TransmitComplete: its two assertions, then the next packet by day.      *)
TransmitCompleteAtNight(d) ==
    IF d.machine # "BUSY" \/ d.current = NoPacket THEN Crash(d)
    ELSE ServeWorkingQueue([d EXCEPT !.machine = "READY",
                                     !.current = NoPacket])
TransmitCompleteStaysBusy(d) ==
    IF d.machine # "BUSY" \/ d.current = NoPacket THEN Crash(d)
    ELSE IF ~d.working THEN Result(d, NoPacket, TRUE)
    ELSE ServeWorkingQueue([d EXCEPT !.machine = "READY",
                                     !.current = NoPacket])
TransmitCompleteNoNext(d) ==
    IF d.machine # "BUSY" \/ d.current = NoPacket THEN Crash(d)
    ELSE Result([d EXCEPT !.machine = "READY", !.current = NoPacket],
                NoPacket, TRUE)
TransmitComplete(d) ==
    IF d.machine # "BUSY" \/ d.current = NoPacket THEN Crash(d)
    ELSE LET e == [d EXCEPT !.machine = "READY", !.current = NoPacket] IN
         IF d.working THEN ServeWorkingQueue(e)
         ELSE Result(e, NoPacket, TRUE)

(* BeginWork: resets the state machine whatever it was, then serves.       *)
BeginWorkIdle(d) ==
    Result([d EXCEPT !.working = TRUE, !.machine = "READY",
                     !.current = NoPacket], NoPacket, TRUE)
BeginWork(d) ==
    ServeWorkingQueue([d EXCEPT !.working = TRUE, !.machine = "READY",
                                !.current = NoPacket])

(* SetWorkingQueue.                                                        *)
SetWorkingQueue(d, k) == [d EXCEPT !.queue = k]

(* The queue IntoNight empties.  With one queue it is that queue, with     *)
(* more than four none; otherwise (working_queue_idx-1)%4, an unsigned     *)
(* subtraction that wraps at 2^32, a multiple of 4.                        *)
FlushedQueue(d) == IF Q = 1 THEN 0 ELSE (d.queue + 3) % 4

(* IntoNight.  With two or three queues the index may be out of range, and *)
(* the call goes to whatever is behind the vector.                         *)
IntoNightKeepsQueue(d) == [d EXCEPT !.working = FALSE]
IntoNightFlushesNext(d) ==
    LET e == [d EXCEPT !.working = FALSE] IN
    IF Q > 4 THEN e ELSE [e EXCEPT !.queues[d.queue] = <<>>]
IntoNight(d) ==
    LET e == [d EXCEPT !.working = FALSE] IN
    IF Q > 4 THEN e
    ELSE IF FlushedQueue(d) \notin Slot THEN Crash(e).device
    ELSE [e EXCEPT !.queues[FlushedQueue(d)] = <<>>]
===============================================================================
