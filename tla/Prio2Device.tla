------------------------------ MODULE Prio2Device ------------------------------
(***************************************************************************)
(* Prio2Device, the electrical uplink of a ToR: two queues, the first of   *)
(* which is served whenever it holds something.  A packet is queued by the *)
(* bytes its flow had left when it was sent (OcsTag).  Every handler is an *)
(* operator from the device to a result, as in MultiChannelDevice.         *)
(***************************************************************************)
EXTENDS Integers, Sequences

CONSTANTS
    Capacity,       \* packets each queue holds
    MiceThresh,     \* micethresh: at most so much left makes a mouse
    NoTag,          \* left of a packet without an OcsTag
    NoPacket

Class == {0, 1}     \* the two queues; the helper sets queue_number to 2

State(Packet) ==
    [queues  : [Class -> Seq(Packet)],      \* prio_queues
     machine : {"READY", "BUSY"},           \* m_txMachineState
     current : Packet \cup {NoPacket}]      \* m_currentPkt

New == [queues |-> [c \in Class |-> <<>>], machine |-> "READY",
        current |-> NoPacket]

Waiting(d) == UNION {{d.queues[c][n] : n \in DOMAIN d.queues[c]} : c \in Class}
Result(d, ok) == [device |-> d, ok |-> ok]
-------------------------------------------------------------------------------
(* GetTargetQueue and the range check in Send: a packet without a tag gets *)
(* index 65535 and from that 0.                                            *)
GetTargetQueueSwapped(p) == IF p.left = NoTag \/ p.left > MiceThresh
                            THEN 0 ELSE 1
GetTargetQueue(p) == IF p.left # NoTag /\ p.left > MiceThresh THEN 1 ELSE 0

(* Dequeue from the first queue that is not empty and transmit.            *)
Serve(d) ==
    LET full == {c \in Class : d.queues[c] # <<>>} IN
    IF full = {} THEN d
    ELSE LET c == CHOOSE c \in full : \A e \in full : c <= e IN
         [d EXCEPT !.queues[c] = Tail(@), !.machine = "BUSY",
                   !.current = Head(d.queues[c])]

Send(d, p) ==
    LET c == GetTargetQueue(p)
        e == [d EXCEPT !.queues[c] = Append(@, p)] IN
    IF Len(d.queues[c]) >= Capacity THEN Result(d, FALSE)
    ELSE Result(IF d.machine = "READY" THEN Serve(e) ELSE e, TRUE)

(* Only ever called by the event TransmitStart has scheduled, so that its  *)
(* assertions hold.                                                        *)
TransmitComplete(d) ==
    Serve([d EXCEPT !.machine = "READY", !.current = NoPacket])
===============================================================================
