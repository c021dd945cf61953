-------------------------------- MODULE BulkFlow --------------------------------
(***************************************************************************)
(* One NewBulkSendApplication on its TCP socket, and the electrical link   *)
(* below: a Prio2Device, or a queue disc on top of a short device queue.   *)
(* Both order packets by what the application wrote into their OcsTag, so  *)
(* that the application decides the order its own packets arrive in.       *)
(*                                                                         *)
(* A packet the application has written is a piece [seq, from, len, left]  *)
(* of the stream; TCP sends each piece as one segment, since SendSize is   *)
(* the SegmentSize of the drivers.  TCP is reduced to what the application *)
(* and the link see of it: the send buffer, the order of transmissions,    *)
(* timeouts (none of them premature), cumulative acknowledgements, FIN.    *)
(***************************************************************************)
EXTENDS Integers, Sequences, FiniteSetsExt

CONSTANTS
    Flows,          \* the scenarios, see FlowType
    SendSize,       \* m_sendSize
    HeaderSize,     \* bytes of a SeqTsSizeHeader
    KB, Word, HalfWord,     \* 1024, 2^64, 2^32
    Capacity, MiceThresh,   \* as in Prio2Device
    MaxSize, DeviceQueue, FlowSizeThresh, Quota,    \* as in FlowSizeQueueDisc
    NoTag, NoPacket,
    MaxLosses,      \* bound on the packets lost after the link
    MaxAcked        \* bound on the pieces acknowledged of an unlimited flow

NoSeq == -1         \* no SeqTsSizeHeader
NoPiece == [len |-> 0]

Number == Nat \cup {NoSeq}

Sender ==
    [connected    : BOOLEAN,    \* m_connected
     totBytes     : Nat,        \* m_totBytes
     unsent       : [seq : Number, from : Nat, len : Nat] \cup {NoPiece},
                                \* m_unsentPacket
     seq          : Nat,        \* m_seq
     aborted      : BOOLEAN,    \* NS_ABORT_IF has ended the program
     state        : {"none", "SYN_SENT", "ESTABLISHED", "FIN_WAIT_1", "CLOSED"},
                                \* m_state of the socket, "none" before
     accepted     : Seq([seq : Number, from : Nat, len : Nat, left : Nat]),
                                \* every piece the socket has accepted
     acked        : Nat,        \* pieces before HeadSequence
     next         : Nat,        \* pieces before m_nextTxSequence
     closed       : BOOLEAN,    \* Close has been called
     closeOnEmpty : BOOLEAN]    \* m_closeOnEmpty

FlowType ==
    [max     : Nat,             \* m_maxBytes, 0 for no limit
     room    : Nat,             \* bytes the send buffer holds
     header  : BOOLEAN,         \* m_enableSeqTsSizeHeader
     link    : {"prio", "disc"},
     partial : BOOLEAN]         \* the socket may accept part of a packet

ASSUME FlowAssumption ==
    /\ Flows \subseteq FlowType
    /\ SendSize \in Nat \ {0} /\ HeaderSize \in Nat
    /\ KB \in Nat \ {0} /\ HalfWord \in Nat \ {0} /\ Word \in Nat \ {0}
    /\ MaxLosses \in Nat /\ MaxAcked \in Nat
    /\ Capacity \in Nat /\ MaxSize \in Nat /\ DeviceQueue \in Nat \ {0}
    /\ Quota \in Nat \ {0}
    /\ MiceThresh \in Nat /\ FlowSizeThresh \in Nat
    /\ NoTag \notin Nat

(* No flow ends in a packet shorter than its header: the application would *)
(* end the program.                                                        *)
ASSUME HeaderAssumption ==
    \A f \in Flows : f.header =>
        /\ HeaderSize <= SendSize
        /\ f.max % SendSize = 0 \/ HeaderSize <= f.max % SendSize

(* TcpSocket::DataRetries; fewer losses never exhaust it.                   *)
DataRetries == 6
ASSUME RetriesAssumption == MaxLosses < DataRetries

Prio == INSTANCE Prio2Device
Disc == INSTANCE FlowSizeQueueDisc

VARIABLES
    flow,       \* the scenario, a constant of the behaviour
    snd,        \* the application and its socket
    stopped,    \* StopApplication has run
    link,       \* the device, and the disc on top
    received,   \* the pieces the receiver has, by number
    losses

vars == <<flow, snd, stopped, link, received, losses>>

Init ==
    /\ flow \in Flows
    /\ snd = [connected |-> FALSE, totBytes |-> 0, unsent |-> NoPiece,
              seq |-> 0, aborted |-> FALSE, state |-> "none",
              accepted |-> <<>>, acked |-> 0, next |-> 0,
              closed |-> FALSE, closeOnEmpty |-> FALSE]
    /\ stopped = FALSE
    /\ link = IF flow.link = "prio" THEN Prio!New ELSE Disc!New
    /\ received = {}
    /\ losses = 0
-------------------------------------------------------------------------------
(* The socket, towards the application.                                    *)

BytesOf(pieces) ==
    LET upto[n \in 0 .. Len(pieces)] ==
            IF n = 0 THEN 0 ELSE upto[n - 1] + pieces[n].len
    IN upto[Len(pieces)]
Room(s) ==
    flow.room - BytesOf(SubSeq(s.accepted, s.acked + 1, Len(s.accepted)))

(* Send: the bytes accepted of a packet.  A TCP socket of ns-3 takes all   *)
(* or nothing; the application is written for others, too.                 *)
Send(s, len) ==
    IF s.state \notin {"SYN_SENT", "ESTABLISHED"} THEN 0
    ELSE IF len <= Room(s) THEN len
    ELSE IF flow.partial THEN Room(s) ELSE 0

(* Close waits for data not sent; DoClose sends FIN or gives up.           *)
Close(s) ==
    IF s.next < Len(s.accepted)
    THEN [s EXCEPT !.closed = TRUE, !.closeOnEmpty = TRUE]
    ELSE [s EXCEPT !.closed = TRUE,
                   !.state = CASE @ = "ESTABLISHED" -> "FIN_WAIT_1"
                               [] @ = "SYN_SENT" -> "CLOSED"
                               [] OTHER -> @]
-------------------------------------------------------------------------------
(* The application.                                                        *)

More(s) == flow.max = 0 \/ s.totBytes < flow.max

(* The packet to send: what is left of the last one, or a new one.         *)
ToSendNoMin(s) == SendSize
ToSend(s) ==
    IF flow.max = 0 \/ flow.max - s.totBytes > SendSize THEN SendSize
    ELSE flow.max - s.totBytes
NewPiece(s) ==
    [seq |-> IF flow.header THEN s.seq ELSE NoSeq,
     from |-> s.totBytes, len |-> ToSend(s)]
NewPacket(s) ==
    IF s.unsent # NoPiece THEN s
    ELSE [s EXCEPT !.unsent = NewPiece(s),
                   !.seq = IF flow.header THEN @ + 1 ELSE @,
                   !.aborted = flow.header /\ ToSend(s) < HeaderSize]

(* OcsTag.leftsize: kilobytes left, this packet included, in 32 bits.      *)
LeftSize(s) == (((flow.max - s.totBytes) % Word) \div KB) % HalfWord

(* Write n bytes of the packet held in unsent, and keep the rest.          *)
Piece(p, left) == [seq |-> p.seq, from |-> p.from, len |-> p.len, left |-> left]
Write(s, n) ==
    LET rest == [s.unsent EXCEPT !.from = @ + n, !.len = @ - n] IN
    [s EXCEPT !.accepted = Append(@, Piece([s.unsent EXCEPT !.len = n],
                                           LeftSize(s))),
              !.totBytes = @ + n,
              !.unsent = IF n = s.unsent.len THEN NoPiece ELSE rest]

(* One pass of the loop of SendData.  When all is sent, or a packet was    *)
(* refused in whole or in part, one more pass changes nothing.             *)
Pass(s) ==
    LET t == NewPacket(s)
        n == Send(t, t.unsent.len) IN
    IF ~More(s) THEN s
    ELSE IF t.aborted \/ n = 0 THEN t
    ELSE Write(t, n)

(* The loop: every pass but the last puts a byte into the buffer, or more. *)
Passes == flow.room + 1
SendLoop(s) ==
    LET pass == [t \in Sender |-> Pass(t)]
        after[n \in 0 .. Passes] == IF n = 0 THEN s ELSE pass[after[n - 1]]
    IN after[Passes]

SendDataStaysConnected(s) ==
    LET t == SendLoop(s) IN
    IF ~t.aborted /\ t.totBytes = flow.max /\ t.connected THEN Close(t) ELSE t
SendData(s) ==
    LET t == SendLoop(s) IN
    IF ~t.aborted /\ t.totBytes = flow.max /\ t.connected
    THEN [Close(t) EXCEPT !.connected = FALSE]
    ELSE t

DataSendAlways(s) == SendData(s)
DataSend(s) == IF s.connected THEN SendData(s) ELSE s
NotifySend(s) == IF Room(s) > 0 THEN DataSend(s) ELSE s

StartApplication ==
    /\ snd.state = "none"
    /\ snd' = [snd EXCEPT !.state = "SYN_SENT"]
    /\ UNCHANGED <<flow, stopped, link, received, losses>>

StopApplication ==
    /\ ~stopped
    /\ stopped' = TRUE
    /\ snd' = IF snd.state = "none" THEN snd
              ELSE [Close(snd) EXCEPT !.connected = FALSE]
    /\ UNCHANGED <<flow, link, received, losses>>
-------------------------------------------------------------------------------
(* The socket, towards the network.                                        *)

ConnectionSucceeded ==
    /\ snd.state = "SYN_SENT"
    /\ snd' = NotifySend(SendData([snd EXCEPT !.state = "ESTABLISHED",
                                              !.connected = TRUE]))
    /\ UNCHANGED <<flow, stopped, link, received, losses>>

ConnectionFailed ==
    /\ snd.state = "SYN_SENT"
    /\ snd' = [snd EXCEPT !.state = "CLOSED"]
    /\ UNCHANGED <<flow, stopped, link, received, losses>>

LinkSend(p) ==
    IF flow.link = "prio" THEN Prio!Send(link, p).device
    ELSE Disc!Send(link, p).device

(* SendPendingData sends the next piece of socket s; if the window is not  *)
(* filled by what there is, it asks the application for more first.  The   *)
(* last piece before a deferred close carries the FIN.                     *)
SendPendingData(s) ==
    /\ s.next < Len(s.accepted)
    /\ \E t \in {s, DataSend(s)} :
         LET k == t.next + 1
             fin == t.closeOnEmpty /\ k = Len(t.accepted) IN
         /\ snd' = [t EXCEPT !.next = k,
                             !.state = IF fin THEN "FIN_WAIT_1" ELSE @]
         /\ link' = LinkSend([idx |-> k, left |-> t.accepted[k].left])
    /\ UNCHANGED <<flow, stopped, received, losses>>

Transmit == SendPendingData(snd)

InLink ==
    LET waiting == IF flow.link = "prio" THEN Prio!Waiting(link)
                   ELSE Disc!InBands(link) \cup Disc!InDevice(link)
    IN waiting \cup ({link.current} \ {NoPacket})

(* The first piece not acknowledged is lost; everything after is sent      *)
(* again.  The socket gives up a piece after DataRetries timeouts without  *)
(* an acknowledgement in between: by RetriesAssumption it never comes to   *)
(* that, since a timeout follows a loss.                                   *)
ReTxTimeout ==
    /\ snd.acked < snd.next
    /\ snd.acked + 1 \notin received
    /\ \A p \in InLink : p.idx # snd.acked + 1
    /\ SendPendingData([snd EXCEPT !.next = snd.acked])

(* The pieces received without a gap.                                      *)
Prefix ==
    Max({n \in 0 .. Len(snd.accepted) : \A k \in 1 .. n : k \in received})

(* An acknowledgement, of all that was received at some time, makes room   *)
(* in the buffer.                                                          *)
NewAck ==
    \E n \in snd.acked + 1 .. Prefix :
        LET s == NotifySend([snd EXCEPT !.acked = n]) IN
        /\ flow.max = 0 => n <= MaxAcked
        /\ snd' = [s EXCEPT !.next = IF n > @ THEN n ELSE @]
        /\ UNCHANGED <<flow, stopped, link, received, losses>>
-------------------------------------------------------------------------------
(* The link.  The event that wakes the disc is due at once, and so before  *)
(* the transmission it was scheduled with ends.                            *)

TransmitComplete ==
    /\ link.machine = "BUSY"
    /\ flow.link = "disc" => link.wakes = 0
    /\ link' = IF flow.link = "prio" THEN Prio!TransmitComplete(link)
               ELSE Disc!TransmitComplete(link)
    /\ \/ /\ received' = received \cup {link.current.idx}
          /\ UNCHANGED losses
       \/ /\ losses < MaxLosses
          /\ losses' = losses + 1
          /\ UNCHANGED received
    /\ UNCHANGED <<flow, snd, stopped>>

Wake ==
    /\ flow.link = "disc"
    /\ link.wakes > 0
    /\ link' = Disc!Wake(link)
    /\ UNCHANGED <<flow, snd, stopped, received, losses>>

Next ==
    \/ StartApplication \/ StopApplication
    \/ ConnectionSucceeded \/ ConnectionFailed
    \/ Transmit \/ ReTxTimeout \/ NewAck
    \/ TransmitComplete \/ Wake

(* The sender sends when its window is open, a lost packet is resent, an   *)
(* acknowledgement arrives after all, and the simulator runs the events of *)
(* the link.                                                               *)
Fairness ==
    /\ WF_vars(Transmit) /\ WF_vars(ReTxTimeout) /\ WF_vars(NewAck)
    /\ WF_vars(TransmitComplete) /\ WF_vars(Wake)

Spec == Init /\ [][Next]_vars /\ Fairness
-------------------------------------------------------------------------------
Packet == [idx : 1 .. Len(snd.accepted), left : 0 .. HalfWord \cup {NoTag}]

(* Types, the order of the three marks in the stream, a buffer that is not *)
(* overfull; m_totBytes counts what was accepted, and no flow of the       *)
(* instance ends in a packet shorter than its header.                      *)
TypeOK ==
    /\ flow \in Flows
    /\ snd \in Sender
    /\ snd.connected => snd.state = "ESTABLISHED" /\ ~snd.closed
    /\ snd.acked <= Prefix /\ snd.acked <= snd.next
    /\ snd.next <= Len(snd.accepted)
    /\ 0 <= Room(snd)
    /\ snd.totBytes = BytesOf(snd.accepted)
    /\ ~snd.aborted
    /\ stopped \in BOOLEAN
    /\ InLink \subseteq Packet
    /\ received \subseteq 1 .. Len(snd.accepted)
    /\ losses \in 0 .. MaxLosses

(* Packets that wait, and packets past the point where they are chosen.    *)
Held == IF flow.link = "prio" THEN Prio!Waiting(link) ELSE Disc!InBands(link)
Chosen == ({link.current} \ {NoPacket})
            \cup (IF flow.link = "prio" THEN {} ELSE Disc!InDevice(link))

(* A packet of the last part of the flow: as the application has it, not   *)
(* as the packet says, which may have lost its tag.                        *)
Short(p) == snd.accepted[p.idx].left <=
                (IF flow.link = "prio" THEN MiceThresh ELSE FlowSizeThresh)

(* The link never lets a packet of the long part of a flow go while one of *)
(* the short part stays behind, wherever the step comes from: an arrival,  *)
(* the end of a transmission, a wake-up.                                   *)
ServesShort ==
    [][(\E p \in Chosen' \ Chosen : ~Short(p)') => \A p \in Held' : ~Short(p)']_vars

(* Packets never wait with the transmitter idle, unless a wake-up is still *)
(* to come: what the device stopped, it wakes; and a run of the disc never *)
(* leaves packets behind for want of quota.                                *)
NoStall ==
    Held # {} \/ (flow.link = "disc" /\ Disc!InDevice(link) # {})
        => link.machine = "BUSY" \/ (flow.link = "disc" /\ link.wakes > 0)

(* A flow with a limit that is connected and not stopped is received as a  *)
(* whole, and its sender closes the connection: in spite of a buffer that  *)
(* is full again and again, losses, a queue that overflows and a link that *)
(* lets the end of the flow overtake its beginning.                        *)
Complete ==
    /\ \A k \in 1 .. Len(snd.accepted) : k \in received
    /\ BytesOf(snd.accepted) = flow.max
    /\ snd.state = "FIN_WAIT_1"
FlowCompletes ==
    (snd.connected /\ flow.max > 0) ~> (stopped \/ Complete)

(* The stream of a reliable sender: every byte of every packet once and in *)
(* order, none after Close, received from the beginning.                   *)
Stream == INSTANCE ByteStream WITH
    PacketSize <- SendSize,
    written <- [k \in DOMAIN snd.accepted |->
                   [seq |-> snd.accepted[k].seq, from |-> snd.accepted[k].from,
                    len |-> snd.accepted[k].len]],
    delivered <- Prefix,
    closed <- snd.closed
ImplementsStream == Stream!Spec
===============================================================================
