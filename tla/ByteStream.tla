------------------------------- MODULE ByteStream ------------------------------
(***************************************************************************)
(* What a bulk sender over a reliable connection promises: the bytes of    *)
(* its packets, whole and in order, form one stream; the receiver has a    *)
(* prefix of it; after the sender has closed, nothing is added.            *)
(***************************************************************************)
EXTENDS Integers, Sequences

CONSTANTS
    PacketSize,     \* bytes of every packet but the last
    NoSeq           \* the number of a packet that has no header

VARIABLES
    written,    \* the pieces of packets the stream consists of
    delivered,  \* how many of them the receiver has
    closed      \* the sender has closed

vars == <<written, delivered, closed>>

(* Every byte once and in order, each piece within one packet, and those   *)
(* of packets with a header numbered without a gap.                        *)
IsStream(s) ==
    \A k \in DOMAIN s :
        /\ s[k].len > 0
        /\ s[k].from = IF k = 1 THEN 0 ELSE s[k - 1].from + s[k - 1].len
        /\ (s[k].from + s[k].len - 1) \div PacketSize = s[k].from \div PacketSize
        /\ s[k].seq \in {NoSeq, s[k].from \div PacketSize}

Extends(s, t) == Len(s) <= Len(t) /\ SubSeq(t, 1, Len(s)) = s

Init == written = <<>> /\ delivered = 0 /\ closed = FALSE

Write ==
    /\ ~closed
    /\ Extends(written, written')
    /\ IsStream(written')
    /\ closed' \in BOOLEAN

Keep == UNCHANGED <<written, closed>>

Deliver == delivered' \in delivered .. Len(written)

Next == (Write \/ Keep) /\ (Deliver \/ UNCHANGED delivered)

Spec == Init /\ [][Next]_vars
===============================================================================
