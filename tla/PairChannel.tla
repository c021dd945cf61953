------------------------------ MODULE PairChannel ------------------------------
(***************************************************************************)
(* What the optical fabric promises to the hosts behind two ToRs: between  *)
(* every pair of ToRs a channel that may lose packets, delivers none twice *)
(* and none out of order.  Nothing is said of time, of days or of queues.  *)
(***************************************************************************)
EXTENDS Integers

CONSTANT Packet     \* records with the fields src, dst and id

VARIABLES
    accepted,   \* packets handed over so far; the number of the last one
    transit,    \* the packets under way
    delivered   \* the numbers of the packets that have arrived

vars == <<accepted, transit, delivered>>

SamePair(p, q) == p.src = q.src /\ p.dst = q.dst

Init == accepted = 0 /\ transit = {} /\ delivered = {}

(* A new packet is taken, or refused at once.                              *)
Accept ==
    /\ accepted' = accepted + 1
    /\ \/ \E p \in Packet : p.id = accepted' /\ transit' = transit \cup {p}
       \/ UNCHANGED transit
    /\ UNCHANGED delivered

(* Some packets are lost for good.                                         *)
Lose ==
    /\ \E lost \in SUBSET transit : transit' = transit \ lost
    /\ UNCHANGED <<accepted, delivered>>

(* A packet arrives: the oldest that is under way between its two ToRs.    *)
Deliver(p) ==
    /\ p \in transit
    /\ \A q \in transit : SamePair(p, q) => p.id <= q.id
    /\ transit' = transit \ {p}
    /\ delivered' = delivered \cup {p.id}
    /\ UNCHANGED accepted

Next == Accept \/ Lose \/ \E p \in transit : Deliver(p)

Spec == Init /\ [][Next]_vars
===============================================================================
