------------------------------ MODULE MCEpsRouting ------------------------------
(***************************************************************************)
(* Instances of EpsRouting for TLC.                                        *)
(***************************************************************************)
EXTENDS EpsRouting

(* One flow to the third ToR, over TCP or UDP: every path of RouteInput.   *)
MCBypassPackets ==
    [key : Key, dst : {3}, udp : BOOLEAN]
MCBypassColumn == [k \in Key |-> CHOOSE c \in Cell : TRUE]

(* Three flows, two of which share their cell of the first row; the third  *)
(* one is of two connections with the same hash.                           *)
MCSketchPackets ==
    {[key |-> "a", dst |-> 1, udp |-> FALSE],
     [key |-> "b", dst |-> 2, udp |-> FALSE],
     [key |-> "c", dst |-> 1, udp |-> FALSE],
     [key |-> "c", dst |-> 2, udp |-> FALSE]}
MCSketchColumn == [k \in Key |-> IF k = "c" THEN "y" ELSE "x"]
===============================================================================
