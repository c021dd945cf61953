------------------------------- MODULE MCBulkFlow -------------------------------
(***************************************************************************)
(* Instances of BulkFlow for TLC.                                          *)
(***************************************************************************)
EXTENDS BulkFlow

(* max is a multiple of SendSize or not, room for one packet, two, or all. *)
Flow(max, room, header, partial, lk) ==
    [max |-> max, room |-> room, header |-> header, partial |-> partial,
     link |-> lk]

MCFlows ==
    {Flow(5, 4, FALSE, FALSE, "prio"), Flow(9, 10, FALSE, FALSE, "prio"),
     Flow(5, 3, TRUE, TRUE, "prio"),   Flow(5, 2, TRUE, FALSE, "disc"),
     Flow(9, 9, FALSE, FALSE, "disc"), Flow(0, 4, FALSE, FALSE, "disc")}
===============================================================================
