------------------------------ MODULE MCNodeRouting ------------------------------
(***************************************************************************)
(* Instances of NodeRouting for TLC: addresses of 4 bits; racks are the    *)
(* networks of the first two, 0..3 that of the node itself.                *)
(***************************************************************************)
EXTENDS NodeRouting, TLC

Binary(n) == [b \in 1 .. Bits |-> (n \div 2 ^ (Bits - b)) % 2]
Address(local, len) == [local |-> Binary(local), masklen |-> len]
To(dest, len, i, metric) ==
    [Direct(Binary(dest), len, i) EXCEPT !.metric = metric]
Rack(tor, i) == To(tor, 2, i, 0)

(* A switch whose interfaces change.  Interface 0: two addresses of one    *)
(* network; interface 1: one of part of that network, and a single host.   *)
LiveSwitch ==
    [protocol |-> "ocs", live |-> TRUE,
     local |-> 0 :> {Address(1, 2), Address(2, 2)}
               @@ 1 :> {Address(1, 3), Address(6, 4)},
     racks |-> <<Rack(2, 0)>>,
     calls |-> {To(0, 2, 1, 0), DefaultRoute(Binary(1), 0, 1)}]

(* A switch whose table grows by entries that overlap in every way: by     *)
(* length of the mask, metric and interface.                               *)
GrowingSwitch ==
    [protocol |-> "ocs", live |-> TRUE,
     local |-> 0 :> {Address(1, 2)} @@ 1 :> {},
     racks |-> <<Rack(2, 0)>>,
     calls |-> {To(0, 2, 1, 0), To(0, 2, 1, 1), To(0, 1, 0, 1),
                To(2, 4, 0, 1), To(2, 4, 1, 0)}]

(* A switch as built by the drivers: one interface to each of two racks,   *)
(* in the network of the rack.                                             *)
BuiltSwitch ==
    [protocol |-> "ocs", live |-> FALSE,
     local |-> 0 :> {Address(1, 2), Address(3, 2)}
               @@ 1 :> {Address(5, 2), Address(7, 2)},
     racks |-> <<Rack(2, 0), Rack(6, 1)>>,
     calls |-> {}]

(* A ToR: its uplink and a host of its rack; the other racks are reached   *)
(* through the uplink.                                                     *)
BuiltTor ==
    [protocol |-> "eps", live |-> FALSE,
     local |-> 0 :> {Address(2, 2), Address(3, 2)}
               @@ 1 :> {Address(1, 3), Address(3, 3)},
     racks |-> <<Rack(6, 0), Rack(10, 0), Rack(14, 0)>>,
     calls |-> {}]
LiveTor == [BuiltTor EXCEPT !.live = TRUE]

MCScenarios == {LiveSwitch, GrowingSwitch, BuiltSwitch, BuiltTor}
MCLiveTor == {LiveTor}
===============================================================================
