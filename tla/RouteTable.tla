------------------------------- MODULE RouteTable -------------------------------
(***************************************************************************)
(* The route table that Ipv4OcsRouting, Ipv4EpsRouting and                 *)
(* Ipv4SingleEPSRouting each keep in m_networkRoutes: the same code three  *)
(* times.  A table is a sequence of entries in the order of insertion, the *)
(* metric stored beside a route being a field of it.                       *)
(*                                                                         *)
(* An address is a function of Bits bits (32 in the code), the highest     *)
(* first; a mask is its length, and one of length Bits is that of a host.  *)
(* Link-local multicast, which never reaches the table, is left out.       *)
(***************************************************************************)
EXTENDS Integers, Sequences, SequencesExt

CONSTANTS
    Bits,        \* length of an address
    NInterfaces, \* GetNInterfaces(): the interfaces of the node
    MaxMetric    \* largest metric

Addr == [1 .. Bits -> {0, 1}]
MaskLength == 0 .. Bits
Interface == 0 .. NInterfaces - 1
AnyInterface == -1                  \* LookupOcs without an output device
Zero == [b \in 1 .. Bits |-> 0]     \* Ipv4Address::GetZero()

Entry ==
    [dest : Addr, masklen : MaskLength, gateway : Addr,
     interface : Interface, metric : 0 .. MaxMetric]
NoEntry == [dest |-> -1]    \* a null route

CombineMask(a, len) == [b \in 1 .. Bits |-> IF b <= len THEN a[b] ELSE 0]
IsMatch(a, b, len) == CombineMask(a, len) = CombineMask(b, len)

(* AddNetworkRouteTo without a gateway, as the routing itself calls it.    *)
Direct(network, len, i) ==
    [dest |-> network, masklen |-> len, gateway |-> Zero,
     interface |-> i, metric |-> 0]

AddNetworkRouteTwice(table, route) == Append(table, route)
AddNetworkRouteOnce(table, route) ==
    IF \E k \in DOMAIN table :
          table[k] = [route EXCEPT !.dest = table[k].dest]
    THEN table ELSE Append(table, route)
AddNetworkRouteTo(table, route) ==
    IF Contains(table, route) THEN table ELSE Append(table, route)

(* One call for each of these routes.                                      *)
AddRoutes(table, routes) == FoldLeft(AddNetworkRouteTo, table, routes)

DefaultRoute(nextHop, i, metric) ==
    [dest |-> Zero, masklen |-> 0, gateway |-> nextHop,
     interface |-> i, metric |-> metric]

RemoveRoute(table, k) == RemoveAt(table, k)

(* What is left when all entries in `gone` are erased.                     *)
Without(table, gone) ==
    FoldLeft(LAMBDA kept, route : IF route \in gone THEN kept
                                  ELSE Append(kept, route),
             <<>>, table)
-------------------------------------------------------------------------------
Applies(route, dest, oif) ==
    /\ IsMatch(dest, route.dest, route.masklen)
    /\ oif \in {AnyInterface, route.interface}

(* Whether the loop of LookupOcs replaces the best entry so far: by one of *)
(* a longer mask, whatever its metric, or by a later one of the same mask  *)
(* and no larger a metric.  A host's entry ends the loop.                  *)
ReplacesKeepsMetric(best, route) ==
    \/ best = NoEntry
    \/ /\ route.masklen >= best.masklen /\ best.masklen < Bits
       /\ route.metric <= best.metric
Replaces(best, route) ==
    \/ best = NoEntry
    \/ /\ best.masklen < Bits
       /\ \/ route.masklen > best.masklen
          \/ route.masklen = best.masklen /\ route.metric <= best.metric

Lookup(table, dest, oif) ==
    FoldLeft(LAMBDA best, route :
                 IF Applies(route, dest, oif) /\ Replaces(best, route)
                 THEN route ELSE best,
             NoEntry, table)

(* What the loop is meant to find: among the entries that apply those of   *)
(* the longest mask; of these the first if it is a host's, else the last   *)
(* of those with the smallest metric.                                      *)
Best(table, dest, oif) ==
    LET applying == {k \in DOMAIN table : Applies(table[k], dest, oif)}
        longest == {k \in applying :
            \A m \in applying : table[m].masklen <= table[k].masklen}
        cheapest == {k \in longest :
            \A m \in longest : table[k].metric <= table[m].metric}
    IN CASE applying = {} -> NoEntry
         [] \E k \in longest : table[k].masklen = Bits -> table[Min(longest)]
         [] OTHER -> table[Max(cheapest)]
-------------------------------------------------------------------------------
(* The handlers of changes of the node's interfaces.  `addresses` are the  *)
(* addresses of interface i, [local, masklen], in the order of insertion.  *)
Network(i, a) == Direct(CombineMask(a.local, a.masklen), a.masklen, i)

Networks(i, addresses) == [k \in DOMAIN addresses |-> Network(i, addresses[k])]
NotifyInterfaceUp(table, i, addresses) ==
    LET networks == Networks(i, addresses)
        hosts == {route \in ToSet(networks) : route.masklen = Bits}
    IN AddRoutes(table, Without(networks, hosts))

NotifyInterfaceDown(table, i) ==
    Without(table, {route \in ToSet(table) : route.interface = i})

NotifyAddAddressAnyway(table, i, a, up) == AddNetworkRouteTo(table, Network(i, a))
NotifyAddAddress(table, i, a, up) ==
    IF up THEN AddNetworkRouteTo(table, Network(i, a)) ELSE table

(* An entry of the same network goes whatever its gateway and metric, but  *)
(* IsNetwork excepts that of a host.                                       *)
SameNetwork(table, i, dest, len) ==
    {route \in ToSet(table) :
        /\ route.interface = i
        /\ route.masklen = len /\ route.masklen # Bits
        /\ route.dest = dest}
NotifyRemoveAddressLocal(table, i, a, up) ==
    IF ~up THEN table
    ELSE Without(table, SameNetwork(table, i, a.local, a.masklen))
NotifyRemoveAddress(table, i, a, up) ==
    IF ~up THEN table
    ELSE Without(table, SameNetwork(table, i, CombineMask(a.local, a.masklen),
                                    a.masklen))
===============================================================================
