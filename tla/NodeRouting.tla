------------------------------- MODULE NodeRouting -------------------------------
(***************************************************************************)
(* The life of one route table: of the optical switch (protocol "ocs",     *)
(* Ipv4OcsRouting) or of a ToR ("eps", Ipv4EpsRouting; the table of        *)
(* Ipv4SingleEPSRouting is the same).  Interfaces and addresses change by  *)
(* calls of Ipv4L3Protocol, which notifies the routing once it is          *)
(* attached; RouteSchedule::Initialize adds the routes to the racks.       *)
(*                                                                         *)
(* All programs of the repository build the topology first, attach the     *)
(* routing then and call Initialize last.  In a live scenario the rest of  *)
(* the public interface is used too: interfaces and addresses change at    *)
(* any time, routes are added and removed even before the routing is       *)
(* attached, and through interfaces that are down.                         *)
(***************************************************************************)
EXTENDS RouteTable

CONSTANTS
    Scenarios,      \* the nodes to consider, see Scenario
    MaxAddresses,   \* bound: addresses of an interface
    MaxRoutes       \* bound: entries when a route is added by a call

Scenario ==
    [protocol : {"ocs", "eps"},
     live : BOOLEAN,        \* do interfaces change once routing is attached?
     local : [Interface -> SUBSET [local : Addr, masklen : MaskLength]],
                            \* the addresses an interface may take
     racks : Seq(Entry),    \* the routes Initialize adds
     calls : SUBSET Entry]  \* the routes added by other calls

ASSUME NodeAssumption ==
    /\ Bits \in Nat /\ NInterfaces \in Nat /\ MaxMetric \in Nat
    /\ MaxAddresses \in Nat /\ MaxRoutes \in Nat
    /\ Scenarios \subseteq Scenario

(* Addresses as the drivers plan them: each rack has a network of its own, *)
(* an interface is in the network of a rack or in a shorter one, if in any,*)
(* and no ToR has the address of its network.                              *)
Overlap(route, other) ==
    \E dest \in Addr : Applies(route, dest, AnyInterface)
                      /\ Applies(other, dest, AnyInterface)
Planned(s) ==
    \A k \in DOMAIN s.racks :
        LET rack == s.racks[k] IN
        /\ rack.masklen # Bits /\ rack.metric = 0
        /\ \A m \in DOMAIN s.racks \ {k} : ~Overlap(rack, s.racks[m])
        /\ \A i \in Interface : \A a \in s.local[i] :
              /\ rack # Network(i, a)
              /\ Overlap(rack, Network(i, a)) => a.masklen <= rack.masklen

ASSUME PlanAssumption == \A s \in Scenarios : s.live \/ Planned(s)

VARIABLES
    scenario,        \* the node, fixed at the start
    m_networkRoutes, \* the table
    attached,        \* m_ipv4 is set
    initialized,     \* Initialize has run
    up,              \* Ipv4Interface: IsUp
    addresses,       \* Ipv4Interface: m_ifaddrs
    withdrawn,       \* history: [interface, address] whose network was taken
                     \* from the table since the interface came up
    late             \* history: routes added by a call since their interface
                     \* went down, or to a ToR before it was attached

vars == <<scenario, m_networkRoutes, attached, initialized, up, addresses,
          withdrawn, late>>

RackRoute == scenario.racks
ApiRoute == scenario.calls

Init ==
    /\ scenario \in Scenarios
    /\ m_networkRoutes = <<>>
    /\ attached = FALSE
    /\ initialized = FALSE
    /\ up = [i \in Interface |-> FALSE]
    /\ addresses = [i \in Interface |-> <<>>]
    /\ withdrawn = {}
    /\ late = {}

Changeable == ~attached \/ scenario.live

(* The networks withdrawn from interfaces other than i.                    *)
Fresh(i) == {w \in withdrawn : w.interface # i}

(* The networks of present addresses that leave the table in this step,    *)
(* with those that left it before.                                         *)
WithdrawnBy(table, next) ==
    {w \in UNION {[interface : {i}, address : ToSet(addresses'[i])] :
                    i \in Interface} :
        LET route == Network(w.interface, w.address) IN
        \/ w \in withdrawn
        \/ Contains(table, route) /\ ~Contains(next, route)}

(* The routes of these through interfaces that are down; those of `late`   *)
(* through interfaces other than i.                                        *)
ThroughDown(routes) == {route \in routes : ~up[route.interface]}
LateExcept(i) == {route \in late : route.interface # i}
-------------------------------------------------------------------------------
(* SetIpv4.  The switch looks at the interfaces there are, in the order of *)
(* their indices; a ToR does not.                                          *)
SetIpv4Ignores(table) == table
SetIpv4(table) ==
    IF scenario.protocol = "eps" THEN table ELSE
    FoldLeft(LAMBDA t, i : IF up[i] THEN NotifyInterfaceUp(t, i, addresses[i])
                           ELSE NotifyInterfaceDown(t, i),
             table, [n \in 1 .. NInterfaces |-> n - 1])

Attach ==
    /\ ~attached
    /\ attached' = TRUE
    /\ m_networkRoutes' = SetIpv4(m_networkRoutes)
    /\ late' = IF scenario.protocol = "ocs" THEN {}
               ELSE ThroughDown(ToSet(m_networkRoutes))
    /\ UNCHANGED <<scenario, initialized, up, addresses, withdrawn>>

(* The part of RouteSchedule::Initialize that concerns this table; whether *)
(* the interfaces to the racks are up is not asked.                        *)
Initialize ==
    /\ attached /\ ~initialized
    /\ initialized' = TRUE
    /\ m_networkRoutes' = AddRoutes(m_networkRoutes, RackRoute)
    /\ late' = late \cup ThroughDown(ToSet(RackRoute))
    /\ UNCHANGED <<scenario, attached, up, addresses, withdrawn>>

(* Ipv4L3Protocol::SetUp, also of an interface that is up.                 *)
SetUp(i) ==
    /\ Changeable
    /\ up' = [up EXCEPT ![i] = TRUE]
    /\ IF attached
       THEN /\ m_networkRoutes' =
                   NotifyInterfaceUp(m_networkRoutes, i, addresses[i])
            /\ withdrawn' = Fresh(i) /\ late' = LateExcept(i)
       ELSE UNCHANGED <<m_networkRoutes, withdrawn, late>>
    /\ UNCHANGED <<scenario, attached, initialized, addresses>>

(* Ipv4L3Protocol::SetDown, also of an interface that is down.             *)
SetDown(i) ==
    /\ Changeable
    /\ up' = [up EXCEPT ![i] = FALSE]
    /\ IF attached
       THEN /\ m_networkRoutes' = NotifyInterfaceDown(m_networkRoutes, i)
            /\ withdrawn' = Fresh(i) /\ late' = LateExcept(i)
       ELSE UNCHANGED <<m_networkRoutes, withdrawn, late>>
    /\ UNCHANGED <<scenario, attached, initialized, addresses>>

AddAddress(i, a) ==
    /\ Changeable
    /\ Len(addresses[i]) < MaxAddresses /\ ~Contains(addresses[i], a)
    /\ addresses' = [addresses EXCEPT ![i] = Append(@, a)]
    /\ IF attached
       THEN /\ m_networkRoutes' = NotifyAddAddress(m_networkRoutes, i, a, up[i])
            /\ withdrawn' =
                   {w \in withdrawn :
                       Network(w.interface, w.address) # Network(i, a)}
       ELSE UNCHANGED <<m_networkRoutes, withdrawn>>
    /\ UNCHANGED <<scenario, attached, initialized, up, late>>

(* Ipv4Interface forgets the address, then the routing is told.            *)
RemoveAddress(i, k) ==
    /\ Changeable
    /\ addresses' = [addresses EXCEPT ![i] = RemoveAt(@, k)]
    /\ IF attached
       THEN /\ m_networkRoutes' =
                   NotifyRemoveAddress(m_networkRoutes, i, addresses[i][k], up[i])
            /\ withdrawn' = WithdrawnBy(m_networkRoutes, m_networkRoutes')
       ELSE UNCHANGED <<m_networkRoutes, withdrawn>>
    /\ UNCHANGED <<scenario, attached, initialized, up, late>>

(* A route by a call: neither this one nor RemoveRoute looks at the node.  *)
AddRoute(route) ==
    /\ scenario.live
    /\ Len(m_networkRoutes) < MaxRoutes
    /\ m_networkRoutes' = AddNetworkRouteTo(m_networkRoutes, route)
    /\ late' = IF attached THEN late \cup ThroughDown({route}) ELSE late
    /\ UNCHANGED <<scenario, attached, initialized, up, addresses, withdrawn>>

DropRoute(k) ==
    /\ scenario.live
    /\ m_networkRoutes' = RemoveRoute(m_networkRoutes, k)
    /\ late' = late \ {m_networkRoutes[k]}
    /\ UNCHANGED <<scenario, attached, initialized, up, addresses>>
    /\ IF attached THEN withdrawn' = WithdrawnBy(m_networkRoutes, m_networkRoutes')
                   ELSE UNCHANGED withdrawn

Next ==
    \/ Attach \/ Initialize
    \/ \E i \in Interface :
          \/ SetUp(i) \/ SetDown(i)
          \/ \E a \in scenario.local[i] : AddAddress(i, a)
          \/ \E k \in DOMAIN addresses[i] : RemoveAddress(i, k)
    \/ \E route \in ApiRoute : AddRoute(route)
    \/ \E k \in DOMAIN m_networkRoutes : DropRoute(k)

Spec == Init /\ [][Next]_vars
-------------------------------------------------------------------------------
(* Types; and no entry is ever there twice.                                *)
TypeOK ==
    /\ m_networkRoutes \in Seq(Entry) /\ IsInjective(m_networkRoutes)
    /\ attached \in BOOLEAN /\ initialized \in BOOLEAN
    /\ up \in [Interface -> BOOLEAN]
    /\ \A i \in Interface : ToSet(addresses[i]) \subseteq scenario.local[i]

(* The one pass of LookupOcs (LookupEps, LookupSingleEps) over a table of  *)
(* any history finds the best entry, with and without an output device.    *)
LookupFindsBest ==
    \A dest \in Addr, oif \in Interface \cup {AnyInterface} :
        Lookup(m_networkRoutes, dest, oif) = Best(m_networkRoutes, dest, oif)

(* With an interface go all routes through it (the comment in              *)
(* NotifyInterfaceDown), and no handler brings one back while it is down:  *)
(* what a down interface carries was added by a call, since the interface  *)
(* went down, or to a ToR before it was attached; a switch that is         *)
(* attached drops the latter.                                              *)
RoutesGoDown ==
    attached => ThroughDown(ToSet(m_networkRoutes)) \subseteq late

(* A switch reaches the networks of its interfaces that are up, unless the *)
(* route was withdrawn: by RemoveRoute, or with another address of the     *)
(* same network.                                                           *)
ConnectedNetworksKnown ==
    scenario.protocol = "ocs" /\ attached =>
        \A i \in Interface : \A k \in DOMAIN addresses[i] :
            LET a == addresses[i][k] IN
            up[i] /\ a.masklen # Bits
                /\ [interface |-> i, address |-> a] \notin withdrawn
            => Contains(m_networkRoutes, Network(i, a))

(* Every destination in another rack finds the entry of that rack's ToR    *)
(* under the ToR's own address, which is what RouteInput compares with the *)
(* window: at the switch, too, whose own entry for that network is older.  *)
RacksFound ==
    initialized /\ ~scenario.live =>
        \A k \in DOMAIN RackRoute, dest \in Addr :
            IsMatch(dest, RackRoute[k].dest, RackRoute[k].masklen)
                => Lookup(m_networkRoutes, dest, AnyInterface) = RackRoute[k]

(* A ToR knows no route but to the other racks: downward traffic finds no  *)
(* entry, is left to the electrical routing and never counted (the comment *)
(* in SetIpv4: "do not want this routing protocol to connect hosts").      *)
ConnectsNoHost ==
    scenario.protocol = "eps" =>
        ToSet(m_networkRoutes) \subseteq ToSet(RackRoute) \cup ApiRoute

(* What keeps an entry: a call that added it, or an address of its         *)
(* interface in its network.                                               *)
HasReason(route) ==
    \/ route \in ApiRoute \cup ToSet(RackRoute)
    \/ \E k \in DOMAIN addresses[route.interface] :
           route = Network(route.interface, addresses[route.interface][k])

(* No entry of a network outlives its reason: with an address go the       *)
(* routes through its interface that reference its network (the comment in *)
(* NotifyRemoveAddress), before or after the interface was down.  The      *)
(* entry of a single host is not a network: NotifyAddAddress adds one, and *)
(* NotifyRemoveAddress leaves it.                                          *)
NetworksHaveReason ==
    \A k \in DOMAIN m_networkRoutes :
        m_networkRoutes[k].masklen # Bits => HasReason(m_networkRoutes[k])
===============================================================================
