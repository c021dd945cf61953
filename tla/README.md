# A TLA+ model of the reconfigurable data-center network module

The repository extends ns-3 3.38 with a module, `src/src/ocs`, that simulates a
reconfigurable data-center network: racks whose top-of-rack switches (ToRs) are
joined by an electrical packet network (EPS) and, in addition, by one optical
circuit switch (OCS). A controller rotates the circuits: in a *day* ToR i is
connected to ToR i + interval; in the *night* that follows the switch is rewired
for the next interval. Everything else in `src/src` is upstream ns-3.

This directory holds a TLA+ model of that module, the configurations that check
it with TLC, and theorems about it checked by TLAPS.

## 1. Inventory

| Component | State | Operations | Talks to |
|---|---|---|---|
| `RouteSchedule` (controller) | `set_index`, its event | `Initialize`, `SetRoutings` (dawn), `SetNight` (dusk) | calls the three classes below on every ToR and the switch; schedules itself |
| `Ipv4OcsRouting` (switch) | `devicesMap`, `atnight`, route table | `AddDeviceMatch`, `ClearDeviceMatch`, `SetNight`, `RouteInput`, table maintenance | the controller, the ports of the switch |
| `Ipv4EpsRouting` (ToR routing) | window `ocs_dest_addr`, `working_queue_index`, flow table, sketch, route table | `RouteInput`, `BeginConfig`, `EraseFlow`, table maintenance | controller; hands packets with a queue tag to the uplink |
| `MultiChannelPointToPointDevice` (uplink) | a queue per slot of the window, `working`, `working_queue_idx`, transmitter | `Send`, `TransmitComplete`, `BeginWork`, `IntoNight`, `SetWorkingQueue` | routing, controller, fibre |
| `PointToPointNetDevice`, channel (ports of the switch) | one queue, transmitter | `Send`, `TransmitComplete`, `Receive` | fibre |
| Simulator core | event list | `Schedule`, `ProcessOneEvent` | everything |
| `SingleRouteSchedule`, `Ipv4SingleEPSRouting` | as above with one destination | as above | an earlier variant of the controller |
| `Prio2Device` | two queues by priority | `Send`, `TransmitComplete` | hosts |
| `PFifoFlowSizeQueueDisc` | two bands by flow size | enqueue, dequeue | hosts |
| `NewBulkSendApplication` | socket, bytes sent, pending packet | start, stop, send, socket callbacks | TCP |
| TCP sender, traffic control (upstream) | send buffer, what is sent and acknowledged; run and wake-up of a disc | `Send`, `Close`, `SendPendingData`, `ReTxTimeout`, `NewAck`; `Run`, `Wake` | application above, queue disc and device below |
| `AppPlanner`, `FlowSizeDistribution` | flow files, round-robin positions | register flows | set-up only |
| helpers, drivers, analysis scripts | – | build the topology, set parameters, post-process | set-up and output |

There are no threads. What makes the code hard is the order of events: packets,
transmissions and the controller's dawn and dusk meet at the same simulated
instant and are then ordered by insertion, and three classes keep an index of
their own of "today's circuit". What must hold:

* controller: window slot, device queue and installed matching name the same
  ToR; every pair of ToRs is connected once per round; nothing is rewired by day;
* uplink: one transmission at a time, none started at night, no idling by day, the
  served queue emptied before its slot is renamed;
* switch: a packet leaves only by the circuit it came in for, none is refused by
  day, outputs are free of contention;
* route tables: the best entry is found, the handlers leave none behind when an interface
  goes down or an address is removed, a ToR knows the other racks and not its own;
* ToR routing: no mouse is taken for an elephant on the strength of single rows of the
  sketch, an elephant is not dropped for longer than the loss timer, it has at most one packet queued ahead of its day;
* the fabric as a whole: packets are neither duplicated, reordered nor forgotten;
* single-queue variant: it keeps the schedule of the other controller with a window of
  one, and nothing waits for a ToR other than that of the circuit;
* bulk sender: what it hands to TCP is one stream without a gap, over refused and
  partial sends; a flow with a limit is received as a whole and then closed;
* priority links: short flows go first, and packets never wait while nothing is to come.

The hazards behind these, each at its line, are in `PROJECT.json`.

## 2. Modules

| Module | Models | Kind |
|---|---|---|
| `OcsSchedule` | `RouteSchedule` and the state it steers | state machine, one action per event handler |
| `RotorService` | what the controller promises | abstract specification |
| `OcsSchedule_proofs` | – | theorems about `OcsSchedule`; it implements `RotorService` |
| `SingleSchedule` | `SingleRouteSchedule`, `Ipv4SingleEPSRouting` and the uplinks they steer | state machine; implements `OcsSchedule` |
| `SingleSchedule_proofs` | – | theorems about `SingleSchedule` |
| `MultiChannelDevice` | the uplink class | one operator per method, from a device to a result |
| `EventList` | the event list | operators |
| `DeviceEvents_proofs` | – | lemmas about the event list and about what an uplink's handlers send |
| `MultiChannelUplink` | one uplink between its routing and the controller | state machine with time |
| `MultiChannelUplink_proofs` | – | theorems about it |
| `PointToPointPort` | the switch's ports | operators |
| `OcsFabric` | controller, uplinks, fibres, switch, ports together | state machine with time; instantiates `OcsSchedule` and `PointToPointPort` |
| `OcsFabric_proofs` | – | theorems about it |
| `PairChannel` | what the fabric promises to hosts | abstract specification |
| `EpsRouting`, `MCEpsRouting` | `Ipv4EpsRouting::RouteInput`, `Flow`, the sketch | state machine; its instances |
| `EpsRouting_proofs` | – | theorems about it |
| `RouteTable` | the route table of the routing classes: lookup and maintenance | operators, with a declarative definition of the lookup |
| `NodeRouting`, `MCNodeRouting` | one such table while interfaces, addresses and routes come and go | state machine; its instances |
| `NodeRouting_proofs` | – | theorems about it |
| `Prio2Device` | the priority device | one operator per method |
| `FlowSizeQueueDisc` | the queue disc, the device under it and the flow control between them | one operator per method |
| `BulkFlow`, `MCBulkFlow` | one `NewBulkSendApplication`, its TCP socket and one of these links | state machine; its instances |
| `BulkFlow_proofs` | – | theorems about it and the two links; it implements `ByteStream` |
| `ByteStream` | what the sender promises to the receiver | abstract specification |

**OcsSchedule.** The variables bear the names of the code. `Initialize`,
`SetRoutings` and `SetNight` are the handlers; the body of `SetRoutings`, which
`Initialize` also runs, is `StartDay`. `BeginConfig` of the ToR routing is
`WindowAfter` and `NextQueue`. ToRs stand for their port number and for their
address. `rounds` counts the days begun, from which `Now` follows; it is bounded
by `FinishTime`, as in the code.

**MultiChannelDevice.** The handlers return a record: the device, the packet whose
transmission was started, and what the method returned. A failed assertion or an
index out of a vector sets `crashed`, after which nothing happens.

**Time.** `EventList` keeps events with the time left, in the order of insertion.
An event that is due runs before time advances; of several that are due the one
inserted first (`Scheduler::EventKey::operator<`). Calls of `Send` stand for
packets that come from hosts, and may come before, between and after all events of
an instant. `DefaultSimulatorImpl` is modelled no further.

**OcsFabric.** `Initialize`, `SetRoutings` and `SetNight` are those of
`OcsSchedule` (an instance whose `event`, `working` and `working_queue_idx` are read
off the event list and the devices) together with what they do to the devices.
`SendOptical` is the end of `RouteInput` at a ToR, for any destination of the
window. `fate` is a history variable.

**SingleSchedule.** The same three handlers, with one destination per ToR in the place
of the window and no working queue. The packets are those that `RouteInput` sends to the
uplink, by day or night. Time is not modelled: a transmission ends at any moment before
dawn. `OcsSchedule` is instantiated with `Q <- 1`, its window being the one destination.

**EpsRouting.** It has one ToR and needs of the rotor only which destinations are
in the window and which works today. That is `OcsSchedule!WindowIsNextDays`, a
theorem. Room in a device queue is nondeterministic. Times are ages that
saturate where no comparison of the code can tell them apart; the same goes for
`sentp`. `enqueued` of a new flow is uninitialised in the code and arbitrary here.
The cell of a key in the first row of the sketch is a function of the key (`Column`). The
other rows use two ns-3 `Hasher`s that are never cleared and so hash, with a key, all keys
before it: from packet to packet a flow falls into other cells, and here into any (`Cells`).

**Prio2Device, FlowSizeQueueDisc.** Handlers return a device, as above. A packet is its
number and the size left its tag gives, `NoTag` once the tag is gone. The disc and the
device under it are one record, since they share the mark that the device queue is stopped;
`wakes` counts the wake-ups that are scheduled and have not run. Sizes of queues are in
packets. The limits of the disc and of its internal queues, in bytes in the code, are one
number of packets: the disc (10000 bytes) refuses before an internal queue (75000 bytes)
does. `Run` moves at most `Quota` packets; the code schedules no further run when the quota
(64) is used up, so that it has to be enough.

**BulkFlow.** `snd` is the application and its socket. `SendData` is the loop of the code
with all four of its exits, a recursive function of `Passes` passes: each but the last fills
a byte of the buffer or more. `accepted` are the pieces the socket has taken, in order. TCP is
reduced to its buffer and three events: the next piece is sent, the oldest one not
acknowledged is timed out and resent (with everything after it), an acknowledgement frees
the buffer and asks the application for more. A piece is one segment (`SendSize` equals
`SegmentSize` in the drivers), a timeout is never premature, and `SendPendingData` asks the
application or not, as the size of the window has it, which is not modelled. The connection
may fail; `StopApplication` comes once, at any time. The link is a `Prio2Device` or the
disc, as the drivers choose; after it packets are lost, up to `MaxLosses`. That is fewer than
`DataRetries` (`RetriesAssumption`), the timeouts in a row after which the socket drops the
connection: this branch of `ReTxTimeout` is never taken and left out.

**RouteTable, NodeRouting.** The three routing classes hold the same code for their
tables, copied from ns-3's static routing. An entry is a record, its metric
included; an address is a function of `Bits` bits and a mask is its length. `Lookup` is the one
pass of `LookupOcs`; of its variables `longest_mask` and `shortest_metric` are those
of the best entry so far. `NodeRouting` is one node: the switch, whose `SetIpv4`
connects the networks of its interfaces, or a ToR, whose `SetIpv4` does not; which one,
with its addresses and routes, is the `scenario` chosen at the start. Unless it is
`live`, the calls come in the order of the drivers: topology, routing, `Initialize`.
In a live one interfaces and addresses change at any time, as `Ipv4L3Protocol` allows, and
routes are added and removed by calls of `AddNetworkRouteTo` and `RemoveRoute`. These ask
nothing: neither whether the routing is attached nor whether the interface is up, and
neither does `Initialize`. `withdrawn` and `late` are history variables: the networks taken
out of the table, and the routes calls have added through an interface that was down, or to a
ToR before it was attached (a switch drops the latter when it is attached).
`PlanAssumption` is the address plan of the drivers: a network for each rack, and no
interface in a longer one. Without it a network of the node's own could hide a rack, and
`RacksFound` would say nothing of the code.

## 3. What is checked

| Run | Instance | Shows |
|---|---|---|
| `schedule_sliding` | 6 ToRs, 4 queues, 60 days | alignment of window, queue and matching; every pair in every round; refinement of `RotorService` |
| `uplink_q4` | 4 queues of 2, day 3, night 2, transmission 2, 4 packets | transmitter, idling, night, flush |
| `uplink_send_result` | 4 queues | a disagreement, see below |
| `single` | 4 ToRs, queues of 2, 6 days (two rounds) | what waits fits the circuit; refinement of `OcsSchedule` |
| `fabric_q4` | 6 ToRs, 4 queues, 9 days, 2 senders, 3 packets | queues fit circuits, no loss by day, no contention, refinement of `PairChannel` |
| `fabric_alltor` | 5 queues, 2 packets | no loss by day when the window never moves and nothing is flushed; every packet's fate is settled |
| `tor_bypass` | 6 ToRs, window 2, one flow, all strategies | early queueing, drops, loss timer |
| `tor_sketch` | 3 keys, 2 rows, 2 cells, up to 4 packets counted | no mouse is taken for an elephant on the strength of the second row |
| `tor_hashers` | the same | a disagreement, see below |
| `routes` | a switch and a ToR built as by the drivers, two switches that change; up to 4 entries, or more from addresses | the lookup against its definition; the table follows every change of the interfaces, with calls in between; racks are found |
| `flow` | six flows: limits 5, 9 and none, buffers of 2 to 10 bytes, packets of 2, with and without headers and partial sends, both links; 2 losses | refinement of `ByteStream`; flows complete; short flows first; no lost wake-up |
| `routes_reconnect` | a ToR | a disagreement, see below |

**Bounds.** With 6 ToRs and 4 queues the wrap of the interval at N-1 and of the
slot at Q fall on different days and meet; 60 days are twelve rounds, beyond the
period lcm(5, 4) of the two indices. In the fabric, 9 days cover the wrap of the
interval, 2 senders at distance 1 reach the same ToR on successive days (the case
that matters at the output ports), and 3 packets fill a transmitter, a queue and
the place behind it. Capacities of 1 or 2 make refusal happen. The lengths of
day, night and transmission are chosen so that a transmission may end exactly at
dusk or dawn. `MaxPackets` bounds sends, `MaxInserts` the packets counted by the
sketch. In `tor_bypass` the destination is away for 6 ticks, longer than
`LossTimeout` (two cycles, as in the code), and `IdleTimeout` exceeds one rotation.

`fabric_*` assume that a transmission and the fibre take no longer than a night
(`FabricAssumption`; 20 us against some 8.2 us in the drivers). The number of
queues is 4 or that of the other ToRs, as in the drivers: `IntoNight` is written for
these and for one queue, which is not run. Between 5 and N-2 queues nothing is flushed
though slots are renamed, and with 2 or 3 the index of the flushed queue can be out
of range; both are in the model (`FlushedQueue`, `IntoNight`) and outside of the runs.

In `routes` addresses have 4 bits, which gives networks in networks of hosts, and
two metrics and two interfaces suffice to make entries equal in one respect and
different in another. `MaxAddresses` and `MaxRoutes` bound what is added.

In `flow` the buffers are such that they fill within a packet, after one, or never; limits are
odd, so that the last packet is short; queues of 2 and 3 overflow. `Quota` is 1, the smallest:
what holds with it does so with 64. The scale of kilobytes
and of the two word lengths is reduced (2, 64, 16) so that the tag wraps within an
unlimited flow, of which `MaxAcked` pieces are acknowledged. `single` bounds
nothing but `FinishTime`.

`CHECK_DEADLOCK FALSE` is set where the simulation really ends: after
`finishtime` no event is left, after `Initialize` a driver changes no route, a flow is over
when all is acknowledged. A state with `crashed` would stop, too, which `TypeOK` excludes.

**Fairness.** `Simulator::Run` executes events while there are any, so the events
and the passing of time are weakly fair (`WF_vars(Next)` in `OcsSchedule`,
`WF_vars(Simulator)` elsewhere). Nothing is assumed of packets. Liveness is
bounded by `finishtime`: after it the last night never ends, so
`EveryPairConnected` and `PacketSettles` ask for enough days to be left. In `BulkFlow` the
events of the link are fair for the same reason; sending, retransmission and
acknowledgement are, since TCP has a timer for each (`m_sendPendingDataEvent`, `m_retxEvent`,
the delayed acknowledgement). Nothing is assumed of the application: it acts only
when it is called back, so that a callback too few shows in `FlowCompletes`.

**Disagreements.** `hash.h:57` says of a `Hasher`: "Call clear() between calls to the getter
to reset the internal state and hash each buffer separately". `Insert_and_Get` of the sketch
never does (`Ipv4EpsRouting.h:199`), so that the packets of a flow are spread over the cells
of two rows, and the minimum over the rows counts it short: `tor_hashers` shows it with two
packets. Elephants are then found late or never. What remains of the promise of a Count-Min
sketch is `ElephantsAreHeavy`.

`net-device.h:247` says that `Send` returns "whether the Send
operation succeeded". `MultiChannelPointToPointDevice::Send` returns false for a
packet it has queued, when the uplink is idle by day and today's queue is empty
(`MultiChannelPointToPoint.cc:84`). `uplink_send_result` shows it.

`Ipv4EpsRouting::SetIpv4` says "we do not want this routing protocol to connect hosts
or other switches which is not TOR" (`Ipv4EpsRouting.cc:632`), but the handlers of
later changes do so (`Ipv4EpsRouting.cc:541-596`): `routes_reconnect`. The drivers
attach the routing last, so that it makes no difference to them.

`NotifyRemoveAddress` says it removes all routes through the interface that reference
the network (`ipv4-ocs-routing.cc:470`). It leaves that of an address with a host mask,
which `NotifyAddAddress` has added; all other entries go, which is what `NetworksHaveReason`
says.

**Mutated definitions.** Some definitions are preceded by variants with a plausible
mistake (`SendUnbounded`, `LastAddrNoSkip`, ...). Nothing uses them; each, in the
place of the definition, violates the property `PROJECT.json` pairs it with.

## 4. What is proved

All theorems hold for every value of the constants the assumption of the module admits.

| Module | Theorem | Statement |
|---|---|---|
| `OcsSchedule_proofs` | `TypeCorrect` | `Spec => []TypeOK` |
| | `InvCorrect` | `Spec => []IInv` |
| | `WindowCorrect` | `Spec => []WindowIsNextDays` |
| | `AlignmentCorrect` | `Spec => []Aligned` |
| | `CircuitsCorrect` | `Spec => []CircuitsDisjoint` |
| | `DayAgreedCorrect` | `Spec => []DayAgreed` |
| | `DarknessCorrect` | `Spec => ReconfiguredInTheDark` |
| | `ServiceCorrect` | `Spec => ImplementsService` |
| `SingleSchedule_proofs` | `TypeCorrect` | `Spec => []TypeOK` |
| | `QueuedCorrect` | `Spec => []QueuedForCircuit` |
| | `RefinesSchedule` | `Spec => ImplementsSchedule` |
| `EpsRouting_proofs` | `TypeCorrect` | `Spec => []TypeOK` |
| | `HeavyCorrect` | `Spec => []ElephantsAreHeavy` |
| | `OneEarlyCorrect` | `Spec => []OneEarlyPacket` |
| | `DropTimerCorrect` | `Spec => []DropTimerCoversStreak` |
| `MultiChannelUplink_proofs` | `WorkConservingCorrect` | `Spec => []WorkConserving` |
| | `FlushedCorrect` | `Spec => ServedQueueFlushed`, for one or four queues |
| | `SilentAtNightCorrect` | `Spec => SilentAtNight` |
| | `OneTransmissionCorrect` | `Spec => []OneTransmission`, if a transmission takes no longer than a night |
| | `TypeCorrect` | `Spec => []TypeOK`, under the same condition, for any number of queues but two or three |
| `OcsFabric_proofs` | `QueuePurityCorrect` | `Spec => []QueuePurity`, for one or four queues or one per other ToR |
| | `NoCircuitMissedCorrect` | `Spec => []NoCircuitMissed`, for these |
| | `CircuitExclusiveCorrect` | `Spec => []CircuitExclusive`, for these |
| | `FabricTypeCorrect` | `Spec => []TypeOK`, for these but two or three |
| | `OnePlaceCorrect` | `Spec => []OnePlace`, for these |
| | `ChannelCorrect` | `Spec => ImplementsChannel`, for these |
| `NodeRouting_proofs` | `TypeCorrect` | `Spec => []TypeOK` |
| | `DownCorrect` | `Spec => []RoutesGoDown` |
| | `ReasonCorrect` | `Spec => []NetworksHaveReason` |
| | `KnownCorrect` | `Spec => []ConnectedNetworksKnown` |
| | `LookupCorrect` | `Spec => []LookupFindsBest` |
| | `RacksCorrect` | `Spec => []RacksFound` |
| `BulkFlow_proofs` | `TypeCorrect` | `Spec => []TypeOK` |
| | `NoStallCorrect` | `Spec => []NoStall` |
| | `ServesShortCorrect` | `Spec => ServesShort` |
| | `StreamCorrect` | `Spec => ImplementsStream` |

**Rotor** (N >= 2 ToRs, 1 <= Q <= N-1 queues). `Aligned` is not inductive: that today's
slot is right tomorrow depends on what was written into the others up to Q-1 days ago.
The inductive invariant `IInv` says it of every slot (`WindowIsNextDays`: the k-th slot
after the working one names the ToR reachable k days from now), that the matching is the
one of the installed interval, that device and routing name the same queue, and that
switch, uplinks and pending event agree on day and night. The step (`WindowSlides`) is the
case of `SetNight`: the slot just served becomes the last one, Q-1 days ahead, for which
`LastAddrAt` shows that the code's two cases pick the right ToR; all others move up by
one. The provers know little of `%`, so the remainders are turned into case distinctions
first (`ModBelow`, `ModOneWrap`, `ModTwoWraps`). `ServiceCorrect` maps every step of the
controller to one of the service, under `IInv`.

**Single-queue variant.** `QueuedForCircuit` needs that the destination of a ToR is the one
its circuit leads to (`DestinationIsCircuit`), which needs that the matching is that of the
index (`InstalledIsCurrent`): the invariant `IInv` of `SingleSchedule`. The refinement then
goes action by action; packets are stutters. What is proved of `OcsSchedule` holds
of the variant, too.

**ToR routing.** A flow is known only if the estimate exceeded the threshold, and the
estimate is the least of the counters of a packet, whatever cells of the other rows it has;
that of the first row is exactly the number of packets counted of the keys with that cell
(`FirstRowExact`), which only grows, also while flows are erased. The bound on early packets and the drop timer rest on an invariant about each flow
(`FlowsInv`), which ties `enqueued` and `droptime` to the history variables. That no
counter exceeds the packets counted (`TypeOK`) needs the sum over the keys to grow by one
with each (`TotalDoes`, by induction over sets of keys).

**Uplink.** The invariant of `WorkConserving` gives in addition the types of the device;
each handler is treated once, as an operator, and the actions cite its lemma.
`FlushedCorrect` is restricted to one and four queues because `IntoNight` takes its index
modulo four; with other numbers it does not hold. `OneTransmission` is about the event list:
`BeginWork` makes the machine READY whatever it was, so that a completion which is still to
come would meet the next packet. The invariant (`EventInv`) says that the machine is BUSY
exactly if one completion is scheduled, that it is due no later than the transmission time,
and that by night it runs before dawn. The last needs both parts of the order of events: due no
later, and inserted before, since a transmission may end at the instant of dawn. It holds if
`TxTime <= NightLength`, as in the drivers; otherwise the property fails. With two or three
queues `IntoNight` may index past the vector, and `TypeOK` fails.

**Fabric.** `QueuePurity` needs that routing and uplink mean the same queue when night falls:
`BeginConfig` renames the slot `working_queue_index` names, `IntoNight` empties the one
before the queue the device has just been given. The invariant says that the two indices
agree; with it, the slot renamed is the queue emptied. A ToR with a queue for every other
one renames no slot, so that what `IntoNight` empties does not matter. Of the event list it is
used only that `Initialize` is alone in it at the start: no other handler sees the windows unset.

The other invariants of the fabric are about time, and share one inductive invariant (`FInv`).
`DeviceEvents_proofs` describes an event list by classes of events: all of a class are
due within some time (`Within`), run before all of another (`Precedes`), or are due some time
apart (`Spaced`, `Apart`), and shows what `Schedule`, `RemoveNext` and `Elapse` do to each.
`TInv` then says of each uplink and port that it is BUSY exactly if its completion is
scheduled, that what an uplink sends reaches the switch a transmission time apart and before
dawn, and, by phases (`Before`, `Day`, `Night`, `Over`), that by day all that is under way to
the switch fits the circuit (`Circuit`) and a port is done with its packet when the next one
arrives (`DoneBy`): a port's queue holds a packet only in an instant. The controller's own
invariant is that of `OcsSchedule_proofs`, instantiated. At dawn all uplinks begin to work in
turn; that is an induction over the ports (`DawnSends`). The number of queues is restricted
because of what `IntoNight` empties, as above.

The packets themselves are followed through four stages: the queues of the uplinks, the fibres
to the switch, the queues of its ports, the fibres to the ToRs. `InOrder` says that between
two ToRs every packet of a later stage was sent before those of an earlier one (`Chain`), and
that within a stage the order of a queue (`Sorted`) or of the events (`Rising`, `Punctual`) is
that of sending. A packet goes on only if it is the oldest of its pair in its stage. For an
uplink this is so because no window names a ToR twice (`InvDistinct`, from the invariant of
the controller), so that all packets of a pair are in one queue, which is taken from at its
head; at the switch, because a packet that is forwarded finds the port's queue empty
(`PortIsFree`, from `FInv`). `Account` says that the packets in these stages are those whose
fate is `"pending"`, each number once. Every handler then does one of three things (`Moves`):
it loses packets, delivers the oldest of a pair, or takes a new one; these are the actions of
`PairChannel`. `OnePlace` follows, since the stages are disjoint (`StagesDisjoint`) and a place
within a stage is found from the packet: its ToR, its slot, and its rank in the order.

**Route tables.** A handler is a fold over a list or two; `FoldExists` and induction give
what it leaves. The invariant is about the set of entries: once the routing is attached,
entries go through interfaces that are up, or a call has added them late (`UpOrLate`); they have been added by a call or for an address that is still
there (`Reasoned`), and those of the networks of a switch are all there (`Known`).
`NetworksHaveReason` is not inductive without the first: an address is removed from an
interface that is down without a look at the table, whose entries through it are then only
those of calls. `LookupCorrect` shows, by
induction over the table, that the best entry so far is the best of those before (`BestOf`, whose
winner `BestIs` identifies with `Best`); the metric and the mask it has are then those the
loop has kept. `RacksFound` needs the order of the table, too: among entries that are equally
good the loop takes the last, and the racks come after the node's networks (`RacksLast`).

**Bulk flow and links.** The invariant `BulkInv` has a part for the sender and one for the
link. Of the sender (`SenderInv`) it says that the pieces are joined end to end up to
`m_totBytes` (`Joined`), that each lies between two multiples of `m_sendSize` and bears the
quotient as its number (`Packed`), and what the application has in hand: between two
packets it stands at a multiple (`Fresh`), within one it holds exactly what is missing
to the next, or to the end of the flow (`Begun`). This is the part that partial writes
depend on. `Connected` says that a sender which still writes has not closed. The loop of
`SendData` is a recursive function; every pass re-establishes the invariant (`Passing`) and
so does the loop (`Looping`), by induction over its passes. That the marks stay in order
(`acked` before `next` before the end) is shown for every step, a timeout included, which
takes `next` back; an acknowledgement may then be of more than has been sent again. The
program is not ended (`aborted`) because of `HeaderAssumption`: no flow of the instance ends
in a packet shorter than its header. Where one does, `NS_ABORT_IF` ends the run.

Of the link it says, for any two classes of packets, that a queue or band holds only packets
of its class (`Sorted`), and what an idle transmitter implies. For a
`Prio2Device` (`PrioInv`) that is: nothing waits. For the queue disc (`DiscInv`): the device
queue is empty; packets wait in the disc only if the device has stopped it (`Drained`); and
at most one wake-up is due, while a packet is transmitted, and a stopped queue is full but for
the place this wake-up reports (`WakeDue`). A stopped queue is therefore never empty under an
idle transmitter, which rests on a device queue of at least one packet. `Runs` treats the loop
of `QueueDisc::Run`, for any quota: one packet is enough to stop the device or to empty the
disc (`Near`), after an arrival since nothing was held back unless the device was stopped, and
after a wake-up since it frees one place. A packet of the second band goes only once the first
is empty. Short packets remain a class of
their own though the disc takes their tags off, since `Of` sorts a packet by its piece. The
two parts meet in `Pending`: what is sent is a piece of the stream, and goes to the class of
its piece. Every step is then one of a kind (`BulkStep`), from which `ServesShort` and the
steps of `ByteStream` follow.

`MaxAcked` and `Quota` are any numbers in the proofs, `MaxLosses` any below `DataRetries`
(the proofs make no use of that). `NoTag` is assumed to be no number.

**Induction.** The induction theorems of the library take an operator as a parameter, which
the provers cannot instantiate. The proofs use two lemmas instead, derived from the
well-foundedness of the naturals: `MinIn`, that a set of naturals has a least element, and
`SetInduction`, induction over an initial part of the naturals with a set in place of a
predicate; and, for a recursive function or a fold, `RecursionExists` and `FoldExists`. Modules
that use them state them at their beginning.

**Only model-checked** are the three liveness properties, `EveryPairConnected`,
`PacketSettles` and `FlowCompletes`: fairness and `ENABLED` are beyond the prover.

## 5. What is not modelled

`AppPlanner` and `FlowSizeDistribution` run before the simulation, draw pairs, sizes and
times from random variables and write a list of flows; the models take any flows. Helpers
and drivers build the topology the constants stand for, analysis scripts read output files.
Header formatting, logging, traces and output files are left out, and so are `MetadataHeader`
and `MqOnOffQueueDisc`, which are not built.

Upstream ns-3, all of `src/src` but `ocs` (some 750000 lines), is a general network
simulator: LTE, Wi-Fi, routing protocols and so on, none of which this program's own
logic calls. It is modelled only where the module rests on it: the event list, the
point-to-point device and channel, the run and wake-up of a queue disc, and as much of the TCP
socket as the bulk sender and the links below it see. The share of the repository's lines
these models stand for is therefore small, although nearly all of `src/src/ocs/model` that
changes state in a simulation is covered.

Of TCP the handshake, congestion control, SACK, premature timeouts and the end of a connection
after too many timeouts are left out. The
application above the fabric is not composed with it: `PairChannel` and `BulkFlow` are checked
each on its own.

## 6. Plan

1. `OcsSchedule` with `RotorService`, proofs of both – done.
2. `MultiChannelDevice`, `MultiChannelUplink`, `OcsFabric`, `PairChannel` – done; all invariants
   and the refinement proved.
3. `EpsRouting` – done and proved.
4. `RouteTable`, `NodeRouting` – done and proved.
5. `SingleSchedule` – done and proved.
6. `Prio2Device`, `FlowSizeQueueDisc`, `BulkFlow`, `ByteStream` – done and proved.
7. Open: `BulkFlow` over two links, one electrical and one optical, with the reordering
   between them.
