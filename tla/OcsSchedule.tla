------------------------------ MODULE OcsSchedule ------------------------------
(***************************************************************************)
(* The rotor controller of the simulator: class RouteSchedule, together    *)
(* with the state it steers in its neighbours,                             *)
(*   - the optical switch (Ipv4OcsRouting): devicesMap and atnight,        *)
(*   - the routing of every ToR (Ipv4EpsRouting): the window of            *)
(*     destinations ocs_dest_addr and the index working_queue_index,       *)
(*   - the optical uplink of every ToR (MultiChannelPointToPointDevice):   *)
(*     working and working_queue_idx.                                      *)
(* The controller alternates days, in which the switch connects ToR i to   *)
(* ToR i + interval, with nights, in which it is reconfigured for the next *)
(* interval.  Each of its three event handlers is one action.  What a      *)
(* device does with its packets is in MultiChannelDevice and OcsFabric.    *)
(***************************************************************************)
EXTENDS Integers

CONSTANTS
    N,              \* ToRs on the switch: GetNDevices()-1, without loopback
    Q,              \* queues of an uplink, GetQueueNumber()
    Interval,       \* time_intervalNs, the length of a day
    ReConfigurable, \* ReConfigurableNs, the length of a night
    FinishTime      \* finishtime, after which no new day begins

(***************************************************************************)
(* With one ToR set_numbers is 0 and the code computes a remainder by 0;   *)
(* with Q >= N a window would name fewer ToRs than the device has queues.  *)
(* Neither is checked by the code, every driver respects both.             *)
(***************************************************************************)
ASSUME ScheduleAssumption ==
    /\ N \in Nat /\ N >= 2
    /\ Q \in Nat /\ 1 <= Q /\ Q <= N - 1
    /\ Interval \in Nat /\ ReConfigurable \in Nat /\ FinishTime \in Nat

Tor == 0 .. N - 1
SetNumbers == N - 1     \* set_numbers
Slot == 0 .. Q - 1      \* positions of ocs_dest_addr, queues of the device

VARIABLES
    set_index,           \* RouteSchedule: the next interval is set_index+1
    event,               \* the one controller event that is scheduled
    rounds,              \* calls of SetRoutings so far
    devicesMap,          \* Ipv4OcsRouting: input port -> output port
    atnight,             \* Ipv4OcsRouting: reconfiguring, drop everything
    ocs_dest_addr,       \* Ipv4EpsRouting: the window of each ToR
    working_queue_index, \* Ipv4EpsRouting: the slot reachable today
    working,             \* device: may transmit
    working_queue_idx    \* device: the queue it transmits from

vars == <<set_index, event, rounds, devicesMap, atnight, ocs_dest_addr,
          working_queue_index, working, working_queue_idx>>

Event == {"Initialize", "SetNight", "SetRoutings", "none"}
NoMatch == [i \in {} |-> i]     \* an empty std::map
NoWindow == [k \in {} |-> k]    \* an empty std::vector
-------------------------------------------------------------------------------
(* The permutation installed for an interval: ClearDeviceMatch, then one   *)
(* AddDeviceMatch per port.  The map is empty before, so that every insert *)
(* succeeds and match_count is N.                                          *)
MatchingOffByOne(interval) == [i \in Tor |-> (i + interval - 1) % N]
MatchingClamped(interval) ==
    [i \in Tor |-> IF i + interval < N THEN i + interval ELSE 0]
Matching(interval) == [i \in Tor |-> (i + interval) % N]

NextSetIndexNoWrap(s) == s + 1
NextSetIndexStuck(s) == IF s + 1 = SetNumbers THEN s ELSE s + 1
NextSetIndex(s) == (s + 1) % SetNumbers

(* The first window of ToR i: i+1, i+2, ... up to the number of queues.    *)
FirstWindow(i) == [k \in Slot |-> (i + 1 + k) % N]

(* The ToR that enters the window of i when `interval` is installed: the   *)
(* one reachable Q-1 days later.  The wrap at N skips i itself.            *)
LastAddrNoSkip(i, interval) == (i + interval + Q - 1) % N
LastAddr(i, interval) ==
    IF interval + Q - 1 >= N
    THEN (i + interval + Q) % N
    ELSE (i + interval + Q - 1) % N

(* Ipv4EpsRouting::BeginConfig: with an address when the window slides     *)
(* (fewer queues than other ToRs), without one when it holds all of them.  *)
WindowAfterAdvanced(i, interval) ==
    IF Q < SetNumbers
    THEN [ocs_dest_addr[i] EXCEPT
             ![(working_queue_index[i] + 1) % Q] = LastAddr(i, interval)]
    ELSE ocs_dest_addr[i]
WindowAfter(i, interval) ==
    IF Q < SetNumbers
    THEN [ocs_dest_addr[i] EXCEPT
             ![working_queue_index[i]] = LastAddr(i, interval)]
    ELSE ocs_dest_addr[i]

NextQueueOfFour(i) == (working_queue_index[i] + 1) % 4
NextQueueNoWrap(i) == working_queue_index[i] + 1
NextQueue(i) == (working_queue_index[i] + 1) % Q
-------------------------------------------------------------------------------
(* Before Initialize: what the constructors leave.                         *)
Init ==
    /\ set_index = 0
    /\ event = "Initialize"
    /\ rounds = 0
    /\ devicesMap = NoMatch
    /\ atnight = FALSE
    /\ ocs_dest_addr = [i \in Tor |-> NoWindow]
    /\ working_queue_index = [i \in Tor |-> 0]
    /\ working = [i \in Tor |-> FALSE]
    /\ working_queue_idx = [i \in Tor |-> 0]

(* Simulator::Now() in the r-th call of SetRoutings; the first one is made *)
(* by Initialize before the simulation runs.                               *)
Now(r) == r * (Interval + ReConfigurable)

(* The body of SetRoutings, which Initialize also runs.  After finishtime  *)
(* it returns at once and schedules nothing: the last night never ends.    *)
StartDayKeepsNight ==
    /\ rounds' = rounds + 1
    /\ IF Now(rounds) >= FinishTime
       THEN event' = "none" /\ UNCHANGED <<atnight, working>>
       ELSE /\ UNCHANGED atnight
            /\ working' = [i \in Tor |-> TRUE]
            /\ event' = "SetNight"
StartDay ==
    /\ rounds' = rounds + 1
    /\ \/ /\ Now(rounds) >= FinishTime
          /\ event' = "none"
          /\ UNCHANGED <<atnight, working>>
       \/ /\ Now(rounds) < FinishTime
          /\ atnight' = FALSE
          /\ working' = [i \in Tor |-> TRUE]
          /\ event' = "SetNight"

(* RouteSchedule::Initialize.                                              *)
Initialize ==
    /\ event = "Initialize"
    /\ ocs_dest_addr' = [i \in Tor |-> FirstWindow(i)]
    /\ devicesMap' = Matching(set_index + 1)
    /\ set_index' = NextSetIndex(set_index)
    /\ StartDay
    /\ UNCHANGED <<working_queue_index, working_queue_idx>>

(* RouteSchedule::SetRoutings, the event that ends a night.                *)
SetRoutingsReconfigures ==
    /\ event = "SetRoutings"
    /\ StartDay
    /\ devicesMap' = Matching(set_index + 1)
    /\ UNCHANGED <<set_index, ocs_dest_addr, working_queue_index,
                   working_queue_idx>>
SetRoutings ==
    /\ event = "SetRoutings"
    /\ StartDay
    /\ UNCHANGED <<set_index, devicesMap, ocs_dest_addr,
                   working_queue_index, working_queue_idx>>

(* RouteSchedule::SetNight, the event that ends a day: BeginConfig,        *)
(* SetWorkingQueue and IntoNight on every ToR.                             *)
SetNight ==
    LET interval == set_index + 1 IN
    /\ event = "SetNight"
    /\ devicesMap' = Matching(interval)
    /\ atnight' = TRUE
    /\ ocs_dest_addr' = [i \in Tor |-> WindowAfter(i, interval)]
    /\ working_queue_index' = [i \in Tor |-> NextQueue(i)]
    /\ working_queue_idx' = [i \in Tor |-> NextQueue(i)]
    /\ working' = [i \in Tor |-> FALSE]
    /\ set_index' = NextSetIndex(set_index)
    /\ event' = "SetRoutings"
    /\ UNCHANGED rounds

Next == Initialize \/ SetRoutings \/ SetNight

Spec == Init /\ [][Next]_vars

(* Simulator::Run executes the scheduled event until none is left.         *)
FairSpec == Spec /\ WF_vars(Next)
-------------------------------------------------------------------------------
Ready == event # "Initialize"       \* Initialize has returned
Lit == event = "SetNight"           \* a day is running

(* The interval whose matching is installed; set_index is already the next *)
(* one's.                                                                  *)
Current == IF set_index = 0 THEN N - 1 ELSE set_index

(* The interval that will be installed k reconfigurations from now.        *)
Ahead(k) ==
    IF Current + k <= N - 1 THEN Current + k ELSE Current + k - (N - 1)

(* Types and ranges of all the variables, windows being total once         *)
(* Initialize has filled them.                                             *)
TypeOK ==
    /\ set_index \in 0 .. SetNumbers - 1
    /\ event \in Event
    /\ rounds \in Nat
    /\ devicesMap \in IF Ready THEN [Tor -> Tor] ELSE {NoMatch}
    /\ atnight \in BOOLEAN
    /\ ocs_dest_addr \in
           [Tor -> IF Ready THEN [Slot -> Tor] ELSE {NoWindow}]
    /\ working_queue_index \in [Tor -> Slot]
    /\ working \in [Tor -> BOOLEAN]
    /\ working_queue_idx \in [Tor -> Slot]

(* The queue a ToR serves today holds the traffic of the ToR the switch    *)
(* connects it to today: three classes, each advancing an index of its     *)
(* own, never drift apart (Ipv4EpsRouting.h: ocs_dest_addr, "addrs which   *)
(* could be in touch by ocs in n days").                                   *)
Aligned ==
    Ready => \A i \in Tor :
                 ocs_dest_addr[i][working_queue_idx[i]] = devicesMap[i]

(* The k-th slot after the working one names the ToR that is reachable k   *)
(* days from now, for every slot: a packet queued now waits for the day of *)
(* its destination, across the wrap of the interval at N-1 and of the slot *)
(* at Q.                                                                   *)
WindowIsNextDays ==
    Ready => \A i \in Tor : \A k \in Slot :
                 ocs_dest_addr[i][(working_queue_index[i] + k) % Q]
                     = Matching(Ahead(k))[i]

(* The matching in the switch is the one of the installed interval, and    *)
(* the device serves the queue the routing points at: what Aligned needs   *)
(* besides the window.                                                     *)
InstalledIsCurrent == Ready => devicesMap = Matching(Current)
QueuesInStep == working_queue_idx = working_queue_index

(* The switch never connects a ToR to itself nor two ToRs to one port: the *)
(* circuit set is a fixed-point-free permutation (route-schedule.h:3-8).   *)
CircuitsDisjoint ==
    Ready => \A i \in Tor :
                 /\ devicesMap[i] # i
                 /\ \A j \in Tor : devicesMap[i] = devicesMap[j] => i = j

(* The switch and all uplinks agree on whether it is day: no uplink sends  *)
(* into a switch that is being reconfigured, none is silent in a day.      *)
DayAgreed ==
    event \in {"SetNight", "SetRoutings"} =>
        \A i \in Tor : working[i] = ~atnight

(* Initialize finds what the constructors left.                            *)
FreshUntilInitialize ==
    ~Ready => set_index = 0 /\ working_queue_index = [i \in Tor |-> 0]

(* While the event that ends a day is pending it is day.                   *)
LitByDay == Lit => ~atnight

(* The inductive invariant behind Aligned, WindowIsNextDays and            *)
(* CircuitsDisjoint: every step re-establishes all of it.                  *)
IInv ==
    /\ TypeOK
    /\ FreshUntilInitialize
    /\ InstalledIsCurrent
    /\ QueuesInStep
    /\ WindowIsNextDays
    /\ DayAgreed
    /\ LitByDay

(* Circuits, windows and queue indices only change together with the fall  *)
(* of a night, when everything that could use them is stopped.             *)
ReconfiguredInTheDark ==
    [][Ready /\ <<devicesMap, ocs_dest_addr, working_queue_idx>>' #
                    <<devicesMap, ocs_dest_addr, working_queue_idx>>
         => atnight' /\ \A i \in Tor : working[i] /\ ~working'[i]]_vars

(* A whole round of N-1 days fits before finishtime.                       *)
RoundLeft ==
    Ready /\ (rounds + N - 2) * (Interval + ReConfigurable) < FinishTime
Connected(i, j) == Lit /\ devicesMap[i] = j

(* As long as a whole round is left, every ToR gets connected to every     *)
(* other ToR again: the rotation skips no interval at its wrap.            *)
EveryPairConnected ==
    \A i, j \in Tor : i # j => (RoundLeft ~> Connected(i, j))
-------------------------------------------------------------------------------
(* The service the controller implements: see RotorService.                *)
PairsWithOffset(S) ==
    {p \in Tor \X Tor : \E k \in S : p[2] = (p[1] + k) % N}
Links == IF Lit THEN {<<i, devicesMap[i]>> : i \in Tor} ELSE {}
Due ==
    IF ~Ready THEN {}
    ELSE IF Lit THEN PairsWithOffset(Current + 1 .. N - 1)
    ELSE IF Current = 1 THEN {}
    ELSE PairsWithOffset(Current .. N - 1)

Service == INSTANCE RotorService WITH links <- Links, due <- Due

(* The controller implements the rotor service: in every round each        *)
(* ordered pair of ToRs is connected in exactly one day.                   *)
ImplementsService == Service!Spec
===============================================================================
