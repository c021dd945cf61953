-------------------------- MODULE SingleSchedule_proofs --------------------------
(***************************************************************************)
(* Proofs about the single-queue variant: for every number of ToRs and     *)
(* every capacity of the queues, what waits in an uplink is for the ToR    *)
(* its circuit leads to, and the variant refines OcsSchedule.              *)
(***************************************************************************)
EXTENDS SingleSchedule, TLAPS

-------------------------------------------------------------------------------
(* Remainders.                                                             *)

(* A remainder is below the modulus.                                       *)
LEMMA ModRange ==
    ASSUME NEW n \in Nat, n >= 1, NEW a \in Nat
    PROVE  a % n \in 0 .. n - 1
  BY SMT

(* A number below the modulus is its own remainder.                        *)
LEMMA ModBelow ==
    ASSUME NEW n \in Nat, n >= 1, NEW a \in 0 .. n - 1
    PROVE  a % n = a
  BY SMT

(* The modulus itself leaves nothing.                                      *)
LEMMA ModSelf ==
    ASSUME NEW n \in Nat, n >= 1
    PROVE  n % n = 0
  BY SMT

(* A matching is a function between ToRs.                                  *)
LEMMA MatchingType ==
    ASSUME NEW d \in Nat
    PROVE  Matching(d) \in [Tor -> Tor]
  <1>1. ASSUME NEW i \in Tor PROVE (i + d) % N \in Tor
    <2>1. i + d \in Nat /\ N \in Nat /\ N >= 1
      BY SingleAssumption DEF Tor
    <2> QED  BY <2>1, ModRange DEF Tor
  <1> QED  BY <1>1 DEF Matching

(* The controller's set_index runs through 0 .. N-2; the interval that was *)
(* installed last is the one before it.                                    *)
LEMMA NextSetIndexAt ==
    ASSUME set_index \in 0 .. SetNumbers - 1
    PROVE  /\ NextSetIndex \in 0 .. SetNumbers - 1
           /\ NextSetIndex = IF set_index + 1 = N - 1 THEN 0 ELSE set_index + 1
  <1> USE SingleAssumption DEF SetNumbers
  <1>0. N - 1 \in Nat /\ N - 1 >= 1
    OBVIOUS
  <1>1. CASE set_index + 1 < N - 1
    <2>1. (set_index + 1) % (N - 1) = set_index + 1
      BY <1>0, <1>1, ModBelow
    <2> QED  BY <1>1, <2>1 DEF NextSetIndex
  <1>2. CASE set_index + 1 = N - 1
    <2>1. (N - 1) % (N - 1) = 0
      BY <1>0, ModSelf
    <2> QED  BY <1>2, <2>1 DEF NextSetIndex
  <1> QED  BY <1>1, <1>2

(* The address SetNight computes is that of the ToR at the new interval.   *)
LEMMA LastAddrAt ==
    ASSUME NEW i \in Tor, NEW d \in 1 .. N - 1
    PROVE  LastAddr(i, d) = Matching(d)[i]
  BY SingleAssumption DEF LastAddr, Matching, Tor
-------------------------------------------------------------------------------
(* The handlers of an uplink.                                              *)

DeviceType == Device!DeviceState(Tor)

(* A new device is a device with nothing to carry.                         *)
LEMMA NewDeviceType == Device!NewDevice \in DeviceType
  BY DEF DeviceType, Device!NewDevice, Device!DeviceState, Device!Slot

(* ServeWorkingQueue takes the head of the queue for transmission.         *)
LEMMA ServeKeeps ==
    ASSUME NEW d \in DeviceType, NEW j \in Tor,
           \A n \in DOMAIN d.queues[0] : d.queues[0][n] = j,
           d.current # NoPacket => d.current = j
    PROVE  LET e == Device!ServeWorkingQueue(d).device IN
           /\ e \in DeviceType
           /\ e.working = d.working /\ e.queue = d.queue
           /\ CarriesOnly(e, j)
  <1> DEFINE q == d.queues[0]
  <1>0. d.queue = 0 /\ q \in Seq(Tor) /\ d.queues = [k \in {0} |-> q]
    BY DEF DeviceType, Device!DeviceState, Device!Slot
  <1>1. CASE q = <<>>
    <2>1. Device!ServeWorkingQueue(d).device = d
      BY <1>0, <1>1 DEF Device!ServeWorkingQueue, Device!Result
    <2> QED  BY <2>1 DEF CarriesOnly
  <1>2. CASE q # <<>>
    <2> DEFINE e == [d EXCEPT !.queues[0] = Tail(q),
                              !.machine = "BUSY", !.current = Head(q)]
    <2>1. Device!ServeWorkingQueue(d).device = e
      BY <1>0, <1>2
      DEF Device!ServeWorkingQueue, Device!TransmitStart, Device!Result,
          DeviceType, Device!DeviceState, Device!Slot
    <2>2. Head(q) = j /\ Tail(q) \in Seq(Tor)
      BY <1>0, <1>2
    <2>3. \A n \in DOMAIN Tail(q) : Tail(q)[n] = j
      BY <1>0, <1>2
    <2>4. e \in DeviceType
      BY <1>0, <2>2 DEF DeviceType, Device!DeviceState, Device!Slot
    <2>5. /\ e.queues[0] = Tail(q) /\ e.current = j
          /\ e.working = d.working /\ e.queue = d.queue
      BY <1>0, <2>2 DEF DeviceType, Device!DeviceState, Device!Slot
    <2> QED  BY <2>1, <2>3, <2>4, <2>5 DEF CarriesOnly
  <1> QED  BY <1>1, <1>2

(* BeginWork forgets what was transmitted and serves the queue.            *)
LEMMA BeginWorkKeeps ==
    ASSUME NEW d \in DeviceType, NEW j \in Tor, CarriesOnly(d, j)
    PROVE  LET e == Device!BeginWork(d).device IN
           e \in DeviceType /\ e.working /\ CarriesOnly(e, j)
  <1> DEFINE b == [d EXCEPT !.working = TRUE, !.machine = "READY",
                            !.current = NoPacket]
  <1>1. /\ b \in DeviceType /\ b.working /\ b.current = NoPacket
        /\ b.queues = d.queues
    BY DEF DeviceType, Device!DeviceState, Device!Slot
  <1>2. \A n \in DOMAIN b.queues[0] : b.queues[0][n] = j
    BY <1>1 DEF CarriesOnly
  <1>3. Device!BeginWork(d) = Device!ServeWorkingQueue(b)
    BY DEF Device!BeginWork
  <1> QED  BY <1>1, <1>2, <1>3, ServeKeeps

(* IntoNight stops the device and empties its queue.                       *)
LEMMA IntoNightClears ==
    ASSUME NEW d \in DeviceType
    PROVE  LET e == Device!IntoNight(d) IN
           e \in DeviceType /\ ~e.working /\ \A j \in Tor : CarriesOnly(e, j)
  <1> DEFINE e == [d EXCEPT !.working = FALSE, !.queues[0] = <<>>]
  <1>1. Device!IntoNight(d) = e
    BY DEF Device!IntoNight, Device!FlushedQueue, Device!Slot, DeviceType,
           Device!DeviceState
  <1>2. e \in DeviceType /\ ~e.working /\ e.queues[0] = <<>>
    BY DEF DeviceType, Device!DeviceState, Device!Slot
  <1> QED  BY <1>1, <1>2 DEF CarriesOnly

(* Send appends a packet for the same ToR, or refuses it.                  *)
LEMMA SendKeeps ==
    ASSUME NEW d \in DeviceType, NEW j \in Tor, CarriesOnly(d, j)
    PROVE  LET e == Device!Send(d, j, 0).device IN
           e \in DeviceType /\ e.working = d.working /\ CarriesOnly(e, j)
  <1> DEFINE a == [d EXCEPT !.queues[0] = Append(d.queues[0], j)]
  <1>0. d.queues[0] \in Seq(Tor)
    BY DEF DeviceType, Device!DeviceState, Device!Slot
  <1>1. /\ a \in DeviceType /\ a.working = d.working /\ a.current = d.current
        /\ a.queues[0] = Append(d.queues[0], j)
    BY <1>0 DEF DeviceType, Device!DeviceState, Device!Slot
  <1>2. \A n \in DOMAIN a.queues[0] : a.queues[0][n] = j
    BY <1>0, <1>1 DEF CarriesOnly
  <1>3. CASE Len(d.queues[0]) >= Capacity
    BY <1>3 DEF Device!Send, Device!Result
  <1>4. CASE ~(Len(d.queues[0]) >= Capacity)
    <2>1. CASE d.working /\ d.machine = "READY"
      <3>1. Device!Send(d, j, 0) = Device!ServeWorkingQueue(a)
        BY <1>4, <2>1 DEF Device!Send
      <3>2. a.current # NoPacket => a.current = j
        BY <1>1, <2>1 DEF CarriesOnly
      <3> QED  BY <1>1, <1>2, <3>1, <3>2, ServeKeeps
    <2>2. CASE ~(d.working /\ d.machine = "READY")
      <3>1. Device!Send(d, j, 0).device = a
        BY <1>4, <2>2 DEF Device!Send, Device!Result
      <3> QED  BY <1>1, <1>2, <3>1 DEF CarriesOnly
    <2> QED  BY <2>1, <2>2
  <1> QED  BY <1>3, <1>4

(* TransmitComplete goes on with the same queue by day.                    *)
LEMMA TransmitCompleteKeeps ==
    ASSUME NEW d \in DeviceType, NEW j \in Tor, CarriesOnly(d, j)
    PROVE  LET e == Device!TransmitComplete(d).device IN
           e \in DeviceType /\ e.working = d.working /\ CarriesOnly(e, j)
  <1>1. CASE d.machine # "BUSY" \/ d.current = NoPacket
    <2> DEFINE c == [d EXCEPT !.crashed = TRUE]
    <2>1. Device!TransmitComplete(d).device = c
      BY <1>1 DEF Device!TransmitComplete, Device!Crash, Device!Result
    <2>2. /\ c \in DeviceType /\ c.working = d.working
          /\ c.current = d.current /\ c.queues = d.queues
      BY DEF DeviceType, Device!DeviceState, Device!Slot
    <2> QED  BY <2>1, <2>2 DEF CarriesOnly
  <1>2. CASE ~(d.machine # "BUSY" \/ d.current = NoPacket)
    <2> DEFINE r == [d EXCEPT !.machine = "READY", !.current = NoPacket]
    <2>1. /\ r \in DeviceType /\ r.working = d.working
          /\ r.current = NoPacket /\ r.queues = d.queues
      BY DEF DeviceType, Device!DeviceState, Device!Slot
    <2>2. \A n \in DOMAIN r.queues[0] : r.queues[0][n] = j
      BY <2>1 DEF CarriesOnly
    <2>3. CASE d.working
      <3>1. Device!TransmitComplete(d) = Device!ServeWorkingQueue(r)
        BY <1>2, <2>1, <2>3 DEF Device!TransmitComplete
      <3> QED  BY <2>1, <2>2, <3>1, ServeKeeps
    <2>4. CASE ~d.working
      <3>1. Device!TransmitComplete(d).device = r
        BY <1>2, <2>1, <2>4 DEF Device!TransmitComplete, Device!Result
      <3> QED  BY <2>1, <2>2, <3>1 DEF CarriesOnly
    <2> QED  BY <2>3, <2>4
  <1> QED  BY <1>1, <1>2
-------------------------------------------------------------------------------
(* The inductive invariant.                                                *)

(* The interval of the installed matching.                                 *)
LEMMA CurrentRange ==
    ASSUME TypeOK
    PROVE  Current \in 1 .. N - 1
  BY SingleAssumption DEF TypeOK, Current, SetNumbers

(* The next interval is set_index + 1, and becomes the current one.        *)
LEMMA CurrentStep ==
    ASSUME TypeOK, set_index' = NextSetIndex
    PROVE  /\ set_index' \in 0 .. SetNumbers - 1
           /\ set_index + 1 \in 1 .. N - 1
           /\ Current' = set_index + 1
  <1>1. set_index \in 0 .. SetNumbers - 1
    BY DEF TypeOK
  <1>2. /\ set_index' \in 0 .. SetNumbers - 1
        /\ set_index' = IF set_index + 1 = N - 1 THEN 0 ELSE set_index + 1
    BY <1>1, NextSetIndexAt
  <1>3. set_index + 1 \in 1 .. N - 1
    BY <1>1, SingleAssumption DEF SetNumbers
  <1>4. Current' = IF set_index' = 0 THEN N - 1 ELSE set_index'
    BY DEF Current
  <1> QED  BY <1>2, <1>3, <1>4

(* Dawn: uplinks that carry only their circuit's packets go on doing so.   *)
LEMMA StartDayKeeps ==
    ASSUME StartDay, rounds \in Nat, atnight \in BOOLEAN,
           dev \in [Tor -> DeviceType],
           NEW m \in [Tor -> Tor], \A i \in Tor : CarriesOnly(dev[i], m[i])
    PROVE  /\ event' \in {"none", "SetNight"} /\ Ready'
           /\ rounds' \in Nat /\ atnight' \in BOOLEAN
           /\ dev' \in [Tor -> DeviceType]
           /\ \A i \in Tor : CarriesOnly(dev'[i], m[i])
  <1>1. CASE UNCHANGED <<atnight, dev>>
    BY <1>1 DEF StartDay, Ready
  <1>2. CASE /\ atnight' = FALSE
             /\ dev' = [i \in Tor |-> Device!BeginWork(dev[i]).device]
             /\ event' = "SetNight"
    <2>1. ASSUME NEW i \in Tor
          PROVE  /\ Device!BeginWork(dev[i]).device \in DeviceType
                 /\ CarriesOnly(Device!BeginWork(dev[i]).device, m[i])
      BY BeginWorkKeeps
    <2>2. /\ dev' \in [Tor -> DeviceType]
          /\ \A i \in Tor : CarriesOnly(dev'[i], m[i])
      BY <1>2, <2>1
    <2>3. rounds' \in Nat
      BY DEF StartDay
    <2> QED  BY <1>2, <2>2, <2>3 DEF Ready
  <1> QED  BY <1>1, <1>2 DEF StartDay

(* What the constructors leave.                                            *)
LEMMA InvInit == Init => IInv
  <1> SUFFICES ASSUME Init PROVE IInv
    OBVIOUS
  <1>1. ~Ready /\ FreshUntilInitialize
    BY DEF Init, Ready, FreshUntilInitialize
  <1>2. 0 \in 0 .. SetNumbers - 1
    BY SingleAssumption DEF SetNumbers
  <1>3. TypeOK
    BY <1>1, <1>2, NewDeviceType DEF Init, TypeOK, DeviceType
  <1> QED  BY <1>1, <1>3 DEF IInv, InstalledIsCurrent, DestinationIsCircuit,
                              QueuedForCircuit

(* Initialize: the first matching and the first destinations.              *)
LEMMA InvInitialize == IInv /\ Initialize => IInv'
  <1> SUFFICES ASSUME IInv, Initialize PROVE IInv'
    OBVIOUS
  <1> DEFINE m == Matching(1)
  <1>1. /\ TypeOK /\ ~Ready /\ set_index = 0
        /\ dev = [i \in Tor |-> Device!NewDevice]
    BY DEF IInv, Initialize, Ready, FreshUntilInitialize
  <1>2. /\ set_index' \in 0 .. SetNumbers - 1 /\ Current' = 1
    BY <1>1, CurrentStep DEF Initialize
  <1>3. m \in [Tor -> Tor]
    BY MatchingType
  <1>4. devicesMap' = m /\ ocs_dest_addr' = m
    BY <1>1 DEF Initialize, Matching
  <1>5. \A i \in Tor : CarriesOnly(dev[i], m[i])
    BY <1>1 DEF CarriesOnly, Device!NewDevice, Device!Slot
  <1>6. /\ event' \in {"none", "SetNight"} /\ Ready'
        /\ rounds' \in Nat /\ atnight' \in BOOLEAN
        /\ dev' \in [Tor -> DeviceType]
        /\ \A i \in Tor : CarriesOnly(dev'[i], m[i])
    <2>1. rounds \in Nat /\ atnight \in BOOLEAN /\ dev \in [Tor -> DeviceType]
      BY <1>1 DEF TypeOK, DeviceType
    <2>2. StartDay
      BY DEF Initialize
    <2> HIDE DEF m
    <2> QED  BY <1>3, <1>5, <2>1, <2>2, StartDayKeeps
  <1>7. TypeOK'
    BY <1>2, <1>3, <1>4, <1>6 DEF TypeOK, DeviceType
  <1> QED  BY <1>2, <1>4, <1>6, <1>7
           DEF IInv, FreshUntilInitialize, InstalledIsCurrent,
               DestinationIsCircuit, QueuedForCircuit

(* SetRoutings changes the devices only.                                   *)
LEMMA InvSetRoutings == IInv /\ SetRoutings => IInv'
  <1> SUFFICES ASSUME IInv, SetRoutings PROVE IInv'
    OBVIOUS
  <1>1. TypeOK /\ Ready
    BY DEF IInv, SetRoutings, Ready
  <1>2. /\ event' \in {"none", "SetNight"} /\ Ready'
        /\ rounds' \in Nat /\ atnight' \in BOOLEAN
        /\ dev' \in [Tor -> DeviceType]
        /\ \A i \in Tor : CarriesOnly(dev'[i], devicesMap[i])
    <2>1. /\ rounds \in Nat /\ atnight \in BOOLEAN
          /\ dev \in [Tor -> DeviceType] /\ devicesMap \in [Tor -> Tor]
      BY <1>1 DEF TypeOK, DeviceType
    <2>2. \A i \in Tor : CarriesOnly(dev[i], devicesMap[i])
      BY <1>1 DEF IInv, QueuedForCircuit
    <2> QED  BY <2>1, <2>2, StartDayKeeps DEF SetRoutings
  <1>3. UNCHANGED <<set_index, devicesMap, ocs_dest_addr, Current>>
    BY DEF SetRoutings, Current
  <1>4. TypeOK'
    BY <1>1, <1>2, <1>3 DEF TypeOK, DeviceType
  <1> QED  BY <1>1, <1>2, <1>3, <1>4
           DEF IInv, FreshUntilInitialize, InstalledIsCurrent,
               DestinationIsCircuit, QueuedForCircuit, Matching

(* SetNight: matching and destinations move together, queues are emptied.  *)
LEMMA InvSetNight == IInv /\ SetNight => IInv'
  <1> SUFFICES ASSUME IInv, SetNight PROVE IInv'
    OBVIOUS
  <1> DEFINE m == Matching(set_index + 1)
  <1>1. TypeOK
    BY DEF IInv
  <1>2. /\ set_index' \in 0 .. SetNumbers - 1 /\ Current' = set_index + 1
        /\ set_index + 1 \in 1 .. N - 1
    BY <1>1, CurrentStep DEF SetNight
  <1>3. m \in [Tor -> Tor]
    BY <1>2, MatchingType, SingleAssumption
  <1>4. devicesMap' = m
    BY DEF SetNight
  <1>5. ocs_dest_addr' = m
    <2>1. \A i \in Tor : LastAddr(i, set_index + 1) = m[i]
      BY <1>2, LastAddrAt
    <2>2. m = [i \in Tor |-> m[i]]
      BY <1>3
    <2> QED  BY <2>1, <2>2 DEF SetNight
  <1>6. /\ dev' \in [Tor -> DeviceType]
        /\ \A i \in Tor : CarriesOnly(dev'[i], m[i])
    <2>1. ASSUME NEW i \in Tor
          PROVE  /\ Device!IntoNight(dev[i]) \in DeviceType
                 /\ CarriesOnly(Device!IntoNight(dev[i]), m[i])
      <3>1. dev[i] \in DeviceType
        BY <1>1 DEF TypeOK, DeviceType
      <3>2. m[i] \in Tor
        BY <1>3
      <3> QED  BY <3>1, <3>2, IntoNightClears
    <2> QED  BY <2>1 DEF SetNight
  <1>7. event' = "SetRoutings" /\ atnight' = TRUE /\ rounds' = rounds
    BY DEF SetNight
  <1>8. TypeOK' /\ Ready'
    BY <1>1, <1>2, <1>3, <1>4, <1>5, <1>6, <1>7 DEF TypeOK, DeviceType, Ready
  <1> QED  BY <1>2, <1>4, <1>5, <1>6, <1>8
           DEF IInv, FreshUntilInitialize, InstalledIsCurrent,
               DestinationIsCircuit, QueuedForCircuit

(* A step of one uplink that goes on carrying its circuit's packets.       *)
LEMMA InvUplink ==
    ASSUME IInv, Ready, NEW i \in Tor, NEW e \in DeviceType,
           CarriesOnly(e, devicesMap[i]),
           dev' = [dev EXCEPT ![i] = e], UNCHANGED ctlVars
    PROVE  IInv'
  <1>1. /\ dev \in [Tor -> DeviceType]
        /\ \A j \in Tor : CarriesOnly(dev[j], devicesMap[j])
    BY DEF IInv, TypeOK, QueuedForCircuit, DeviceType
  <1>2. /\ dev' \in [Tor -> DeviceType]
        /\ \A j \in Tor : CarriesOnly(dev'[j], devicesMap[j])
    BY <1>1
  <1>3. Ready' /\ UNCHANGED Current
    BY DEF ctlVars, Ready, Current
  <1>4. TypeOK'
    BY <1>2, <1>3 DEF IInv, TypeOK, ctlVars, DeviceType
  <1>5. (devicesMap = Matching(Current))'
    BY <1>3 DEF IInv, InstalledIsCurrent, ctlVars, Matching
  <1> QED  BY <1>2, <1>3, <1>4, <1>5
           DEF IInv, FreshUntilInitialize, InstalledIsCurrent,
               DestinationIsCircuit, QueuedForCircuit, ctlVars

(* A packet enters only for the destination of the ToR, by its circuit.    *)
LEMMA RouteInputDevice ==
    ASSUME IInv, NEW i \in Tor, NEW j \in Tor, NEW left_size \in LeftSizes,
           RouteInput(i, j, left_size)
    PROVE  LET e == Device!Send(dev[i], j, 0).device IN
           /\ Ready /\ e \in DeviceType /\ e.working = dev[i].working
           /\ CarriesOnly(e, devicesMap[i])
  <1>1. Ready
    BY SingleAssumption DEF RouteInput, IInv, FreshUntilInitialize
  <1>2. dev[i] \in DeviceType /\ CarriesOnly(dev[i], devicesMap[i])
    BY <1>1 DEF IInv, TypeOK, QueuedForCircuit, DeviceType
  <1>3. j = devicesMap[i]
    BY <1>1 DEF RouteInput, TakesCircuit, IInv, DestinationIsCircuit
  <1> QED  BY <1>1, <1>2, <1>3, SendKeeps

(* A transmission ends only after Initialize.                              *)
LEMMA TransmitCompleteDevice ==
    ASSUME IInv, NEW i \in Tor, TransmitComplete(i)
    PROVE  LET e == Device!TransmitComplete(dev[i]).device IN
           /\ Ready /\ e \in DeviceType /\ e.working = dev[i].working
           /\ CarriesOnly(e, devicesMap[i])
  <1>1. Ready
    BY DEF TransmitComplete, IInv, FreshUntilInitialize, Device!NewDevice
  <1>2. /\ dev[i] \in DeviceType /\ CarriesOnly(dev[i], devicesMap[i])
        /\ devicesMap[i] \in Tor
    BY <1>1 DEF IInv, TypeOK, QueuedForCircuit, DeviceType
  <1> QED  BY <1>1, <1>2, TransmitCompleteKeeps

(* Every step keeps the inductive invariant.                               *)
LEMMA InvStep == IInv /\ [Next]_vars => IInv'
  <1> SUFFICES ASSUME IInv, [Next]_vars PROVE IInv'
    OBVIOUS
  <1>1. CASE Initialize
    BY <1>1, InvInitialize
  <1>2. CASE SetRoutings
    BY <1>2, InvSetRoutings
  <1>3. CASE SetNight
    BY <1>3, InvSetNight
  <1>4. ASSUME NEW i \in Tor, TransmitComplete(i) PROVE IInv'
    <2> DEFINE e == Device!TransmitComplete(dev[i]).device
    <2>1. Ready /\ e \in DeviceType /\ CarriesOnly(e, devicesMap[i])
      BY <1>4, TransmitCompleteDevice
    <2>2. dev' = [dev EXCEPT ![i] = e] /\ UNCHANGED ctlVars
      BY <1>4 DEF TransmitComplete
    <2> HIDE DEF e
    <2> QED  BY <2>1, <2>2, InvUplink
  <1>5. ASSUME NEW i \in Tor, NEW j \in Tor, NEW left_size \in LeftSizes,
               RouteInput(i, j, left_size)
        PROVE  IInv'
    <2> DEFINE e == Device!Send(dev[i], j, 0).device
    <2>1. Ready /\ e \in DeviceType /\ CarriesOnly(e, devicesMap[i])
      BY <1>5, RouteInputDevice
    <2>2. dev' = [dev EXCEPT ![i] = e] /\ UNCHANGED ctlVars
      BY <1>5 DEF RouteInput
    <2> HIDE DEF e
    <2> QED  BY <2>1, <2>2, InvUplink
  <1>6. CASE UNCHANGED vars
    BY <1>6 DEF vars, ctlVars, IInv, TypeOK, FreshUntilInitialize, Ready,
                InstalledIsCurrent, DestinationIsCircuit, QueuedForCircuit,
                Current, Matching
  <1> QED  BY <1>1, <1>2, <1>3, <1>4, <1>5, <1>6 DEF Next

(* Types and ranges (SingleRouteSchedule, the uplinks).                    *)
THEOREM TypeCorrect == Spec => []TypeOK
  <1>1. IInv => TypeOK
    BY DEF IInv
  <1> QED  BY <1>1, InvInit, InvStep, PTL DEF Spec

(* What waits in an uplink, and what it transmits by day, is for the ToR   *)
(* its circuit leads to (RouteInput, BeginConfig, IntoNight and            *)
(* AddDeviceMatch), for any number of ToRs, capacity and traffic.          *)
THEOREM QueuedCorrect == Spec => []QueuedForCircuit
  <1>1. IInv => QueuedForCircuit
    BY DEF IInv
  <1> QED  BY <1>1, InvInit, InvStep, PTL DEF Spec
-------------------------------------------------------------------------------
(* The refinement of OcsSchedule with one queue.                           *)

(* The window OcsSchedule sees: one slot with the destination, or nothing. *)
WindowOf(i) ==
    IF Ready THEN [k \in 0 .. 0 |-> ocs_dest_addr[i]] ELSE [k \in {} |-> k]

(* Every uplink works from dawn on, whatever it serves.                    *)
LEMMA DawnWorks ==
    ASSUME NEW d \in DeviceType
    PROVE  LET e == Device!BeginWork(d).device IN
           e.working = TRUE /\ e.queue = d.queue
  <1> DEFINE b == [d EXCEPT !.working = TRUE, !.machine = "READY",
                            !.current = NoPacket]
             e == [b EXCEPT !.queues[0] = Tail(d.queues[0]),
                            !.machine = "BUSY", !.current = Head(d.queues[0])]
  <1>1. /\ b \in DeviceType /\ b.working = TRUE /\ b.queue = d.queue
        /\ b.queue = 0 /\ b.queues = d.queues
    <2>1. Device!Slot = {0}
      BY DEF Device!Slot
    <2>2. d \in Device!DeviceState(Tor) /\ d.queue \in {0}
      BY <2>1 DEF DeviceType, Device!DeviceState
    <2>3. b \in Device!DeviceState(Tor)
      BY <2>2 DEF Device!DeviceState
    <2>4. b.working = TRUE /\ b.queue = d.queue /\ b.queues = d.queues
      BY <2>2 DEF Device!DeviceState
    <2> QED  BY <2>2, <2>3, <2>4 DEF DeviceType
  <1>2. Device!BeginWork(d).device \in {b, e}
    BY <1>1 DEF Device!BeginWork, Device!ServeWorkingQueue,
                Device!TransmitStart, Device!Result
  <1>3. e.working = TRUE /\ e.queue = d.queue
    BY DEF DeviceType, Device!DeviceState, Device!Slot
  <1> QED  BY <1>1, <1>2, <1>3

(* Dawn of the variant is dawn of OcsSchedule.                             *)
LEMMA StartDayMaps ==
    ASSUME IInv, StartDay
    PROVE  Schedule!StartDay /\ [i \in Tor |-> dev'[i].queue]
                                  = [i \in Tor |-> dev[i].queue]
  <1>1. CASE /\ Now(rounds) >= FinishTime
             /\ event' = "none"
             /\ UNCHANGED <<atnight, dev>>
    BY <1>1 DEF StartDay, Schedule!StartDay, Now, Schedule!Now, Schedule!Tor, Tor
  <1>2. CASE /\ Now(rounds) < FinishTime
             /\ atnight' = FALSE
             /\ dev' = [i \in Tor |-> Device!BeginWork(dev[i]).device]
             /\ event' = "SetNight"
    <2>1. \A i \in Tor : dev'[i].working = TRUE /\ dev'[i].queue = dev[i].queue
      <3>1. \A i \in Tor : dev[i] \in DeviceType
        BY DEF IInv, TypeOK, DeviceType
      <3> QED  BY <1>2, <3>1, DawnWorks
    <2>2. [i \in Tor |-> dev'[i].working] = [i \in Tor |-> TRUE]
      BY <2>1
    <2> QED
      BY <1>2, <2>1, <2>2
      DEF StartDay, Schedule!StartDay, Now, Schedule!Now, Schedule!Tor, Tor
  <1> QED  BY <1>1, <1>2 DEF StartDay

(* The initial states map to initial states.                               *)
LEMMA InitMaps == Init => Schedule!Init
  <1> SUFFICES ASSUME Init PROVE Schedule!Init
    OBVIOUS
  <1>1. ~Ready
    BY DEF Init, Ready
  <1>2. \A i \in Tor : dev[i].working = FALSE /\ dev[i].queue = 0
    BY DEF Init, Device!NewDevice
  <1> QED  BY <1>1, <1>2
           DEF Init, Schedule!Init, Schedule!Tor, Schedule!NoMatch,
               Schedule!NoWindow, Tor

(* Initialize: the first window is the first destination.                  *)
LEMMA InitializeMaps == IInv /\ Initialize => Schedule!Initialize
  <1> SUFFICES ASSUME IInv, Initialize PROVE Schedule!Initialize
    OBVIOUS
  <1>1. event = "Initialize" /\ Ready'
    BY DEF Initialize, StartDay, Ready
  <1>2. Schedule!StartDay /\ [i \in Tor |-> dev'[i].queue]
                                = [i \in Tor |-> dev[i].queue]
    BY StartDayMaps DEF Initialize
  <1>3. \A i \in Tor : WindowOf(i)' = Schedule!FirstWindow(i)
    <2> SUFFICES ASSUME NEW i \in Tor
                 PROVE  WindowOf(i)' = Schedule!FirstWindow(i)
      OBVIOUS
    <2>1. WindowOf(i)' = [k \in 0 .. 0 |-> (i + 1) % N]
      BY <1>1 DEF WindowOf, Initialize
    <2>2. Schedule!Slot = 0 .. 0
      BY DEF Schedule!Slot
    <2>3. \A k \in 0 .. 0 : i + 1 + k = i + 1
      BY DEF Tor
    <2> QED  BY <2>1, <2>2, <2>3 DEF Schedule!FirstWindow
  <1>4. [i \in Tor |-> WindowOf(i)'] = [i \in Tor |-> Schedule!FirstWindow(i)]
    BY <1>3
  <1>5. devicesMap' = Schedule!Matching(set_index + 1)
    BY DEF Initialize, Matching, Schedule!Matching, Schedule!Tor, Tor
  <1>6. set_index' = Schedule!NextSetIndex(set_index)
    BY DEF Initialize, NextSetIndex, Schedule!NextSetIndex, SetNumbers,
           Schedule!SetNumbers
  <1> QED  BY <1>1, <1>2, <1>4, <1>5, <1>6
           DEF Schedule!Initialize, Schedule!Tor, Tor, WindowOf

(* SetRoutings.                                                            *)
LEMMA SetRoutingsMaps == IInv /\ SetRoutings => Schedule!SetRoutings
  <1> SUFFICES ASSUME IInv, SetRoutings PROVE Schedule!SetRoutings
    OBVIOUS
  <1>1. Schedule!StartDay /\ [i \in Tor |-> dev'[i].queue]
                                = [i \in Tor |-> dev[i].queue]
    BY StartDayMaps DEF SetRoutings
  <1>2. Ready /\ Ready'
    BY DEF SetRoutings, StartDay, Ready
  <1> QED  BY <1>1, <1>2 DEF SetRoutings, Schedule!SetRoutings, Schedule!Tor,
                             Tor

(* SetNight: the new destination is the ToR that enters the window.  With  *)
(* two ToRs OcsSchedule keeps its window, which names the one other ToR.   *)
LEMMA SetNightMaps == IInv /\ SetNight => Schedule!SetNight
  <1> SUFFICES ASSUME IInv, SetNight PROVE Schedule!SetNight
    OBVIOUS
  <1> DEFINE interval == set_index + 1
  <1>1. event = "SetNight" /\ Ready /\ Ready'
    BY DEF SetNight, Ready
  <1>2. set_index \in 0 .. SetNumbers - 1 /\ interval \in 1 .. N - 1
    BY SingleAssumption DEF IInv, TypeOK, SetNumbers
  <1>3. ASSUME NEW i \in Tor
        PROVE  /\ LastAddr(i, interval) = (i + interval) % N
               /\ Schedule!LastAddr(i, interval) = (i + interval) % N
    BY <1>2, SingleAssumption DEF LastAddr, Schedule!LastAddr, Tor
  <1>4. ASSUME NEW i \in Tor
        PROVE  WindowOf(i)' = Schedule!WindowAfter(i, interval)
    <2>1. WindowOf(i)' = [k \in 0 .. 0 |-> (i + interval) % N]
      BY <1>1, <1>3 DEF WindowOf, SetNight
    <2>2. WindowOf(i) = [k \in 0 .. 0 |-> ocs_dest_addr[i]]
      BY <1>1 DEF WindowOf
    <2>3. CASE 1 < N - 1
      <3>1. Schedule!WindowAfter(i, interval)
              = [WindowOf(i) EXCEPT ![0] = (i + interval) % N]
        BY <1>3, <2>3
        DEF Schedule!WindowAfter, Schedule!SetNumbers, Schedule!Tor, Tor,
            WindowOf
      <3> QED  BY <2>1, <2>2, <3>1
    <2>4. CASE ~(1 < N - 1)
      <3>1. N = 2 /\ set_index = 0
        BY <1>2, <2>4, SingleAssumption DEF SetNumbers
      <3>2. devicesMap = Matching(1)
        BY <1>1, <3>1 DEF IInv, InstalledIsCurrent, Current
      <3>3. ocs_dest_addr[i] = (i + interval) % N
        BY <1>1, <3>1, <3>2 DEF IInv, DestinationIsCircuit, Matching
      <3>4. Schedule!WindowAfter(i, interval) = WindowOf(i)
        BY <2>4
        DEF Schedule!WindowAfter, Schedule!SetNumbers, Schedule!Tor, Tor,
            WindowOf
      <3> QED  BY <2>1, <2>2, <3>3, <3>4
    <2> QED  BY <2>3, <2>4
  <1>5. \A i \in Tor : dev[i] \in DeviceType /\ dev'[i] = Device!IntoNight(dev[i])
    BY DEF IInv, TypeOK, SetNight, DeviceType
  <1>6. \A i \in Tor : dev'[i].working = FALSE /\ dev'[i].queue = 0
    <2> SUFFICES ASSUME NEW i \in Tor
                 PROVE  dev'[i].working = FALSE /\ dev'[i].queue = 0
      OBVIOUS
    <2>1. dev'[i] \in DeviceType /\ ~dev'[i].working
      BY <1>5, IntoNightClears
    <2> QED  BY <2>1 DEF DeviceType, Device!DeviceState, Device!Slot
  <1>7. \A i \in Tor : Schedule!NextQueue(i) = 0
    <2>1. (0 + 1) % 1 = 0
      OBVIOUS
    <2> QED  BY <2>1 DEF Schedule!NextQueue, Schedule!Tor, Tor
  <1>8. /\ devicesMap' = Schedule!Matching(interval)
        /\ set_index' = Schedule!NextSetIndex(set_index)
    BY DEF SetNight, Matching, Schedule!Matching, Schedule!Tor, Tor,
           NextSetIndex, Schedule!NextSetIndex, SetNumbers, Schedule!SetNumbers
  <1>9. [i \in Tor |-> WindowOf(i)']
          = [i \in Tor |-> Schedule!WindowAfter(i, interval)]
    BY <1>4
  <1> QED  BY <1>1, <1>6, <1>7, <1>8, <1>9
           DEF SetNight, Schedule!SetNight, Schedule!Tor, Tor, WindowOf

(* Packets come and go without a step of the controller.                   *)
LEMMA UplinkStutters ==
    ASSUME IInv, NEW i \in Tor, NEW e \in DeviceType,
           e.working = dev[i].working,
           dev' = [dev EXCEPT ![i] = e], UNCHANGED ctlVars
    PROVE  UNCHANGED Schedule!vars
  <1>1. dev \in [Tor -> DeviceType]
    BY DEF IInv, TypeOK, DeviceType
  <1>2. \A j \in Tor : /\ dev'[j].working = dev[j].working
                        /\ dev'[j].queue = dev[j].queue
    BY <1>1 DEF DeviceType, Device!DeviceState, Device!Slot
  <1> QED  BY <1>2 DEF Schedule!vars, ctlVars, Ready

(* Every step is one of OcsSchedule or changes nothing there.              *)
LEMMA StepMaps == IInv /\ [Next]_vars => [Schedule!Next]_(Schedule!vars)
  <1> SUFFICES ASSUME IInv, [Next]_vars
               PROVE  [Schedule!Next]_(Schedule!vars)
    OBVIOUS
  <1>1. CASE Initialize
    BY <1>1, InitializeMaps DEF Schedule!Next
  <1>2. CASE SetRoutings
    BY <1>2, SetRoutingsMaps DEF Schedule!Next
  <1>3. CASE SetNight
    BY <1>3, SetNightMaps DEF Schedule!Next
  <1>4. ASSUME NEW i \in Tor, TransmitComplete(i)
        PROVE  UNCHANGED Schedule!vars
    <2> DEFINE e == Device!TransmitComplete(dev[i]).device
    <2>1. e \in DeviceType /\ e.working = dev[i].working
      BY <1>4, TransmitCompleteDevice
    <2>2. dev' = [dev EXCEPT ![i] = e] /\ UNCHANGED ctlVars
      BY <1>4 DEF TransmitComplete
    <2> HIDE DEF e
    <2> QED  BY <2>1, <2>2, UplinkStutters
  <1>5. ASSUME NEW i \in Tor, NEW j \in Tor, NEW left_size \in LeftSizes,
               RouteInput(i, j, left_size)
        PROVE  UNCHANGED Schedule!vars
    <2> DEFINE e == Device!Send(dev[i], j, 0).device
    <2>1. e \in DeviceType /\ e.working = dev[i].working
      BY <1>5, RouteInputDevice
    <2>2. dev' = [dev EXCEPT ![i] = e] /\ UNCHANGED ctlVars
      BY <1>5 DEF RouteInput
    <2> HIDE DEF e
    <2> QED  BY <2>1, <2>2, UplinkStutters
  <1>6. CASE UNCHANGED vars
    BY <1>6 DEF vars, ctlVars, Schedule!vars, Ready
  <1> QED  BY <1>1, <1>2, <1>3, <1>4, <1>5, <1>6 DEF Next

(* The variant implements the rotor controller with one queue              *)
(* (SingleRouteSchedule::Initialize, SetRoutings and SetNight against      *)
(* those of RouteSchedule), for every number of ToRs.                      *)
THEOREM RefinesSchedule == Spec => ImplementsSchedule
  BY InvInit, InvStep, InitMaps, StepMaps, PTL
  DEF Spec, ImplementsSchedule, Schedule!Spec
===============================================================================
