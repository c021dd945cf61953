----------------------- MODULE MultiChannelUplink_proofs -----------------------
(***************************************************************************)
(* Proofs about the uplink, for every number of packets, all capacities    *)
(* and all lengths of day, night and transmission.  What concerns the      *)
(* queues holds in whatever order the handlers run.  That a transmission   *)
(* is over when BeginWork resets the transmitter depends on the event      *)
(* list: the second half is about it.                                      *)
(***************************************************************************)
EXTENDS MultiChannelUplink, DeviceEvents_proofs

Bounded(d) == \A k \in Slot : Len(d.queues[k]) <= Capacity
Busy(d) == d.working /\ d.machine = "READY" => d.queues[d.queue] = <<>>

(* A device whose queues are within their capacity and whose transmitter   *)
(* idles only without work: what every handler re-establishes.             *)
Sound(d) == d \in DeviceState(Packet) /\ Bounded(d) /\ Busy(d)
-------------------------------------------------------------------------------
(* A shorter queue.                                                        *)
LEMMA TailShorter ==
    ASSUME NEW S, NEW q \in Seq(S), q # <<>>
    PROVE  /\ Tail(q) \in Seq(S) /\ Len(Tail(q)) <= Len(q) /\ Head(q) \in S
  BY SMT

(* Serving the queue leaves the device sound by day: it transmits, or      *)
(* there is nothing to transmit.                                           *)
LEMMA ServeKeeps ==
    ASSUME NEW d \in DeviceState(Packet), Bounded(d)
    PROVE  /\ Sound(ServeWorkingQueue(d).device)
           /\ ServeWorkingQueue(d).device.working = d.working
           /\ ServeWorkingQueue(d).device.queue = d.queue
  <1> DEFINE q == d.queues[d.queue]
             e == [d EXCEPT !.queues[d.queue] = Tail(q), !.machine = "BUSY",
                            !.current = Head(q)]
  <1>1. d.queue \in Slot /\ q \in Seq(Packet) /\ Len(q) <= Capacity
    BY DEF DeviceState, Bounded
  <1>2. CASE q = <<>>
    BY <1>2 DEF ServeWorkingQueue, Result, Sound, Busy
  <1>3. CASE q # <<>>
    <2>1. /\ Tail(q) \in Seq(Packet) /\ Head(q) \in Packet
          /\ Len(Tail(q)) <= Len(q)
      BY <1>1, <1>3, TailShorter
    <2>2. ServeWorkingQueue(d).device = e
      BY <1>3 DEF ServeWorkingQueue, TransmitStart, Result, DeviceState
    <2> HIDE DEF q
    <2>3. /\ e \in DeviceState(Packet) /\ e.machine = "BUSY"
          /\ e.working = d.working /\ e.queue = d.queue
      BY <1>1, <2>1 DEF DeviceState
    <2>4. ASSUME NEW k \in Slot PROVE Len(e.queues[k]) <= Capacity
      <3>1. e.queues[k] = IF k = d.queue THEN Tail(q) ELSE d.queues[k]
        BY <1>1 DEF DeviceState
      <3>2. Len(Tail(q)) \in Nat /\ Len(q) \in Nat
        BY <1>1, <2>1
      <3> QED  BY <1>1, <2>1, <3>1, <3>2, DeviceAssumption DEF Bounded
    <2> QED  BY <2>2, <2>3, <2>4 DEF Sound, Bounded, Busy
  <1> QED  BY <1>2, <1>3

(* Send.                                                                   *)
LEMMA SendKeeps ==
    ASSUME NEW d, Sound(d), NEW p \in Packet, NEW k \in Slot
    PROVE  /\ Sound(Send(d, p, k).device)
           /\ Send(d, p, k).device.working = d.working
  <1> DEFINE e == [d EXCEPT !.queues[k] = Append(@, p)]
  <1>1. d \in DeviceState(Packet) /\ Bounded(d)
    BY DEF Sound
  <1>2. d.queues[k] \in Seq(Packet)
    BY <1>1 DEF DeviceState
  <1>3. CASE Len(d.queues[k]) >= Capacity
    BY <1>3 DEF Send, Result
  <1>4. CASE ~(Len(d.queues[k]) >= Capacity)
    <2>1. Len(d.queues[k]) \in Nat /\ Capacity \in Nat
      BY <1>2, DeviceAssumption
    <2>2. /\ Append(d.queues[k], p) \in Seq(Packet)
          /\ Len(Append(d.queues[k], p)) = Len(d.queues[k]) + 1
      BY <1>2
    <2>3. /\ e \in DeviceState(Packet)
          /\ e.working = d.working /\ e.machine = d.machine
      BY <1>1, <2>2 DEF DeviceState
    <2>4. Bounded(e)
      <3>1. \A x \in Slot : e.queues[x] = IF x = k THEN Append(d.queues[k], p)
                                          ELSE d.queues[x]
        BY <1>1 DEF DeviceState
      <3> QED  BY <1>1, <1>4, <2>1, <2>2, <3>1 DEF Bounded
    <2>5. CASE d.working /\ d.machine = "READY"
      <3>1. Send(d, p, k) = ServeWorkingQueue(e)
        BY <1>4, <2>5 DEF Send
      <3> HIDE DEF e
      <3> QED  BY <2>3, <2>4, <3>1, ServeKeeps
    <2>6. CASE ~(d.working /\ d.machine = "READY")
      <3>1. Send(d, p, k).device = e
        BY <1>4, <2>6 DEF Send, Result
      <3> HIDE DEF e
      <3> QED  BY <2>3, <2>4, <2>6, <3>1 DEF Sound, Busy
    <2> QED  BY <2>5, <2>6
  <1> QED  BY <1>3, <1>4

(* TransmitComplete, also when an assertion fails.                         *)
LEMMA TransmitCompleteKeeps ==
    ASSUME NEW d, Sound(d)
    PROVE  /\ Sound(TransmitComplete(d).device)
           /\ TransmitComplete(d).device.working = d.working
  <1> DEFINE e == [d EXCEPT !.machine = "READY", !.current = NoPacket]
  <1>1. d \in DeviceState(Packet) /\ Bounded(d)
    BY DEF Sound
  <1>2. CASE d.machine # "BUSY" \/ d.current = NoPacket
    <2>1. TransmitComplete(d).device = [d EXCEPT !.crashed = TRUE]
      BY <1>2 DEF TransmitComplete, Crash, Result
    <2> QED  BY <1>1, <2>1 DEF Sound, DeviceState, Bounded, Busy
  <1>3. CASE ~(d.machine # "BUSY" \/ d.current = NoPacket)
    <2>1. /\ e \in DeviceState(Packet) /\ e.queues = d.queues
          /\ e.working = d.working
      BY <1>1 DEF DeviceState
    <2>2. Bounded(e)
      BY <1>1, <2>1 DEF Bounded
    <2>3. TransmitComplete(d).device = IF d.working
                                       THEN ServeWorkingQueue(e).device ELSE e
      BY <1>3 DEF TransmitComplete, Result
    <2> HIDE DEF e
    <2>4. CASE d.working
      BY <2>1, <2>2, <2>3, <2>4, ServeKeeps
    <2>5. CASE ~d.working
      BY <2>1, <2>2, <2>3, <2>5 DEF Sound, Busy
    <2> QED  BY <2>4, <2>5
  <1> QED  BY <1>2, <1>3

(* BeginWork.                                                              *)
LEMMA BeginWorkKeeps ==
    ASSUME NEW d, Sound(d)
    PROVE  Sound(BeginWork(d).device) /\ BeginWork(d).device.working
  <1> DEFINE e == [d EXCEPT !.working = TRUE, !.machine = "READY",
                            !.current = NoPacket]
  <1>1. d \in DeviceState(Packet) /\ Bounded(d)
    BY DEF Sound
  <1>2. e \in DeviceState(Packet) /\ e.queues = d.queues /\ e.working
    BY <1>1 DEF DeviceState
  <1>3. Bounded(e)
    BY <1>1, <1>2 DEF Bounded
  <1>4. BeginWork(d) = ServeWorkingQueue(e)
    BY DEF BeginWork
  <1> HIDE DEF e
  <1> QED  BY <1>2, <1>3, <1>4, ServeKeeps

(* SetWorkingQueue and IntoNight, as the controller calls them at dusk.    *)
Dusk(d) == IntoNight(SetWorkingQueue(d, (d.queue + 1) % Q))

(* By night the transmitter may idle over a full queue.                    *)
LEMMA DuskKeeps ==
    ASSUME NEW d, Sound(d)
    PROVE  Sound(Dusk(d)) /\ ~Dusk(d).working
  <1> DEFINE w == (d.queue + 1) % Q
             n == [d EXCEPT !.queue = w, !.working = FALSE]
             f == IF Q = 1 THEN 0 ELSE (w + 3) % 4
  <1>1. d \in DeviceState(Packet) /\ Bounded(d)
    BY DEF Sound
  <1>2. w \in Slot
    BY <1>1, DeviceAssumption DEF DeviceState, Slot
  <1>3. /\ n \in DeviceState(Packet) /\ n.queues = d.queues /\ ~n.working
        /\ [n EXCEPT !.crashed = TRUE] \in DeviceState(Packet)
        /\ [n EXCEPT !.crashed = TRUE].queues = d.queues
        /\ ~[n EXCEPT !.crashed = TRUE].working
    BY <1>1, <1>2 DEF DeviceState
  <1>4. SetWorkingQueue(d, w) = [d EXCEPT !.queue = w]
    BY DEF SetWorkingQueue
  <1>5. /\ [SetWorkingQueue(d, w) EXCEPT !.working = FALSE] = n
        /\ FlushedQueue(n) = f
        /\ FlushedQueue(SetWorkingQueue(d, w)) = f
    BY <1>1, <1>4 DEF DeviceState, FlushedQueue
  <1>6. \/ Dusk(d) = n
        \/ Dusk(d) = [n EXCEPT !.crashed = TRUE]
        \/ f \in Slot /\ Dusk(d) = [n EXCEPT !.queues[f] = <<>>]
    BY <1>5 DEF Dusk, IntoNight, Crash, Result
  <1> HIDE DEF n, f
  <1>7. CASE Dusk(d) = n \/ Dusk(d) = [n EXCEPT !.crashed = TRUE]
    BY <1>1, <1>3, <1>7 DEF Sound, Bounded, Busy
  <1>8. CASE f \in Slot /\ Dusk(d) = [n EXCEPT !.queues[f] = <<>>]
    <2>1. /\ Dusk(d) \in DeviceState(Packet) /\ ~Dusk(d).working
          /\ \A k \in Slot : Dusk(d).queues[k] = IF k = f THEN <<>>
                                                 ELSE d.queues[k]
      <3>1. n.queues \in [Slot -> Seq(Packet)] /\ <<>> \in Seq(Packet)
        BY <1>3 DEF DeviceState
      <3>2. [n.queues EXCEPT ![f] = <<>>] \in [Slot -> Seq(Packet)]
        BY <1>8, <3>1
      <3>3. \A k \in Slot : [n.queues EXCEPT ![f] = <<>>][k]
                               = IF k = f THEN <<>> ELSE d.queues[k]
        BY <1>3, <1>8, <3>1
      <3>4. Dusk(d) = [n EXCEPT !.queues = [n.queues EXCEPT ![f] = <<>>]]
        BY <1>8
      <3>5. /\ Dusk(d) \in DeviceState(Packet) /\ ~Dusk(d).working
            /\ Dusk(d).queues = [n.queues EXCEPT ![f] = <<>>]
        BY <1>3, <3>2, <3>4 DEF DeviceState
      <3> QED  BY <3>3, <3>5
    <2>2. Bounded(Dusk(d))
      BY <1>1, <2>1, DeviceAssumption DEF Bounded
    <2> QED  BY <2>1, <2>2 DEF Sound, Busy
  <1> QED  BY <1>6, <1>7, <1>8
-------------------------------------------------------------------------------
(* The invariant of the component.                                         *)
Inv == Sound(dev) /\ sends \in Nat

(* A new device has empty queues.                                          *)
LEMMA InvInit == Init => Inv
  BY DeviceAssumption
     DEF Init, Inv, Sound, NewDevice, DeviceState, Bounded, Busy, Slot

(* Every handler keeps the device sound; only dusk stops its work.         *)
LEMMA InvStep ==
    Inv /\ [Next]_vars =>
        Inv' /\ (dev.working /\ ~dev'.working => dev' = Dusk(dev))
  <1> SUFFICES ASSUME Inv, [Next]_vars
               PROVE  Inv' /\ (dev.working /\ ~dev'.working => dev' = Dusk(dev))
    OBVIOUS
  <1> USE DEF Inv
  <1>1. ASSUME NEW k \in Slot, SendPacket(k)
        PROVE  Inv' /\ dev'.working = dev.working
    <2>1. [slot |-> k, id |-> sends + 1] \in Packet
      BY <1>1, UplinkAssumption DEF SendPacket, Packet
    <2> QED  BY <1>1, <2>1, SendKeeps DEF SendPacket, Finish
  <1>2. CASE DoTransmitComplete
    BY <1>2, TransmitCompleteKeeps DEF DoTransmitComplete, Finish
  <1>3. CASE DoBeginWork
    BY <1>3, BeginWorkKeeps DEF DoBeginWork, Finish
  <1>4. CASE DoIntoNight
    BY <1>4, DuskKeeps DEF DoIntoNight, Dusk
  <1>5. CASE Tick \/ UNCHANGED vars
    BY <1>5 DEF Tick, vars
  <1> QED  BY <1>1, <1>2, <1>3, <1>4, <1>5 DEF Next, Simulator

(* By day the uplink idles only over an empty queue (Send, BeginWork and   *)
(* TransmitComplete, in whatever order they run).                          *)
THEOREM WorkConservingCorrect == Spec => []WorkConserving
  <1>1. Inv => WorkConserving
    BY DEF Inv, Sound, Busy, WorkConserving
  <1> QED  BY <1>1, InvInit, InvStep, PTL DEF Spec

(* With one queue or four, the drivers' numbers, dusk empties the queue    *)
(* that was served (SetWorkingQueue, then IntoNight).                      *)
THEOREM FlushedCorrect ==
    ASSUME Q \in {1, 4}
    PROVE  Spec => ServedQueueFlushed
  <1>1. ASSUME Sound(dev) PROVE Dusk(dev).queues[dev.queue] = <<>>
    <2> DEFINE w == (dev.queue + 1) % Q
               e == [dev EXCEPT !.queue = w]
    <2>1. dev \in DeviceState(Packet) /\ dev.queue \in Slot
      BY <1>1 DEF Sound, DeviceState
    <2>2. SetWorkingQueue(dev, w) = e /\ e.queue = w
      BY <2>1 DEF SetWorkingQueue, DeviceState
    <2>3. FlushedQueue(e) = dev.queue
      BY <2>1, <2>2 DEF FlushedQueue, Slot
    <2>4. dev.queue \in Slot /\ ~(Q > 4)
      BY <2>1
    <2> HIDE DEF e
    <2>5. Dusk(dev) = [[e EXCEPT !.working = FALSE]
                          EXCEPT !.queues[dev.queue] = <<>>]
      <3>1. Dusk(dev) = IntoNight(e)
        BY <2>2 DEF Dusk
      <3> QED  BY <2>3, <2>4, <3>1 DEF IntoNight
    <2>6. e.queues = dev.queues /\ e = [dev EXCEPT !.queue = w]
      BY <2>1 DEF e, DeviceState
    <2> QED  BY <2>1, <2>5, <2>6 DEF DeviceState
  <1>2. Inv /\ [Next]_vars =>
          [dev.working /\ ~dev'.working => dev'.queues[dev.queue] = <<>>]_vars
    BY <1>1, InvStep DEF Inv
  <1> QED  BY <1>2, InvInit, InvStep, PTL DEF Spec, ServedQueueFlushed
-------------------------------------------------------------------------------
(* The classes of events of the uplink.                                    *)
What == {"SetRoutings", "SetNight", "TransmitComplete"}
Completion == {"TransmitComplete"}
Dawn == {"SetRoutings"}
Nightfall == {"SetNight"}

(* A packet is being transmitted exactly if its completion is scheduled.   *)
Transmission(d, list) ==
    IF d.machine = "BUSY" THEN OneOf(list, Completion) /\ d.current # NoPacket
                          ELSE NoneOf(list, Completion) /\ d.current = NoPacket

(* By day the controller's next event is nightfall, by night it is dawn.   *)
Control(d, list) ==
    IF d.working THEN OneOf(list, Nightfall) /\ NoneOf(list, Dawn)
                 ELSE NoneOf(list, Nightfall) /\ OneOf(list, Dawn)

(* No event is further away than its delay, and a transmission that is     *)
(* still under way at night is over by dawn.                               *)
Timely(list) ==
    /\ Within(list, Completion, TxTime)
    /\ Within(list, Dawn, NightLength)
    /\ Within(list, Nightfall, DayLength)
    /\ Precedes(list, Completion, Dawn)

(* The events that a handler leaves.                                       *)
After(list, r) ==
    IF r.sent = NoPacket THEN list
    ELSE Schedule(list, TxTime, "TransmitComplete")

(* A handler that finds the transmitter idle by day leaves a completion    *)
(* for the packet it starts.                                               *)
LEMMA AfterKeeps ==
    ASSUME NEW list \in List(What), NoneOf(list, Completion),
           NoneOf(list, Dawn), OneOf(list, Nightfall), Timely(list),
           NEW r, r.sent \in Packet \cup {NoPacket}, Started(r),
           r.device.working
    PROVE  /\ After(list, r) \in List(What)
           /\ Transmission(r.device, After(list, r))
           /\ Control(r.device, After(list, r))
           /\ Timely(After(list, r))
  <1>1. CASE r.sent = NoPacket
    BY <1>1 DEF After, Started, Idle, Transmission, Control
  <1>2. CASE r.sent # NoPacket
    <2> DEFINE more == Schedule(list, TxTime, "TransmitComplete")
    <2>1. After(list, r) = more
      BY <1>2 DEF After
    <2>2. TxTime \in Nat /\ "TransmitComplete" \in What
      BY UplinkAssumption DEF What
    <2>3. more \in List(What)
      BY <2>2, ScheduleDoes
    <2>4. OneOf(more, Completion) /\ Within(more, Completion, TxTime)
      BY <2>2, ScheduleClass, UplinkAssumption DEF Completion, Timely
    <2>5. NoneOf(more, Dawn) /\ Within(more, Dawn, NightLength)
      BY <2>2, ScheduleClass DEF Dawn, Timely
    <2>6. OneOf(more, Nightfall) /\ Within(more, Nightfall, DayLength)
      BY <2>2, ScheduleClass DEF Nightfall, Timely
    <2>7. Precedes(more, Completion, Dawn)
      BY <2>5 DEF Precedes, NoneOf
    <2> HIDE DEF more
    <2>8. r.device.machine = "BUSY" /\ r.device.current # NoPacket
      BY <1>2 DEF Started, Sending
    <2> QED  BY <2>1, <2>3, <2>4, <2>5, <2>6, <2>7, <2>8
             DEF Transmission, Control, Timely
  <1> QED  BY <1>1, <1>2

(* What remains after a due event, but for its own class.                  *)
LEMMA RestKeeps ==
    ASSUME NEW list \in List(What), HasDue(list), Timely(list)
    PROVE  RemoveNext(list) \in List(What) /\ Timely(RemoveNext(list))
  BY RemoveNextDoes, RemoveClass DEF Timely
-------------------------------------------------------------------------------
(* The transmitter is consistent in itself, whatever events there are.     *)
Consistent(d) == Idle(d) \/ (d.machine = "BUSY" /\ d.current # NoPacket)

LEMMA StartedConsistent ==
    ASSUME NEW r, Started(r)
    PROVE  Consistent(r.device)
  BY DEF Started, Sending, Idle, Consistent

(* A transmission starts by day only: what each handler does to the packet *)
(* under way.                                                              *)
LEMMA SilentStep ==
    Inv /\ Consistent(dev) /\ [Next]_vars =>
        /\ Consistent(dev)'
        /\ dev'.current \notin {dev.current, NoPacket} => dev'.working
  <1> SUFFICES ASSUME Inv, Consistent(dev), [Next]_vars
               PROVE  /\ Consistent(dev')
                      /\ dev'.current \notin {dev.current, NoPacket}
                            => dev'.working
    OBVIOUS
  <1>0. dev \in DeviceState(Packet) /\ NoPacket \notin Packet
    BY UplinkAssumption DEF Inv, Sound
  <1>1. ASSUME NEW k \in Slot, SendPacket(k)
        PROVE  /\ Consistent(dev')
               /\ dev'.current \notin {dev.current, NoPacket} => dev'.working
    <2> DEFINE p == [slot |-> k, id |-> sends + 1]
               r == Send(dev, p, k)
    <2>1. p \in Packet
      BY <1>1, UplinkAssumption DEF SendPacket, Packet, Inv
    <2>2. dev' = r.device
      BY <1>1 DEF SendPacket, Finish
    <2> HIDE DEF p
    <2>3. /\ SameMode(dev, r.device)
          /\ Idle(dev) => Started(r)
          /\ ~Idle(dev) => /\ r.device.machine = dev.machine
                           /\ r.device.current = dev.current
          /\ r.sent # NoPacket => dev.working
      BY <1>0, <2>1, SendSends DEF Consistent
    <2> HIDE DEF r
    <2> QED  BY <2>2, <2>3
             DEF Consistent, Started, Sending, Idle, SameMode
  <1>2. CASE DoTransmitComplete
    <2> DEFINE r == TransmitComplete(dev)
    <2>1. dev' = r.device
      BY <1>2 DEF DoTransmitComplete, Finish
    <2>2. CASE Idle(dev)
      <3>1. r.device = [dev EXCEPT !.crashed = TRUE]
        BY <2>2 DEF Idle, TransmitComplete, Crash, Result
      <3> QED  BY <1>0, <2>1, <2>2, <3>1 DEF DeviceState, Consistent, Idle
    <2>3. CASE ~Idle(dev)
      <3>1. /\ Started(r) /\ SameMode(dev, r.device)
            /\ r.sent # NoPacket => dev.working
        BY <1>0, <2>3, CompleteSends DEF Consistent
      <3> HIDE DEF r
      <3> QED  BY <2>1, <3>1, StartedConsistent
               DEF Started, Sending, Idle, SameMode
    <2> QED  BY <2>2, <2>3
  <1>3. CASE DoBeginWork
    <2> DEFINE r == BeginWork(dev)
    <2>1. dev' = r.device
      BY <1>3 DEF DoBeginWork, Finish
    <2>2. Started(r) /\ r.device.working
      BY <1>0, BeginWorkSends
    <2> HIDE DEF r
    <2> QED  BY <2>1, <2>2, StartedConsistent
  <1>4. CASE DoIntoNight
    <2>1. (dev.queue + 1) % Q \in Slot
      BY <1>0, DeviceAssumption DEF DeviceState, Slot
    <2>2. dev'.machine = dev.machine /\ dev'.current = dev.current
      BY <1>0, <1>4, <2>1, NightSends DEF DoIntoNight
    <2> QED  BY <2>2 DEF Consistent, Idle
  <1>5. CASE Tick \/ UNCHANGED vars
    BY <1>5 DEF Tick, vars
  <1> QED  BY <1>1, <1>2, <1>3, <1>4, <1>5 DEF Next, Simulator

(* No transmission starts while the device is out of service (Send and     *)
(* TransmitComplete look at the flag that IntoNight clears).               *)
THEOREM SilentAtNightCorrect == Spec => SilentAtNight
  <1>1. Init => Consistent(dev)
    BY DEF Init, NewDevice, Consistent, Idle
  <1>2. Inv /\ Consistent(dev) /\ [Next]_vars =>
            /\ Consistent(dev)'
            /\ [dev'.current \notin {dev.current, NoPacket}
                    => dev'.working]_vars
    BY SilentStep
  <1> QED  BY <1>1, <1>2, InvInit, InvStep, PTL DEF Spec, SilentAtNight
-------------------------------------------------------------------------------
(* What is scheduled fits the state of the device.                         *)
EventInv ==
    /\ events \in List(What)
    /\ Transmission(dev, events)
    /\ Control(dev, events)
    /\ Timely(events)

LEMMA EventInvInit == Init => EventInv
  <1> SUFFICES ASSUME Init PROVE EventInv
    OBVIOUS
  <1> DEFINE none == <<>>
  <1>1. none \in List(What) /\ \A W : At(none, W) = {}
    BY DEF List, At
  <1>2. events = Schedule(none, 0, "SetRoutings")
    BY DEF Init
  <1>3. 0 \in Nat /\ "SetRoutings" \in What
    BY DEF What
  <1>4. \A W : NoneOf(none, W) /\ Within(none, W, TxTime)
               /\ Within(none, W, NightLength) /\ Within(none, W, DayLength)
               /\ \A V : Precedes(none, W, V)
    BY <1>1 DEF NoneOf, Within, Precedes
  <1> HIDE DEF none
  <1>5. events \in List(What)
    BY <1>1, <1>2, <1>3, ScheduleDoes
  <1>6. /\ NoneOf(events, Completion) /\ NoneOf(events, Nightfall)
        /\ OneOf(events, Dawn)
    BY <1>1, <1>2, <1>3, <1>4, ScheduleClass DEF Completion, Nightfall, Dawn
  <1>7. /\ Within(events, Completion, TxTime)
        /\ Within(events, Dawn, NightLength)
        /\ Within(events, Nightfall, DayLength)
    <2>1. 0 <= TxTime /\ 0 <= NightLength /\ 0 <= DayLength
      BY UplinkAssumption
    <2>2. \A W, c : Within(none, W, c) /\ 0 <= c => Within(events, W, c)
      BY <1>1, <1>2, <1>3, ScheduleClass
    <2> QED  BY <1>4, <2>1, <2>2
  <1>8. Precedes(events, Completion, Dawn)
    BY <1>6 DEF NoneOf, Precedes
  <1> QED  BY <1>5, <1>6, <1>7, <1>8
           DEF Init, NewDevice, EventInv, Transmission, Control, Timely

(* Send may come at any time, also over a transmission under way.          *)
LEMMA EventInvSend ==
    ASSUME Inv, EventInv, NEW k \in Slot, SendPacket(k)
    PROVE  EventInv' /\ dev'.crashed = dev.crashed
  <1> DEFINE p == [slot |-> k, id |-> sends + 1]
             r == Send(dev, p, k)
  <1>1. dev \in DeviceState(Packet) /\ NoPacket \notin Packet /\ p \in Packet
    BY UplinkAssumption DEF SendPacket, Packet, Inv, Sound
  <1>2. Idle(dev) \/ dev.machine = "BUSY"
    BY <1>1 DEF DeviceState, EventInv, Transmission, Idle
  <1>3. dev' = r.device /\ events' = After(events, r)
    BY DEF SendPacket, Finish, After
  <1> HIDE DEF p
  <1>4. /\ SameMode(dev, r.device) /\ r.sent \in Packet \cup {NoPacket}
        /\ Idle(dev) => Started(r)
        /\ ~Idle(dev) => /\ r.sent = NoPacket
                         /\ r.device.machine = dev.machine
                         /\ r.device.current = dev.current
        /\ r.sent # NoPacket => dev.working
    BY <1>1, <1>2, SendSends
  <1> HIDE DEF r
  <1>5. CASE Idle(dev) /\ dev.working
    <2>1. /\ events \in List(What) /\ NoneOf(events, Completion)
          /\ NoneOf(events, Dawn) /\ OneOf(events, Nightfall)
          /\ Timely(events)
      BY <1>5 DEF EventInv, Transmission, Control, Idle
    <2>2. Started(r) /\ r.device.working
      BY <1>4, <1>5 DEF SameMode
    <2>3. /\ After(events, r) \in List(What)
          /\ Transmission(r.device, After(events, r))
          /\ Control(r.device, After(events, r))
          /\ Timely(After(events, r))
      BY <1>4, <2>1, <2>2, AfterKeeps
    <2> QED  BY <1>3, <1>4, <2>3 DEF EventInv, SameMode
  <1>6. CASE ~(Idle(dev) /\ dev.working)
    <2>1. r.sent = NoPacket /\ events' = events
      BY <1>3, <1>4, <1>6 DEF After
    <2>2. dev'.machine = dev.machine /\ dev'.current = dev.current
      <3>1. CASE Idle(dev)
        BY <1>3, <1>4, <2>1, <3>1 DEF Started, Idle
      <3> QED  BY <1>3, <1>4, <3>1
    <2>3. dev'.working = dev.working /\ dev'.crashed = dev.crashed
      BY <1>3, <1>4 DEF SameMode
    <2> QED  BY <2>1, <2>2, <2>3 DEF EventInv, Transmission, Control
  <1> QED  BY <1>5, <1>6

(* The assertions of TransmitComplete hold: its event is the completion    *)
(* of a packet under way.                                                  *)
LEMMA EventInvComplete ==
    ASSUME Inv, EventInv, DoTransmitComplete
    PROVE  EventInv' /\ dev'.crashed = dev.crashed
  <1> DEFINE r == TransmitComplete(dev)
             rest == RemoveNext(events)
  <1>1. dev \in DeviceState(Packet) /\ NoPacket \notin Packet
    BY UplinkAssumption DEF Inv, Sound
  <1>2. /\ HasDue(events) /\ NextEvent(events) \in Completion
        /\ NextEvent(events) \notin Dawn /\ NextEvent(events) \notin Nightfall
        /\ events \in List(What) /\ Timely(events)
    BY DEF DoTransmitComplete, Running, EventInv, Completion, Dawn, Nightfall
  <1>3. ~NoneOf(events, Completion)
    BY <1>2, NextNotNone
  <1>4. /\ dev.machine = "BUSY" /\ dev.current # NoPacket
        /\ OneOf(events, Completion)
    BY <1>3 DEF EventInv, Transmission
  <1>5. /\ SameMode(dev, r.device) /\ r.sent \in Packet \cup {NoPacket}
        /\ Started(r)
        /\ r.sent # NoPacket => dev.working
    BY <1>1, <1>4, CompleteSends
  <1>6. dev' = r.device /\ events' = After(rest, r)
    BY DEF DoTransmitComplete, Finish, After
  <1> HIDE DEF r
  <1>7. /\ rest \in List(What) /\ NoneOf(rest, Completion) /\ Timely(rest)
    BY <1>2, <1>4, RestKeeps, RemoveClass
  <1>8. /\ NoneOf(events, Dawn) => NoneOf(rest, Dawn)
        /\ OneOf(events, Dawn) => OneOf(rest, Dawn)
        /\ NoneOf(events, Nightfall) => NoneOf(rest, Nightfall)
        /\ OneOf(events, Nightfall) => OneOf(rest, Nightfall)
    BY <1>2, RemoveClass
  <1> HIDE DEF rest
  <1>9. CASE dev.working
    <2>1. NoneOf(rest, Dawn) /\ OneOf(rest, Nightfall) /\ r.device.working
      BY <1>5, <1>8, <1>9 DEF EventInv, Control, SameMode
    <2>2. /\ After(rest, r) \in List(What)
          /\ Transmission(r.device, After(rest, r))
          /\ Control(r.device, After(rest, r))
          /\ Timely(After(rest, r))
      BY <1>5, <1>7, <2>1, AfterKeeps
    <2> QED  BY <1>5, <1>6, <2>2 DEF EventInv, SameMode
  <1>10. CASE ~dev.working
    <2>1. r.sent = NoPacket /\ events' = rest /\ Idle(dev')
      BY <1>5, <1>6, <1>10 DEF After, Started
    <2>2. OneOf(rest, Dawn) /\ NoneOf(rest, Nightfall)
      BY <1>8, <1>10 DEF EventInv, Control
    <2>3. ~dev'.working /\ dev'.crashed = dev.crashed
      BY <1>5, <1>6, <1>10 DEF SameMode
    <2> QED  BY <1>7, <2>1, <2>2, <2>3
             DEF EventInv, Transmission, Control, Idle
  <1> QED  BY <1>9, <1>10

(* When BeginWork resets the transmitter no transmission is under way: the *)
(* last of the day was over before dawn.                                   *)
LEMMA EventInvBeginWork ==
    ASSUME Inv, EventInv, DoBeginWork
    PROVE  EventInv' /\ dev'.crashed = dev.crashed
  <1> DEFINE r == BeginWork(dev)
             rest == RemoveNext(events)
             list == Schedule(rest, DayLength, "SetNight")
  <1>1. dev \in DeviceState(Packet) /\ NoPacket \notin Packet
    BY UplinkAssumption DEF Inv, Sound
  <1>2. /\ HasDue(events) /\ NextEvent(events) \in Dawn
        /\ NextEvent(events) \notin Nightfall
        /\ events \in List(What) /\ Timely(events)
    BY DEF DoBeginWork, Running, EventInv, Dawn, Nightfall
  <1>3. NoneOf(events, Completion)
    BY <1>2, PrecedesNext DEF Timely
  <1>4. OneOf(events, Dawn) /\ NoneOf(events, Nightfall)
    BY <1>2, NextNotNone DEF EventInv, Control
  <1>5. /\ rest \in List(What) /\ Timely(rest) /\ NoneOf(rest, Completion)
        /\ NoneOf(rest, Dawn) /\ NoneOf(rest, Nightfall)
    BY <1>2, <1>3, <1>4, RestKeeps, RemoveClass
  <1>6. DayLength \in Nat /\ "SetNight" \in What /\ DayLength <= DayLength
    BY UplinkAssumption DEF What
  <1>7. dev' = r.device /\ events' = After(list, r)
    BY DEF DoBeginWork, Finish, After
  <1>8. /\ r.sent \in Packet \cup {NoPacket} /\ Started(r)
        /\ r.device.working /\ r.device.crashed = dev.crashed
    BY <1>1, BeginWorkSends
  <1> HIDE DEF r, rest
  <1>9. list \in List(What)
    BY <1>5, <1>6, ScheduleDoes
  <1>10. NoneOf(list, Completion) /\ Within(list, Completion, TxTime)
    BY <1>5, <1>6, ScheduleClass DEF Completion, Timely
  <1>11. NoneOf(list, Dawn) /\ Within(list, Dawn, NightLength)
    BY <1>5, <1>6, ScheduleClass DEF Dawn, Timely
  <1>12. OneOf(list, Nightfall) /\ Within(list, Nightfall, DayLength)
    BY <1>5, <1>6, ScheduleClass DEF Nightfall, Timely
  <1>13. Precedes(list, Completion, Dawn)
    BY <1>10 DEF Precedes, NoneOf
  <1> HIDE DEF list
  <1>14. /\ After(list, r) \in List(What)
         /\ Transmission(r.device, After(list, r))
         /\ Control(r.device, After(list, r))
         /\ Timely(After(list, r))
    BY <1>8, <1>9, <1>10, <1>11, <1>12, <1>13, AfterKeeps DEF Timely
  <1> QED  BY <1>7, <1>8, <1>14 DEF EventInv

(* Nightfall schedules dawn behind the transmission that is under way.     *)
LEMMA EventInvIntoNight ==
    ASSUME Inv, EventInv, DoIntoNight, TxTime <= NightLength
    PROVE  EventInv' /\ (Q \notin {2, 3} => dev'.crashed = dev.crashed)
  <1> DEFINE rest == RemoveNext(events)
             list == Schedule(rest, NightLength, "SetRoutings")
  <1>1. dev \in DeviceState(Packet) /\ (dev.queue + 1) % Q \in Slot
    BY DeviceAssumption DEF Inv, Sound, DeviceState, Slot
  <1>2. /\ HasDue(events) /\ NextEvent(events) \in Nightfall
        /\ NextEvent(events) \notin Dawn /\ NextEvent(events) \notin Completion
        /\ events \in List(What) /\ Timely(events)
    BY DEF DoIntoNight, Running, EventInv, Dawn, Nightfall, Completion
  <1>3. OneOf(events, Nightfall) /\ NoneOf(events, Dawn)
    BY <1>2, NextNotNone DEF EventInv, Control
  <1>4. /\ rest \in List(What) /\ Timely(rest)
        /\ NoneOf(rest, Dawn) /\ NoneOf(rest, Nightfall)
        /\ NoneOf(events, Completion) => NoneOf(rest, Completion)
        /\ OneOf(events, Completion) => OneOf(rest, Completion)
    BY <1>2, <1>3, RestKeeps, RemoveClass
  <1>5. /\ NightLength \in Nat /\ "SetRoutings" \in What
        /\ NightLength <= NightLength
    BY UplinkAssumption DEF What
  <1>6. events' = list
    BY DEF DoIntoNight
  <1>7. /\ ~dev'.working /\ dev'.machine = dev.machine
        /\ dev'.current = dev.current
        /\ Q \notin {2, 3} => dev'.crashed = dev.crashed
    BY <1>1, NightSends DEF DoIntoNight
  <1> HIDE DEF rest
  <1>8. list \in List(What)
    BY <1>4, <1>5, ScheduleDoes
  <1>9. Within(rest, Completion, NightLength)
    <2>1. \A k \in At(rest, Completion) : rest[k].left \in Nat
      BY <1>4, ElementDoes DEF At, List
    <2> QED  BY <1>4, <2>1, UplinkAssumption DEF Timely, Within
  <1>10. /\ NoneOf(rest, Completion) => NoneOf(list, Completion)
         /\ OneOf(rest, Completion) => OneOf(list, Completion)
         /\ Within(list, Completion, TxTime)
    BY <1>4, <1>5, ScheduleClass DEF Completion, Timely
  <1>11. OneOf(list, Dawn) /\ Within(list, Dawn, NightLength)
    BY <1>4, <1>5, ScheduleClass DEF Dawn, Timely
  <1>12. NoneOf(list, Nightfall) /\ Within(list, Nightfall, DayLength)
    BY <1>4, <1>5, ScheduleClass DEF Nightfall, Timely
  <1>13. Precedes(list, Completion, Dawn)
    <2>1. "SetRoutings" \notin Completion
      BY DEF Completion
    <2> QED  BY <1>4, <1>5, <1>9, <2>1, ScheduleClass DEF Timely
  <1> HIDE DEF list
  <1>14. Transmission(dev', list)
    BY <1>4, <1>7, <1>10 DEF EventInv, Transmission
  <1> QED  BY <1>6, <1>7, <1>8, <1>10, <1>11, <1>12, <1>13, <1>14
           DEF EventInv, Control, Timely

(* All steps.                                                              *)
LEMMA EventInvStep ==
    ASSUME TxTime <= NightLength
    PROVE  Inv /\ EventInv /\ [Next]_vars =>
               EventInv' /\ (Q \notin {2, 3} => dev'.crashed = dev.crashed)
  <1> SUFFICES ASSUME Inv, EventInv, [Next]_vars
               PROVE  EventInv' /\ (Q \notin {2, 3}
                                       => dev'.crashed = dev.crashed)
    OBVIOUS
  <1>1. CASE Tick
    <2>1. /\ ~HasDue(events) /\ events \in List(What)
          /\ events' = Elapse(events) /\ dev' = dev
      BY <1>1 DEF Tick, EventInv
    <2>2. /\ DayLength \in Nat /\ NightLength \in Nat /\ TxTime \in Nat
      BY UplinkAssumption
    <2>3. events' \in List(What)
      BY <2>1, ElapseDoes
    <2>4. Timely(events')
      BY <2>1, <2>2, ElapseClass DEF EventInv, Timely
    <2>5. Transmission(dev', events') /\ Control(dev', events')
      BY <2>1, ElapseClass DEF EventInv, Transmission, Control
    <2> QED  BY <2>1, <2>3, <2>4, <2>5 DEF EventInv
  <1>2. CASE UNCHANGED vars
    BY <1>2 DEF vars, EventInv
  <1> QED  BY <1>1, <1>2, EventInvSend, EventInvComplete, EventInvBeginWork,
              EventInvIntoNight DEF Next, Simulator

(* If a packet takes no longer than the night, two are never on the wire   *)
(* at once, although BeginWork resets the transmitter whatever it does.    *)
THEOREM OneTransmissionCorrect ==
    ASSUME TxTime <= NightLength
    PROVE  Spec => []OneTransmission
  <1>1. EventInv => OneTransmission
    <2> SUFFICES ASSUME EventInv PROVE OneTransmission
      OBVIOUS
    <2>1. CountEvents(events, {"TransmitComplete"}) =
              Cardinality(At(events, Completion))
      BY DEF CountEvents, At, Completion
    <2>2. CASE dev.machine = "BUSY"
      <3>1. PICK k \in DOMAIN events : At(events, Completion) = {k}
        BY <2>2 DEF EventInv, Transmission, OneOf
      <3> QED  BY <2>1, <2>2, <3>1, FS_Singleton DEF OneTransmission
    <2>3. CASE dev.machine # "BUSY"
      <3>1. At(events, Completion) = {}
        BY <2>3 DEF EventInv, Transmission, NoneOf
      <3> QED  BY <2>1, <2>3, <3>1, FS_EmptySet DEF OneTransmission
    <2> QED  BY <2>2, <2>3
  <1> QED  BY <1>1, InvInit, InvStep, EventInvInit, EventInvStep, PTL DEF Spec

(* What is remembered of Send.                                             *)
LastType ==
    /\ sends \in 0 .. MaxPackets
    /\ lastSend.packet \in Packet \cup {NoPacket} /\ lastSend.ok \in BOOLEAN

(* Send succeeds or does not.                                              *)
LEMMA SendAnswers ==
    ASSUME NEW d, NEW p, NEW k
    PROVE  Send(d, p, k).ok \in BOOLEAN
  BY DEF Send, ServeWorkingQueue, TransmitStart, Result

(* Types, and no assertion of the device fails: with the drivers' queue    *)
(* numbers, and a night that is long enough for the packet under way.      *)
THEOREM TypeCorrect ==
    ASSUME TxTime <= NightLength, Q \notin {2, 3}
    PROVE  Spec => []TypeOK
  <1> DEFINE T == ~dev.crashed /\ LastType
  <1>1. Init => T
    BY UplinkAssumption DEF Init, NewDevice, LastType
  <1>2. Inv /\ EventInv /\ T /\ [Next]_vars => T'
    <2> SUFFICES ASSUME Inv, EventInv, T, [Next]_vars PROVE T'
      OBVIOUS
    <2>1. ~dev'.crashed
      BY EventInvStep
    <2>2. ASSUME NEW k \in Slot, SendPacket(k) PROVE LastType'
      <3> DEFINE p == [slot |-> k, id |-> sends + 1]
      <3>1. p \in Packet /\ sends' \in 0 .. MaxPackets
        BY <2>2, UplinkAssumption DEF SendPacket, Packet, LastType
      <3>2. lastSend' = [packet |-> p, ok |-> Send(dev, p, k).ok]
        BY <2>2 DEF SendPacket
      <3> HIDE DEF p
      <3>3. /\ lastSend'.packet = p
            /\ lastSend'.ok = Send(dev, p, k).ok
        BY <3>2
      <3>4. lastSend'.ok \in BOOLEAN
        BY <3>3, SendAnswers
      <3> QED  BY <3>1, <3>3, <3>4 DEF LastType
    <2>3. UNCHANGED <<sends, lastSend>> => LastType'
      BY DEF LastType
    <2>4. LastType'
      BY <2>2, <2>3 DEF Next, Simulator, DoTransmitComplete, DoBeginWork,
                        DoIntoNight, Tick, vars
    <2> QED  BY <2>1, <2>4
  <1>3. Inv /\ EventInv /\ T => TypeOK
    <2> SUFFICES ASSUME Inv, EventInv, T PROVE TypeOK
      OBVIOUS
    <2>1. ASSUME NEW n \in DOMAIN events
          PROVE  /\ events[n].left \in 0 .. DayLength + NightLength + TxTime
                 /\ events[n].what \in What
      <3>1. events[n].left \in Nat /\ events[n].what \in What
        BY ElementDoes DEF EventInv, List
      <3>2. \/ events[n].left <= TxTime \/ events[n].left <= NightLength
            \/ events[n].left <= DayLength
        <4>1. \/ n \in At(events, Completion) \/ n \in At(events, Dawn)
              \/ n \in At(events, Nightfall)
          BY <3>1 DEF What, At, Completion, Dawn, Nightfall
        <4> QED  BY <4>1 DEF EventInv, Timely, Within
      <3> QED  BY <3>1, <3>2, UplinkAssumption
    <2> QED  BY <2>1 DEF TypeOK, LastType, Inv, Sound, Bounded, What
  <1> QED  BY <1>1, <1>2, <1>3, InvInit, InvStep, EventInvInit, EventInvStep,
              PTL DEF Spec
===============================================================================
