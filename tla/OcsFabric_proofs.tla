---------------------------- MODULE OcsFabric_proofs ----------------------------
(***************************************************************************)
(* Proofs about the optical fabric, for every number of ToRs and packets,  *)
(* all capacities and all times.  The first part shows that the queues of  *)
(* the uplinks fit the windows of the routing; nothing is used of the      *)
(* event list but what it holds at the start, since the handlers keep the  *)
(* queues pure in any order.  The second part is about time: which events  *)
(* are scheduled when, and in which order they will run, so that what is   *)
(* sent over a circuit arrives over it.  The third part follows the        *)
(* packets through the four stages of their way, and shows that they keep  *)
(* the order in which their hosts sent them and that none is lost without  *)
(* a fate: the fabric implements a channel per pair of ToRs.               *)
(***************************************************************************)
EXTENDS OcsFabric, DeviceEvents_proofs

(* What an uplink holds fits the window w; it holds nothing.               *)
Pure(d, w) ==
    \A k \in Slot : \A n \in DOMAIN d.queues[k] : d.queues[k][n].dst = w[k]
Empty(d) == \A k \in Slot : d.queues[k] = <<>>

(* An uplink e has, queue by queue, what d had or less.                    *)
Shrunk(d, e) ==
    \A k \in Slot : e.queues[k] \in {d.queues[k], Tail(d.queues[k]), <<>>}
-------------------------------------------------------------------------------
(* Packets that leave a queue do not make it impure.                       *)
LEMMA ShrunkPure ==
    ASSUME NEW P, NEW d \in DeviceState(P), NEW e, Shrunk(d, e), NEW w, Pure(d, w)
    PROVE  Pure(e, w)
  <1>1. SUFFICES ASSUME NEW k \in Slot, NEW n \in DOMAIN e.queues[k]
                 PROVE  e.queues[k][n].dst = w[k]
    BY DEF Pure
  <1>2. d.queues[k] \in Seq(P)
    BY DEF DeviceState
  <1>3. CASE e.queues[k] = d.queues[k]
    BY <1>3 DEF Pure
  <1>4. CASE e.queues[k] = Tail(d.queues[k]) /\ d.queues[k] # <<>>
    <2>1. /\ n + 1 \in DOMAIN d.queues[k]
          /\ e.queues[k][n] = d.queues[k][n + 1]
      BY <1>1, <1>2, <1>4
    <2> QED  BY <2>1 DEF Pure
  <1>5. CASE e.queues[k] = <<>>
    BY <1>1, <1>5
  <1>6. CASE d.queues[k] = <<>> /\ e.queues[k] = Tail(d.queues[k])
    <2>1. Tail(<<>>) = <<>>
      OBVIOUS
    <2> QED  BY <1>5, <1>6, <2>1
  <1> QED  BY <1>3, <1>4, <1>5, <1>6 DEF Shrunk

(* Serving the working queue takes a packet out of it, or nothing.         *)
LEMMA ServeShrinks ==
    ASSUME NEW P, NEW d \in DeviceState(P)
    PROVE  LET e == ServeWorkingQueue(d).device IN
           /\ e \in DeviceState(P) /\ Shrunk(d, e) /\ e.queue = d.queue
  <1> DEFINE q == d.queues[d.queue]
             e == [d EXCEPT !.queues[d.queue] = Tail(q), !.machine = "BUSY",
                            !.current = Head(q)]
  <1>1. d.queue \in Slot /\ q \in Seq(P)
    BY DEF DeviceState
  <1>2. CASE q = <<>>
    BY <1>2 DEF ServeWorkingQueue, Result, Shrunk
  <1>3. CASE q # <<>>
    <2>1. Tail(q) \in Seq(P) /\ Head(q) \in P
      BY <1>1, <1>3
    <2>2. ServeWorkingQueue(d).device = e
      BY <1>3 DEF ServeWorkingQueue, TransmitStart, Result, DeviceState
    <2> HIDE DEF q
    <2>3. e \in DeviceState(P) /\ e.queue = d.queue
      BY <1>1, <2>1 DEF DeviceState
    <2>4. \A k \in Slot : e.queues[k] = IF k = d.queue THEN Tail(q)
                                        ELSE d.queues[k]
      BY <1>1 DEF DeviceState
    <2>5. Shrunk(d, e)
      BY <2>4 DEF Shrunk, q
    <2> QED  BY <2>2, <2>3, <2>5
  <1> QED  BY <1>2, <1>3

(* Send puts a packet into the queue of its destination (MultiChannel-     *)
(* PointToPointDevice::Send with the slot GetQueueIdx has found).          *)
LEMMA SendPure ==
    ASSUME NEW P, NEW d \in DeviceState(P), NEW p \in P, NEW k \in Slot,
           NEW w, Pure(d, w), p.dst = w[k]
    PROVE  LET e == Send(d, p, k).device IN
           e \in DeviceState(P) /\ Pure(e, w) /\ e.queue = d.queue
  <1> DEFINE e == [d EXCEPT !.queues[k] = Append(@, p)]
  <1>1. d.queues[k] \in Seq(P) /\ Append(d.queues[k], p) \in Seq(P)
    BY DEF DeviceState
  <1>2. e \in DeviceState(P) /\ e.queue = d.queue
    BY <1>1 DEF DeviceState
  <1>3. \A l \in Slot : e.queues[l] = IF l = k THEN Append(d.queues[k], p)
                                      ELSE d.queues[l]
    BY DEF DeviceState
  <1>4. Pure(e, w)
    <2>1. SUFFICES ASSUME NEW l \in Slot, NEW n \in DOMAIN e.queues[l]
                   PROVE  e.queues[l][n].dst = w[l]
      BY DEF Pure
    <2> HIDE DEF e
    <2>2. CASE l # k
      BY <1>3, <2>1, <2>2 DEF Pure
    <2>3. CASE l = k
      <3> DEFINE q == d.queues[k]
      <3>0. e.queues[k] = Append(q, p) /\ q \in Seq(P)
        BY <1>1, <1>3, <2>3
      <3> HIDE DEF q
      <3>1. /\ n \in 1 .. Len(q) + 1
            /\ e.queues[k][n] = IF n = Len(q) + 1 THEN p ELSE q[n]
        BY <2>1, <2>3, <3>0
      <3>2. n # Len(q) + 1 => n \in DOMAIN q
        BY <3>0, <3>1
      <3> QED  BY <2>3, <3>1, <3>2 DEF Pure, q
    <2> QED  BY <2>2, <2>3
  <1>5. Send(d, p, k).device \in {d, e, ServeWorkingQueue(e).device}
    BY DEF Send, Result
  <1> HIDE DEF e
  <1> QED  BY <1>2, <1>4, <1>5, ServeShrinks, ShrunkPure

(* TransmitComplete and BeginWork take packets out.                        *)
LEMMA CompleteShrinks ==
    ASSUME NEW P, NEW d \in DeviceState(P)
    PROVE  LET e == TransmitComplete(d).device IN
           /\ e \in DeviceState(P) /\ Shrunk(d, e) /\ e.queue = d.queue
  <1> DEFINE e == [d EXCEPT !.machine = "READY", !.current = NoPacket]
             c == [d EXCEPT !.crashed = TRUE]
  <1>1. /\ e \in DeviceState(P) /\ e.queues = d.queues
        /\ e.queue = d.queue
        /\ c \in DeviceState(P) /\ c.queues = d.queues
        /\ c.queue = d.queue
    BY DEF DeviceState
  <1>2. TransmitComplete(d).device \in {c, e, ServeWorkingQueue(e).device}
    BY DEF TransmitComplete, Crash, Result
  <1> HIDE DEF e, c
  <1> QED  BY <1>1, <1>2, ServeShrinks DEF Shrunk

(* The same for BeginWork.                                                 *)
LEMMA BeginWorkShrinks ==
    ASSUME NEW P, NEW d \in DeviceState(P)
    PROVE  LET e == BeginWork(d).device IN
           /\ e \in DeviceState(P) /\ Shrunk(d, e) /\ e.queue = d.queue
  <1> DEFINE e == [d EXCEPT !.working = TRUE, !.machine = "READY",
                            !.current = NoPacket]
  <1>1. /\ e \in DeviceState(P) /\ e.queues = d.queues
        /\ e.queue = d.queue
    BY DEF DeviceState
  <1>2. BeginWork(d) = ServeWorkingQueue(e)
    BY DEF BeginWork
  <1> HIDE DEF e
  <1> QED  BY <1>1, <1>2, ServeShrinks DEF Shrunk
-------------------------------------------------------------------------------
(* Before Initialize, the one event there is.                              *)
Unstarted ==
    /\ events = Schedule(<<>>, 0, CtlEvent("Initialize"))
    /\ \A i \in Tor : Empty(dev[i])

(* QueuePurity with the types it needs, and the agreement of routing and   *)
(* uplink on which queue is served.                                        *)
IInv ==
    /\ dev \in [Tor -> DeviceState(Packet)]
    /\ rounds \in Nat /\ sends \in Nat /\ set_index \in Nat
    /\ working_queue_index \in [Tor -> Slot]
    /\ \A i \in Tor : dev[i].queue = working_queue_index[i]
    /\ IF rounds = 0 THEN Unstarted
       ELSE ocs_dest_addr \in [Tor -> [Slot -> Tor]]
    /\ \A i \in Tor : Pure(dev[i], ocs_dest_addr[i])

(* Before Initialize all queues are empty.                                 *)
LEMMA InvInit == Init => IInv
  <1> SUFFICES ASSUME Init PROVE IInv
    OBVIOUS
  <1>1. 0 \in Slot
    BY DeviceAssumption DEF Slot
  <1>2. /\ NewDevice \in DeviceState(Packet) /\ NewDevice.queue = 0
        /\ Empty(NewDevice)
    BY <1>1 DEF NewDevice, DeviceState, Empty
  <1>3. \A w : Pure(NewDevice, w)
    BY <1>2 DEF Empty, Pure
  <1> QED  BY <1>1, <1>2, <1>3
              DEF Init, IInv, Unstarted, Ctl!Init, Ctl!Tor, Tor

(* At the start nothing but Initialize can run.                            *)
LEMMA OnlyInitialize ==
    ASSUME Unstarted
    PROVE  /\ HasDue(events)
           /\ NextEvent(events).kind = "Initialize"
  <1> DEFINE e == [left |-> 0, what |-> CtlEvent("Initialize")]
  <1>1. /\ events = <<e>> /\ Len(events) = 1 /\ DOMAIN events = {1}
        /\ events[1] = e
    BY DEF Unstarted, Schedule
  <1>2. IsDue(events[1])
    BY <1>1 DEF IsDue
  <1>3. NextIndex(events) = 1
    <2>1. {n \in 1 .. Len(events) : IsDue(events[n])} = {1}
      BY <1>1, <1>2
    <2>2. Min({1}) = 1
      BY DEF Min
    <2> QED  BY <2>1, <2>2 DEF NextIndex, SelectInSeq
  <1> QED  BY <1>1, <1>2, <1>3 DEF HasDue, NextEvent, CtlEvent

(* Dawn, in SetRoutings and at the end of Initialize.                      *)
LEMMA StartDayShrinks ==
    ASSUME IInv, StartDay
    PROVE  /\ dev' \in [Tor -> DeviceState(Packet)]
           /\ \A i \in Tor : /\ Shrunk(dev[i], dev'[i])
                             /\ dev'[i].queue = dev[i].queue
  <1>1. CASE UNCHANGED dev
    BY <1>1 DEF IInv, Shrunk
  <1>2. CASE dev' = [i \in Tor |-> BeginWork(dev[i]).device]
    BY <1>2, BeginWorkShrinks DEF IInv
  <1>3. \/ UNCHANGED dev
        \/ dev' = [i \in Tor |-> BeginWork(dev[i]).device]
    BY DEF StartDay
  <1> QED  BY <1>1, <1>2, <1>3

(* The index of the next interval stays a number.                          *)
LEMMA NextSetIndexNat ==
    ASSUME NEW s \in Nat PROVE Ctl!NextSetIndex(s) \in Nat
  BY FabricAssumption, DeviceAssumption
     DEF Ctl!NextSetIndex, Ctl!SetNumbers

(* The first windows fit queues that are still empty.                      *)
LEMMA InitializeKeeps ==
    ASSUME IInv, Initialize
    PROVE  IInv'
  <1>1. /\ rounds = 0 /\ rounds' = 1 /\ sends' = sends
        /\ working_queue_index' = working_queue_index
        /\ ocs_dest_addr' = [i \in Tor |-> Ctl!FirstWindow(i)]
    BY DEF Initialize, Ctl!Initialize, Ctl!StartDay, Ctl!Tor, Tor
  <1>2. ocs_dest_addr' \in [Tor -> [Slot -> Tor]]
    <2>1. ASSUME NEW i \in Tor PROVE Ctl!FirstWindow(i) \in [Slot -> Tor]
      BY FabricAssumption, DeviceAssumption
         DEF Ctl!FirstWindow, Ctl!Slot, Slot, Tor
    <2> QED  BY <1>1, <2>1
  <1>3. StartDay
    BY DEF Initialize
  <1>4. /\ dev' \in [Tor -> DeviceState(Packet)]
        /\ \A i \in Tor : /\ Shrunk(dev[i], dev'[i])
                          /\ dev'[i].queue = dev[i].queue
    BY <1>3, StartDayShrinks
  <1>5. ASSUME NEW i \in Tor PROVE Pure(dev'[i], ocs_dest_addr'[i])
    <2>1. dev[i] \in DeviceState(Packet) /\ Empty(dev[i])
      BY <1>1 DEF IInv, Unstarted
    <2>2. Pure(dev[i], ocs_dest_addr'[i])
      BY <2>1 DEF Empty, Pure
    <2> QED  BY <1>4, <2>1, <2>2, ShrunkPure
  <1>6. set_index' \in Nat
    BY NextSetIndexNat DEF Initialize, Ctl!Initialize, IInv
  <1>7. /\ rounds' \in Nat /\ rounds' # 0 /\ sends' \in Nat
        /\ working_queue_index' \in [Tor -> Slot]
    BY <1>1 DEF IInv
  <1>8. \A i \in Tor : dev'[i].queue = working_queue_index'[i]
    BY <1>1, <1>4 DEF IInv
  <1> QED  BY <1>2, <1>4, <1>5, <1>6, <1>7, <1>8 DEF IInv

(* Dawn moves no window; what the uplinks send leaves their queues.        *)
LEMMA SetRoutingsKeeps ==
    ASSUME IInv, SetRoutings
    PROVE  IInv'
  <1>1. rounds # 0
    BY OnlyInitialize DEF SetRoutings, NextIs, IInv
  <1>2. /\ rounds' = rounds + 1 /\ sends' = sends
        /\ working_queue_index' = working_queue_index
        /\ ocs_dest_addr' = ocs_dest_addr
    BY DEF SetRoutings, Ctl!SetRoutings, Ctl!StartDay
  <1>3. /\ dev' \in [Tor -> DeviceState(Packet)]
        /\ \A i \in Tor : /\ Shrunk(dev[i], dev'[i])
                          /\ dev'[i].queue = dev[i].queue
    BY StartDayShrinks DEF SetRoutings
  <1>4. ASSUME NEW i \in Tor PROVE Pure(dev'[i], ocs_dest_addr'[i])
    BY <1>2, <1>3, ShrunkPure DEF IInv
  <1>5. /\ rounds' \in Nat /\ rounds' # 0 /\ sends' \in Nat
        /\ set_index' \in Nat /\ working_queue_index' \in [Tor -> Slot]
        /\ ocs_dest_addr' \in [Tor -> [Slot -> Tor]]
    BY <1>1, <1>2 DEF IInv, SetRoutings, Ctl!SetRoutings
  <1>6. \A i \in Tor : dev'[i].queue = working_queue_index'[i]
    BY <1>2, <1>3 DEF IInv
  <1> QED  BY <1>3, <1>4, <1>5, <1>6 DEF IInv

(* The queue IntoNight empties is the one that was served; with a queue    *)
(* for every other ToR it empties none, or it does not matter.             *)
LEMMA DuskShrinks ==
    ASSUME NEW P, NEW d \in DeviceState(P),
           NEW k \in Slot, k = (d.queue + 1) % Q
    PROVE  LET e == IntoNight(SetWorkingQueue(d, k)) IN
           /\ e \in DeviceState(P) /\ Shrunk(d, e) /\ e.queue = k
           /\ Q \in {1, 4} =>
                  \A l \in Slot :
                      e.queues[l] = IF l = d.queue THEN <<>> ELSE d.queues[l]
  <1> DEFINE s == SetWorkingQueue(d, k)
             n == [s EXCEPT !.working = FALSE]
             f == FlushedQueue(s)
             g == [n EXCEPT !.queues[f] = <<>>]
             c == [n EXCEPT !.crashed = TRUE]
  <1>1. /\ n \in DeviceState(P) /\ n.queue = k /\ s.queue = k
        /\ n.queues = d.queues
        /\ c \in DeviceState(P) /\ c.queue = k
        /\ c.queues = d.queues
    BY DEF SetWorkingQueue, DeviceState
  <1>2. ASSUME f \in Slot
        PROVE  /\ g \in DeviceState(P) /\ g.queue = k
               /\ \A l \in Slot : g.queues[l] = IF l = f THEN <<>>
                                                ELSE d.queues[l]
    <2> HIDE DEF n, f
    <2>1. n.queues \in [Slot -> Seq(P)] /\ <<>> \in Seq(P)
      BY <1>1 DEF DeviceState
    <2>2. [n.queues EXCEPT ![f] = <<>>] \in [Slot -> Seq(P)]
      BY <1>2, <2>1
    <2>3. g = [n EXCEPT !.queues = [n.queues EXCEPT ![f] = <<>>]]
      OBVIOUS
    <2>4. /\ g \in DeviceState(P) /\ g.queue = k
          /\ g.queues = [n.queues EXCEPT ![f] = <<>>]
      BY <1>1, <2>2, <2>3 DEF DeviceState
    <2> QED  BY <1>1, <1>2, <2>1, <2>4
  <1>3. IntoNight(s) = IF Q > 4 THEN n ELSE IF f \notin Slot THEN c ELSE g
    BY DEF IntoNight, Crash, Result
  <1>4. Q \in {1, 4} => f = d.queue /\ f \in Slot /\ ~(Q > 4)
    <2>1. d.queue \in Slot
      BY DEF DeviceState
    <2>2. f = IF Q = 1 THEN 0 ELSE (s.queue + 3) % 4
      BY DEF FlushedQueue
    <2> HIDE DEF s, f
    <2>3. CASE Q = 1
      BY <1>1, <2>1, <2>2, <2>3 DEF Slot
    <2>4. CASE Q = 4
      BY <1>1, <2>1, <2>2, <2>4 DEF Slot
    <2> QED  BY <2>3, <2>4
  <1> HIDE DEF s, n, f, g, c
  <1>5. CASE Q > 4
    BY <1>1, <1>3, <1>4, <1>5 DEF Shrunk, s
  <1>6. CASE ~(Q > 4) /\ f \notin Slot
    BY <1>1, <1>3, <1>4, <1>6 DEF Shrunk, s
  <1>7. CASE ~(Q > 4) /\ f \in Slot
    BY <1>2, <1>3, <1>4, <1>7 DEF Shrunk, s
  <1> QED  BY <1>5, <1>6, <1>7

(* BeginConfig renames the slot of the queue that IntoNight empties.       *)
LEMMA SetNightKeeps ==
    ASSUME IInv, SetNight, Q \in {1, 4} \/ Q = N - 1
    PROVE  IInv'
  <1> DEFINE w(i) == Ctl!WindowAfter(i, set_index + 1)
             k(i) == Ctl!NextQueue(i)
  <1>1. rounds # 0
    BY OnlyInitialize DEF SetNight, NextIs, IInv
  <1>2. /\ rounds' = rounds /\ sends' = sends
        /\ working_queue_index' = [i \in Tor |-> k(i)]
        /\ ocs_dest_addr' = [i \in Tor |-> w(i)]
        /\ dev' = [i \in Tor |-> IntoNight(SetWorkingQueue(dev[i], k(i)))]
    BY DEF SetNight, Ctl!SetNight, Ctl!Tor, Tor
  <1>3. ASSUME NEW i \in Tor
        PROVE  /\ k(i) \in Slot /\ k(i) = (dev[i].queue + 1) % Q
               /\ dev[i].queue \in Slot /\ dev[i] \in DeviceState(Packet)
               /\ dev[i].queue = working_queue_index[i]
    BY DeviceAssumption DEF IInv, Ctl!NextQueue, Slot
  <1>4. ASSUME NEW i \in Tor
        PROVE  /\ w(i) \in [Slot -> Tor]
               /\ w(i) # ocs_dest_addr[i] =>
                     /\ Q \in {1, 4}
                     /\ \A l \in Slot : l # dev[i].queue =>
                            w(i)[l] = ocs_dest_addr[i][l]
    <2>1. ocs_dest_addr[i] \in [Slot -> Tor]
      BY <1>1 DEF IInv
    <2>2. Ctl!LastAddr(i, set_index + 1) \in Tor
      BY FabricAssumption, DeviceAssumption DEF IInv, Ctl!LastAddr, Tor
    <2> QED  BY <1>3, <2>1, <2>2, FabricAssumption
                DEF Ctl!WindowAfter, Ctl!SetNumbers
  <1> HIDE DEF w, k
  <1>5. ASSUME NEW i \in Tor
        PROVE  /\ dev'[i] \in DeviceState(Packet) /\ Shrunk(dev[i], dev'[i])
               /\ dev'[i].queue = k(i)
               /\ Q \in {1, 4} =>
                      \A l \in Slot :
                          dev'[i].queues[l] = IF l = dev[i].queue THEN <<>>
                                              ELSE dev[i].queues[l]
    <2>1. dev'[i] = IntoNight(SetWorkingQueue(dev[i], k(i)))
      BY <1>2
    <2> QED  BY ONLY <1>3, <2>1, DuskShrinks
  <1>6. ASSUME NEW i \in Tor PROVE Pure(dev'[i], ocs_dest_addr'[i])
    <2>1. ocs_dest_addr'[i] = w(i) /\ Pure(dev[i], ocs_dest_addr[i])
      BY <1>2 DEF IInv
    <2>2. CASE w(i) = ocs_dest_addr[i]
      BY <1>3, <1>5, <2>1, <2>2, ShrunkPure
    <2>3. CASE w(i) # ocs_dest_addr[i]
      <3>1. \A l \in Slot : dev'[i].queues[l] = IF l = dev[i].queue THEN <<>>
                                                ELSE dev[i].queues[l]
        BY <1>4, <1>5, <2>3
      <3> QED  BY <1>4, <2>1, <2>3, <3>1 DEF Pure
    <2> QED  BY <2>2, <2>3
  <1>7. dev' \in [Tor -> DeviceState(Packet)]
    BY <1>2, <1>5
  <1>8. /\ rounds' \in Nat /\ rounds' # 0 /\ sends' \in Nat
        /\ set_index' \in Nat /\ working_queue_index' \in [Tor -> Slot]
        /\ ocs_dest_addr' \in [Tor -> [Slot -> Tor]]
    <2>1. set_index' \in Nat
      BY NextSetIndexNat DEF IInv, SetNight, Ctl!SetNight
    <2> QED  BY <1>1, <1>2, <1>3, <1>4, <2>1 DEF IInv
  <1>9. \A i \in Tor : dev'[i].queue = working_queue_index'[i]
    BY <1>2, <1>5
  <1> QED  BY <1>6, <1>7, <1>8, <1>9 DEF IInv
-------------------------------------------------------------------------------
(* A packet goes into the queue of the slot that names its destination.    *)
LEMMA SendOpticalKeeps ==
    ASSUME IInv, NEW i \in Senders, NEW j \in Tor, SendOptical(i, j)
    PROVE  IInv'
  <1>1. PICK k \in GetQueueIdx(i, j) :
            dev' = [dev EXCEPT
                ![i] = Send(dev[i], [src |-> i, dst |-> j, id |-> sends + 1],
                            k).device]
    BY DEF SendOptical
  <1> DEFINE p == [src |-> i, dst |-> j, id |-> sends + 1]
             e == Send(dev[i], p, k).device
  <1>2. /\ rounds # 0 /\ sends < MaxPackets /\ sends' = sends + 1
        /\ UNCHANGED ctlVars
    BY DEF SendOptical, IInv
  <1>3. i \in Tor /\ p \in Packet /\ k \in Slot /\ ocs_dest_addr[i][k] = p.dst
    BY <1>2, FabricAssumption DEF IInv, Packet, GetQueueIdx
  <1>4. /\ dev[i] \in DeviceState(Packet)
        /\ Pure(dev[i], ocs_dest_addr[i])
    BY <1>3 DEF IInv
  <1>5. dev' = [dev EXCEPT ![i] = e]
    BY <1>1
  <1> HIDE DEF p
  <1>6. /\ e \in DeviceState(Packet) /\ Pure(e, ocs_dest_addr[i])
        /\ e.queue = dev[i].queue
    BY <1>3, <1>4, SendPure
  <1> HIDE DEF e
  <1>7. dev' \in [Tor -> DeviceState(Packet)]
    BY <1>5, <1>6 DEF IInv
  <1>8. ASSUME NEW l \in Tor
        PROVE  /\ dev'[l].queue = working_queue_index[l]
               /\ Pure(dev'[l], ocs_dest_addr[l])
    BY <1>5, <1>6 DEF IInv
  <1>9. /\ rounds' \in Nat /\ rounds' # 0 /\ sends' \in Nat
        /\ set_index' \in Nat /\ working_queue_index' \in [Tor -> Slot]
        /\ ocs_dest_addr' \in [Tor -> [Slot -> Tor]]
    <2>1. /\ rounds \in Nat /\ sends \in Nat /\ set_index \in Nat
          /\ working_queue_index \in [Tor -> Slot]
          /\ ocs_dest_addr \in [Tor -> [Slot -> Tor]]
      BY <1>2 DEF IInv
    <2>2. /\ rounds' = rounds /\ set_index' = set_index
          /\ working_queue_index' = working_queue_index
          /\ ocs_dest_addr' = ocs_dest_addr
          /\ rounds # 0 /\ sends' = sends + 1
      BY <1>2 DEF ctlVars
    <2>3. sends' \in Nat
      BY <2>1, <2>2
    <2> QED  BY <2>1, <2>2, <2>3
  <1>10. \A l \in Tor : /\ dev'[l].queue = working_queue_index'[l]
                        /\ Pure(dev'[l], ocs_dest_addr'[l])
    BY <1>2, <1>8 DEF ctlVars
  <1> QED  BY <1>7, <1>9, <1>10 DEF IInv

(* A completion takes the next packet of its own uplink, or none.          *)
LEMMA UplinkCompleteKeeps ==
    ASSUME IInv, UplinkComplete
    PROVE  IInv'
  <1> DEFINE i == NextEvent(events).at
             e == TransmitComplete(dev[i]).device
  <1>1. /\ rounds # 0 /\ UNCHANGED <<ctlVars, sends>>
        /\ dev' = [dev EXCEPT ![i] = e]
    BY OnlyInitialize DEF UplinkComplete, NextIs, IInv
  <1>2. ASSUME i \in Tor
        PROVE  /\ e \in DeviceState(Packet) /\ Pure(e, ocs_dest_addr[i])
               /\ e.queue = dev[i].queue
    <2>1. dev[i] \in DeviceState(Packet) /\ Pure(dev[i], ocs_dest_addr[i])
      BY <1>2 DEF IInv
    <2> QED  BY <2>1, CompleteShrinks, ShrunkPure
  <1> HIDE DEF i, e
  <1>3. dev' \in [Tor -> DeviceState(Packet)]
    BY <1>1, <1>2 DEF IInv
  <1>4. ASSUME NEW l \in Tor
        PROVE  /\ dev'[l].queue = working_queue_index[l]
               /\ Pure(dev'[l], ocs_dest_addr[l])
    BY <1>1, <1>2 DEF IInv
  <1> QED  BY <1>1, <1>3, <1>4 DEF IInv, ctlVars

(* All other steps leave controller and uplinks alone.                     *)
LEMMA OthersKeep ==
    ASSUME IInv, UNCHANGED <<ctlVars, dev, sends>>,
           rounds = 0 => UNCHANGED events
    PROVE  IInv'
  <1>1. rounds = 0 => Unstarted'
    BY DEF IInv, Unstarted
  <1> QED  BY <1>1 DEF IInv, ctlVars

(* Every step keeps the invariant.                                         *)
LEMMA InvStep ==
    ASSUME IInv, [Next]_vars, Q \in {1, 4} \/ Q = N - 1
    PROVE  IInv'
  <1>1. CASE Initialize
    BY <1>1, InitializeKeeps
  <1>2. CASE SetRoutings
    BY <1>2, SetRoutingsKeeps
  <1>3. CASE SetNight
    BY <1>3, SetNightKeeps
  <1>4. CASE UplinkComplete
    BY <1>4, UplinkCompleteKeeps
  <1>5. CASE ArriveAtSwitch
    BY <1>5, OnlyInitialize, OthersKeep DEF ArriveAtSwitch, NextIs, IInv
  <1>6. CASE PortComplete
    BY <1>6, OnlyInitialize, OthersKeep DEF PortComplete, NextIs, IInv
  <1>7. CASE ArriveAtTor
    BY <1>7, OnlyInitialize, OthersKeep DEF ArriveAtTor, NextIs, IInv
  <1>8. CASE Tick
    BY <1>8, OnlyInitialize, OthersKeep DEF Tick, IInv
  <1>9. CASE \E i \in Senders, j \in Tor : SendOptical(i, j)
    BY <1>9, SendOpticalKeeps
  <1>10. CASE UNCHANGED vars
    BY <1>10, OthersKeep DEF vars
  <1> QED  BY <1>1, <1>2, <1>3, <1>4, <1>5, <1>6, <1>7, <1>8, <1>9, <1>10
              DEF Next, Simulator

(* With one queue, four, or one for every other ToR, the packets in a      *)
(* queue of an uplink are all for the ToR that the slot of the same index  *)
(* names in the window of the routing: BeginConfig renames a slot in one   *)
(* class and IntoNight empties a queue in another, and they mean the same  *)
(* one however Send, completions and the controller interleave.            *)
THEOREM QueuePurityCorrect ==
    ASSUME Q \in {1, 4} \/ Q = N - 1
    PROVE  Spec => []QueuePurity
  <1>1. Init => IInv
    BY InvInit
  <1>2. IInv /\ [Next]_vars => IInv'
    BY InvStep
  <1>3. IInv => QueuePurity
    BY DEF IInv, Pure, QueuePurity
  <1> QED  BY <1>1, <1>2, <1>3, PTL DEF Spec
-------------------------------------------------------------------------------
(* The packets of an uplink and those for a port.                          *)
From(i) == {p \in Packet : p.src = i}
To(j) == {p \in Packet : p.dst = j}

(* The classes of events.                                                  *)
Start == {CtlEvent("Initialize")}
Nightfall == {CtlEvent("SetNight")}
Dawn == {CtlEvent("SetRoutings")}
UpDone(i) == {DevEvent("UplinkComplete", i)}
PortDone(j) == {DevEvent("PortComplete", j)}
AtSwitch(i) == {Arrival("ArriveAtSwitch", i, p) : p \in From(i)}
AtTor(j) == {Arrival("ArriveAtTor", j, p) : p \in To(j)}

(* Packets that arrive at input i while it is matched with another output  *)
(* than theirs.                                                            *)
Astray(i, j) == {Arrival("ArriveAtSwitch", i, p) : p \in From(i) \ To(j)}

What ==
    Start \cup Nightfall \cup Dawn
        \cup UNION {UpDone(i) \cup AtSwitch(i) \cup PortDone(i) \cup AtTor(i) :
                        i \in Tor}

(* An uplink transmits exactly if its completion is scheduled.  Its        *)
(* packets reach the switch in order, one transmission time apart; and     *)
(* what it still sends at night is there before dawn.                      *)
UplinkTimes(list, i) ==
    /\ Within(list, UpDone(i), TxTime)
    /\ Within(list, AtSwitch(i), TxTime + Delay)
    /\ Precedes(list, UpDone(i), Dawn)
    /\ Precedes(list, AtSwitch(i), Dawn)
    /\ Spaced(list, AtSwitch(i), TxTime)
UplinkFits(list, i, d) ==
    IF d.machine = "BUSY"
    THEN /\ OneOf(list, UpDone(i)) /\ d.current # NoPacket
         /\ Apart(list, AtSwitch(i), UpDone(i), 0 - Delay)
    ELSE /\ NoneOf(list, UpDone(i)) /\ d.current = NoPacket
         /\ Within(list, AtSwitch(i), Delay)
UplinkInv(list, i, d) ==
    /\ d \in DeviceState(From(i))
    /\ UplinkTimes(list, i)
    /\ UplinkFits(list, i, d)

(* A port transmits exactly if its completion is scheduled, and its queue  *)
(* holds at most one packet, the next to be transmitted, right now.        *)
PortInv(list, j, d) ==
    /\ d \in Port!State(To(j))
    /\ ~d.crashed
    /\ Within(list, PortDone(j), TxTime)
    /\ IF d.machine = "BUSY"
       THEN OneOf(list, PortDone(j)) /\ d.current # NoPacket
       ELSE NoneOf(list, PortDone(j)) /\ d.current = NoPacket /\ d.queue = <<>>
    /\ Len(d.queue) <= 1
    /\ d.queue # <<>> => Within(list, PortDone(j), 0)

(* A port is done with what it has when an event of class W comes.         *)
DoneBy(list, j, d, W) ==
    IF d.queue = <<>> THEN Apart(list, PortDone(j), W, 0)
                      ELSE NotBefore(list, W, TxTime)

Held(d) == {d.queue[n] : n \in DOMAIN d.queue} \cup ({d.current} \ {NoPacket})

(* The packets of a port come from one input; by day from the one that is  *)
(* matched with it, unless the port is about to be done with them.         *)
OneSource(d) == \A p, q \in Held(d) : p.src = q.src
Owned(list, j, d, i) ==
    \/ \A p \in Held(d) : p.src = i
    \/ /\ d.queue = <<>> /\ Within(list, PortDone(j), 0)
       /\ NotBefore(list, AtSwitch(i), 1)

(* Input i is matched with output j, whose port is d.                      *)
Circuit(list, i, j, d) ==
    /\ NoneOf(list, Astray(i, j))
    /\ DoneBy(list, j, d, AtSwitch(i))
    /\ Owned(list, j, d, i)

(* Day, night, after the last night, before Initialize.                    *)
Day(list) ==
    /\ ~atnight /\ \A i \in Tor : dev[i].working
    /\ NoneOf(list, Start) /\ OneOf(list, Nightfall) /\ NoneOf(list, Dawn)
    /\ \A i \in Tor : Circuit(list, i, devicesMap[i], port[devicesMap[i]])
Night(list) ==
    /\ atnight /\ \A i \in Tor : ~dev[i].working
    /\ NoneOf(list, Start) /\ NoneOf(list, Nightfall) /\ OneOf(list, Dawn)
Over(list) ==
    /\ \A i \in Tor : ~dev[i].working
    /\ NoneOf(list, Start) /\ NoneOf(list, Nightfall) /\ NoneOf(list, Dawn)
    /\ \A i \in Tor : NoneOf(list, UpDone(i)) /\ NoneOf(list, AtSwitch(i))
Before(list) ==
    /\ \A i \in Tor : ~dev[i].working
    /\ OneOf(list, Start) /\ NoneOf(list, What \ Start)
Phase(list) ==
    IF rounds = 0 THEN Before(list) ELSE Day(list) \/ Night(list) \/ Over(list)

(* What the events have to do with the uplinks and the ports.              *)
Uplinks(list) == \A i \in Tor : UplinkInv(list, i, dev[i])
Ports(list) ==
    \A j \in Tor : /\ PortInv(list, j, port[j]) /\ OneSource(port[j])
                   /\ DoneBy(list, j, port[j], Dawn)

(* Everything in the fabric happens in time.                               *)
TInv ==
    /\ events \in List(What)
    /\ Uplinks(events) /\ Ports(events) /\ Phase(events)
-------------------------------------------------------------------------------
(* What the events of a class have in common.                              *)
LEMMA ClassMeans ==
    ASSUME NEW e
    PROVE  /\ e \in Start => e.kind = "Initialize"
           /\ e \in Nightfall => e.kind = "SetNight"
           /\ e \in Dawn => e.kind = "SetRoutings"
           /\ \A j : e \in UpDone(j) => e.kind = "UplinkComplete" /\ e.at = j
           /\ \A j : e \in PortDone(j) => e.kind = "PortComplete" /\ e.at = j
           /\ \A j : e \in AtSwitch(j) =>
                        e.kind = "ArriveAtSwitch" /\ e.at = j
           /\ \A j : e \in AtTor(j) => e.kind = "ArriveAtTor" /\ e.at = j
           /\ \A j, k : e \in Astray(j, k) =>
                        /\ e.kind = "ArriveAtSwitch" /\ e.at = j
                        /\ e.packet.dst # k
  <1>1. /\ e \in Start => e.kind = "Initialize"
        /\ e \in Nightfall => e.kind = "SetNight"
        /\ e \in Dawn => e.kind = "SetRoutings"
    BY DEF Start, Nightfall, Dawn, CtlEvent
  <1>2. /\ \A j : e \in UpDone(j) => e.kind = "UplinkComplete" /\ e.at = j
        /\ \A j : e \in PortDone(j) => e.kind = "PortComplete" /\ e.at = j
    BY DEF UpDone, PortDone, DevEvent
  <1>3. \A j : e \in AtSwitch(j) => e.kind = "ArriveAtSwitch" /\ e.at = j
    BY DEF AtSwitch, Arrival
  <1>4. \A j : e \in AtTor(j) => e.kind = "ArriveAtTor" /\ e.at = j
    BY DEF AtTor, Arrival
  <1>5. \A j, k : e \in Astray(j, k) => /\ e.kind = "ArriveAtSwitch" /\ e.at = j
                                       /\ e.packet.dst # k
    BY DEF Astray, Arrival, From, To
  <1> QED  BY <1>1, <1>2, <1>3, <1>4, <1>5

(* Which classes an event belongs to.                                      *)
LEMMA UplinkCompleteIn ==
    ASSUME NEW i \in Tor, NEW e, e = DevEvent("UplinkComplete", i)
    PROVE  /\ e \in What /\ e \in UpDone(i)
           /\ e \notin Start /\ e \notin Nightfall /\ e \notin Dawn
           /\ \A j : /\ e \in UpDone(j) => i = j
                     /\ e \notin AtSwitch(j) /\ e \notin PortDone(j)
                     /\ e \notin AtTor(j)
           /\ \A j, k : e \notin Astray(j, k)
  <1>1. e \in UpDone(i) /\ e.kind = "UplinkComplete" /\ e.at = i
    BY DEF UpDone, DevEvent
  <1>2. e \in What
    BY <1>1 DEF What
  <1> QED  BY <1>1, <1>2, ClassMeans

(* Of a port.                                                              *)
LEMMA PortCompleteIn ==
    ASSUME NEW i \in Tor, NEW e, e = DevEvent("PortComplete", i)
    PROVE  /\ e \in What /\ e \in PortDone(i)
           /\ e \notin Start /\ e \notin Nightfall /\ e \notin Dawn
           /\ \A j : /\ e \in PortDone(j) => i = j
                     /\ e \notin AtSwitch(j) /\ e \notin UpDone(j)
                     /\ e \notin AtTor(j)
           /\ \A j, k : e \notin Astray(j, k)
  <1>1. e \in PortDone(i) /\ e.kind = "PortComplete" /\ e.at = i
    BY DEF PortDone, DevEvent
  <1>2. e \in What
    BY <1>1 DEF What
  <1> QED  BY <1>1, <1>2, ClassMeans

(* Of a packet on its way to the switch.                                   *)
LEMMA ArriveAtSwitchIn ==
    ASSUME NEW i \in Tor, NEW p \in From(i), NEW e,
           e = Arrival("ArriveAtSwitch", i, p)
    PROVE  /\ e \in What /\ e \in AtSwitch(i)
           /\ e \notin Start /\ e \notin Nightfall /\ e \notin Dawn
           /\ \A j : /\ e \in AtSwitch(j) => i = j
                     /\ e \notin UpDone(j) /\ e \notin PortDone(j)
                     /\ e \notin AtTor(j)
           /\ \A j, k : e \in Astray(j, k) => i = j /\ p.dst # k
           /\ \A k : p.dst # k => e \in Astray(i, k)
  <1>1. e \in AtSwitch(i) /\ e.kind = "ArriveAtSwitch" /\ e.at = i
        /\ e.packet = p
    BY DEF AtSwitch, Arrival
  <1>2. e \in What
    BY <1>1 DEF What
  <1>3. \A k : p.dst # k => e \in Astray(i, k)
    BY DEF Astray, From, To
  <1> QED  BY <1>1, <1>2, <1>3, ClassMeans

(* Of a packet on its way to its ToR.                                      *)
LEMMA ArriveAtTorIn ==
    ASSUME NEW i \in Tor, NEW p \in To(i), NEW e,
           e = Arrival("ArriveAtTor", i, p)
    PROVE  /\ e \in What /\ e \in AtTor(i)
           /\ e \notin Start /\ e \notin Nightfall /\ e \notin Dawn
           /\ \A j : /\ e \in AtTor(j) => i = j
                     /\ e \notin UpDone(j) /\ e \notin PortDone(j)
                     /\ e \notin AtSwitch(j)
           /\ \A j, k : e \notin Astray(j, k)
  <1>1. e \in AtTor(i) /\ e.kind = "ArriveAtTor" /\ e.at = i
    BY DEF AtTor, Arrival
  <1>2. e \in What
    BY <1>1 DEF What
  <1> QED  BY <1>1, <1>2, ClassMeans

(* Of the controller.                                                      *)
LEMMA CtlIn ==
    ASSUME NEW k \in CtlKinds, NEW e, e = CtlEvent(k)
    PROVE  /\ e \in What
           /\ e \in Start <=> k = "Initialize"
           /\ e \in Nightfall <=> k = "SetNight"
           /\ e \in Dawn <=> k = "SetRoutings"
           /\ \A j : /\ e \notin UpDone(j) /\ e \notin PortDone(j)
                     /\ e \notin AtSwitch(j) /\ e \notin AtTor(j)
           /\ \A i, j : e \notin Astray(i, j)
  <1>1. e.kind = k
    BY DEF CtlEvent
  <1>2. /\ k = "Initialize" => e \in Start
        /\ k = "SetNight" => e \in Nightfall
        /\ k = "SetRoutings" => e \in Dawn
    BY DEF Start, Nightfall, Dawn
  <1>3. e \in What
    BY <1>2 DEF What, CtlKinds
  <1>4. k \in {"Initialize", "SetNight", "SetRoutings"}
    BY DEF CtlKinds
  <1> QED  BY <1>1, <1>2, <1>3, <1>4, ClassMeans

(* The kind of an event tells its class.                                   *)
LEMMA KindMeans ==
    ASSUME NEW e \in What
    PROVE  /\ e.kind = "Initialize" => e = CtlEvent("Initialize")
           /\ e.kind = "SetNight" => e = CtlEvent("SetNight")
           /\ e.kind = "SetRoutings" => e = CtlEvent("SetRoutings")
           /\ e.kind = "UplinkComplete" =>
                 e.at \in Tor /\ e = DevEvent("UplinkComplete", e.at)
           /\ e.kind = "PortComplete" =>
                 e.at \in Tor /\ e = DevEvent("PortComplete", e.at)
           /\ e.kind = "ArriveAtSwitch" =>
                 /\ e.at \in Tor /\ e.packet \in From(e.at)
                 /\ e = Arrival("ArriveAtSwitch", e.at, e.packet)
           /\ e.kind = "ArriveAtTor" =>
                 /\ e.at \in Tor /\ e.packet \in To(e.at)
                 /\ e = Arrival("ArriveAtTor", e.at, e.packet)
  <1>1. CASE e \in Start \cup Nightfall \cup Dawn
    BY <1>1 DEF Start, Nightfall, Dawn, CtlEvent
  <1>2. ASSUME NEW i \in Tor, e \in UpDone(i) \cup PortDone(i)
        PROVE  \/ e.kind = "UplinkComplete" /\ e.at = i
                  /\ e = DevEvent("UplinkComplete", i)
               \/ e.kind = "PortComplete" /\ e.at = i
                  /\ e = DevEvent("PortComplete", i)
    BY <1>2 DEF UpDone, PortDone, DevEvent
  <1>3. ASSUME NEW i \in Tor, e \in AtSwitch(i)
        PROVE  /\ e.kind = "ArriveAtSwitch" /\ e.at = i
               /\ e.packet \in From(i)
               /\ e = Arrival("ArriveAtSwitch", i, e.packet)
    BY <1>3 DEF AtSwitch, Arrival
  <1>4. ASSUME NEW i \in Tor, e \in AtTor(i)
        PROVE  /\ e.kind = "ArriveAtTor" /\ e.at = i
               /\ e.packet \in To(i)
               /\ e = Arrival("ArriveAtTor", i, e.packet)
    BY <1>4 DEF AtTor, Arrival
  <1>5. \/ e \in Start \cup Nightfall \cup Dawn
        \/ \E i \in Tor : \/ e \in UpDone(i) \cup PortDone(i)
                          \/ e \in AtSwitch(i) \/ e \in AtTor(i)
    BY DEF What
  <1>6. CASE \E i \in Tor : e \in UpDone(i) \cup PortDone(i)
    BY <1>2, <1>6
  <1>7. CASE \E i \in Tor : e \in AtSwitch(i)
    BY <1>3, <1>7
  <1>8. CASE \E i \in Tor : e \in AtTor(i)
    BY <1>4, <1>8
  <1> QED  BY <1>1, <1>5, <1>6, <1>7, <1>8
-------------------------------------------------------------------------------
(* A transmission of an uplink adds its completion and its arrival.        *)
LEMMA FromUplinkDoes ==
    ASSUME NEW list \in List(What), NEW i \in Tor, NEW p \in From(i)
    PROVE  LET more == FromUplink(list, i, p) IN
           /\ more \in List(What)
           /\ \A W : /\ DevEvent("UplinkComplete", i) \notin W
                     /\ Arrival("ArriveAtSwitch", i, p) \notin W
                     => Same(list, more, W)
           /\ NoneOf(list, UpDone(i)) => OneOf(more, UpDone(i))
           /\ Within(list, UpDone(i), TxTime) => Within(more, UpDone(i), TxTime)
           /\ Within(list, AtSwitch(i), Delay) =>
                 /\ Within(more, AtSwitch(i), TxTime + Delay)
                 /\ Spaced(list, AtSwitch(i), TxTime)
                        => Spaced(more, AtSwitch(i), TxTime)
                 /\ NoneOf(list, UpDone(i))
                        => Apart(more, AtSwitch(i), UpDone(i), 0 - Delay)
           /\ \A d : NotBefore(list, AtSwitch(i), d) /\ d <= TxTime + Delay
                       => NotBefore(more, AtSwitch(i), d)
           /\ \A j : /\ Apart(list, PortDone(j), AtSwitch(i), 0)
                     /\ Within(list, PortDone(j), TxTime)
                     => Apart(more, PortDone(j), AtSwitch(i), 0)
  <1> DEFINE u == DevEvent("UplinkComplete", i)
             a == Arrival("ArriveAtSwitch", i, p)
             mid == Schedule(list, TxTime, u)
             more == Schedule(mid, TxTime + Delay, a)
  <1>0. /\ TxTime \in Nat /\ Delay \in Nat /\ TxTime + Delay \in Nat
        /\ 0 - Delay \in Int
    BY FabricAssumption
  <1>1. /\ u \in What /\ u \in UpDone(i) /\ u \notin AtSwitch(i)
        /\ a \in What /\ a \in AtSwitch(i) /\ a \notin UpDone(i)
        /\ \A j : u \notin PortDone(j) /\ a \notin PortDone(j)
    BY UplinkCompleteIn, ArriveAtSwitchIn
  <1>2. FromUplink(list, i, p) = more
    <2>1. p # NoPacket
      BY FabricAssumption DEF From
    <2> QED  BY <2>1 DEF FromUplink, Transmission
  <1> HIDE DEF u, a
  <1>3. mid \in List(What) /\ more \in List(What)
    BY <1>0, <1>1, ScheduleDoes
  <1>4. \A W : u \notin W => Same(list, mid, W)
    BY <1>0, <1>1, ScheduleSame
  <1>5. \A W : a \notin W => Same(mid, more, W)
    <2> HIDE DEF mid
    <2> QED  BY <1>0, <1>1, <1>3, ScheduleSame
  <1>6. \A W : u \notin W /\ a \notin W => Same(list, more, W)
    BY <1>4, <1>5 DEF Same
  <1>7. NoneOf(list, UpDone(i)) => OneOf(more, UpDone(i))
    <2>1. NoneOf(list, UpDone(i)) => OneOf(mid, UpDone(i))
      BY <1>0, <1>1, ScheduleClass
    <2> QED  BY <1>1, <1>5, <2>1, SameClass
  <1>8. Within(list, UpDone(i), TxTime) => Within(more, UpDone(i), TxTime)
    <2>1. Within(list, UpDone(i), TxTime) => Within(mid, UpDone(i), TxTime)
      BY <1>0, <1>1, ScheduleClass
    <2> QED  BY <1>1, <1>5, <2>1, SameClass
  <1>9. \A d : /\ Within(list, AtSwitch(i), d) => Within(mid, AtSwitch(i), d)
               /\ NotBefore(list, AtSwitch(i), d)
                     => NotBefore(mid, AtSwitch(i), d)
               /\ Spaced(list, AtSwitch(i), d) => Spaced(mid, AtSwitch(i), d)
    BY <1>1, <1>4, SameClass
  <1>10. \A j : /\ Apart(list, PortDone(j), AtSwitch(i), 0)
                    => Apart(mid, PortDone(j), AtSwitch(i), 0)
                /\ Within(list, PortDone(j), TxTime)
                    => Within(mid, PortDone(j), TxTime)
    BY <1>1, <1>4, SameClass
  <1>11. ASSUME Within(list, AtSwitch(i), Delay), NoneOf(list, UpDone(i))
         PROVE  /\ Apart(mid, AtSwitch(i), UpDone(i), 0 - Delay)
                /\ NotBefore(mid, UpDone(i), (TxTime + Delay) + (0 - Delay))
    <2>1. Apart(list, AtSwitch(i), UpDone(i), 0 - Delay)
      BY <1>11, NoneMeans
    <2>2. Within(list, AtSwitch(i), TxTime - (0 - Delay))
      <3>1. /\ TxTime - (0 - Delay) \in Int /\ Delay \in Int
            /\ Delay <= TxTime - (0 - Delay)
        BY <1>0
      <3> QED  BY <1>0, <1>11, <3>1, TimesDo
    <2>3. Apart(mid, AtSwitch(i), UpDone(i), 0 - Delay)
      BY <1>0, <1>1, <2>1, <2>2, ScheduleTimes
    <2>4. NotBefore(list, UpDone(i), TxTime)
      BY <1>11, NoneMeans
    <2>5. NotBefore(mid, UpDone(i), TxTime)
      BY <1>0, <1>1, <2>4, ScheduleTimes
    <2>6. (TxTime + Delay) + (0 - Delay) = TxTime
      BY <1>0
    <2> QED  BY <2>3, <2>5, <2>6
  <1> HIDE DEF mid
  <1>12. ASSUME Within(list, AtSwitch(i), Delay)
         PROVE  /\ Within(more, AtSwitch(i), TxTime + Delay)
                /\ Spaced(list, AtSwitch(i), TxTime)
                      => Spaced(more, AtSwitch(i), TxTime)
                /\ NoneOf(list, UpDone(i))
                      => Apart(more, AtSwitch(i), UpDone(i), 0 - Delay)
    <2>1. Within(mid, AtSwitch(i), Delay)
      BY <1>9, <1>12
    <2>2. /\ Within(mid, AtSwitch(i), TxTime + Delay)
          /\ Within(mid, AtSwitch(i), (TxTime + Delay) - TxTime)
      <3>1. /\ (TxTime + Delay) - TxTime = Delay
            /\ Delay <= TxTime + Delay /\ Delay \in Int
            /\ TxTime + Delay \in Int
        BY <1>0
      <3> QED  BY <1>3, <2>1, <3>1, TimesDo
    <2>3. Within(more, AtSwitch(i), TxTime + Delay)
      BY <1>0, <1>1, <1>3, <2>2, ScheduleClass
    <2>4. Spaced(mid, AtSwitch(i), TxTime) => Spaced(more, AtSwitch(i), TxTime)
      BY <1>0, <1>1, <1>3, <2>2, ScheduleTimes
    <2>5. NoneOf(list, UpDone(i))
             => Apart(more, AtSwitch(i), UpDone(i), 0 - Delay)
      BY <1>0, <1>1, <1>3, <1>11, <1>12, ScheduleTimes
    <2> QED  BY <1>9, <2>3, <2>4, <2>5
  <1>13. ASSUME NEW d, NotBefore(list, AtSwitch(i), d), d <= TxTime + Delay
         PROVE  NotBefore(more, AtSwitch(i), d)
    <2>1. NotBefore(mid, AtSwitch(i), d)
      BY <1>9, <1>13
    <2> QED  BY <1>0, <1>3, <1>1, <1>13, <2>1, ScheduleTimes
  <1>14. ASSUME NEW j, Apart(list, PortDone(j), AtSwitch(i), 0),
                Within(list, PortDone(j), TxTime)
         PROVE  Apart(more, PortDone(j), AtSwitch(i), 0)
    <2>1. /\ Apart(mid, PortDone(j), AtSwitch(i), 0)
          /\ Within(mid, PortDone(j), TxTime)
      BY <1>10, <1>14
    <2>2. Within(mid, PortDone(j), (TxTime + Delay) - 0)
      <3>1. /\ TxTime \in Int /\ (TxTime + Delay) - 0 \in Int
            /\ TxTime <= (TxTime + Delay) - 0
        BY <1>0
      <3> QED  BY <1>3, <2>1, <3>1, TimesDo
    <2> QED  BY <1>0, <1>1, <1>3, <2>1, <2>2, ScheduleTimes
  <1> HIDE DEF more
  <1> QED  BY <1>2, <1>3, <1>6, <1>7, <1>8, <1>12, <1>13, <1>14
           DEF u, a

(* A transmission of a port adds its completion and the arrival at the ToR. *)
LEMMA FromPortDoes ==
    ASSUME NEW list \in List(What), NEW j \in Tor, NEW p \in To(j)
    PROVE  LET more == FromPort(list, j, p) IN
           /\ more \in List(What)
           /\ \A W : /\ DevEvent("PortComplete", j) \notin W
                     /\ Arrival("ArriveAtTor", j, p) \notin W
                     => Same(list, more, W)
           /\ NoneOf(list, PortDone(j)) =>
                 OneOf(more, PortDone(j)) /\ Within(more, PortDone(j), TxTime)
           /\ \A W : /\ NoneOf(list, PortDone(j))
                     /\ NotBefore(list, W, TxTime)
                     /\ DevEvent("PortComplete", j) \notin W
                     /\ Arrival("ArriveAtTor", j, p) \notin W
                     => Apart(more, PortDone(j), W, 0)
  <1> DEFINE u == DevEvent("PortComplete", j)
             a == Arrival("ArriveAtTor", j, p)
             mid == Schedule(list, TxTime, u)
             more == Schedule(mid, TxTime + Delay, a)
  <1>0. /\ TxTime \in Nat /\ Delay \in Nat /\ TxTime + Delay \in Nat
        /\ TxTime + 0 = TxTime /\ 0 \in Int
    BY FabricAssumption
  <1>1. /\ u \in What /\ u \in PortDone(j)
        /\ a \in What /\ a \notin PortDone(j)
    BY PortCompleteIn, ArriveAtTorIn
  <1>2. FromPort(list, j, p) = more
    <2>1. p # NoPacket
      BY FabricAssumption DEF To
    <2> QED  BY <2>1 DEF FromPort, Transmission
  <1> HIDE DEF u, a
  <1>3. mid \in List(What) /\ more \in List(What)
    BY <1>0, <1>1, ScheduleDoes
  <1>4. \A W : u \notin W => Same(list, mid, W)
    BY <1>0, <1>1, ScheduleSame
  <1>5. NoneOf(list, PortDone(j)) =>
            OneOf(mid, PortDone(j)) /\ Within(mid, PortDone(j), TxTime)
    <2>1. NoneOf(list, PortDone(j)) => Within(list, PortDone(j), TxTime)
      BY NoneMeans
    <2> QED  BY <1>0, <1>1, <2>1, ScheduleClass
  <1>6. ASSUME NEW W, NoneOf(list, PortDone(j)), NotBefore(list, W, TxTime),
               u \notin W
        PROVE  Apart(mid, PortDone(j), W, 0)
    <2>1. Apart(list, PortDone(j), W, 0)
      BY <1>6, NoneMeans
    <2> QED  BY <1>0, <1>1, <1>6, <2>1, ScheduleTimes
  <1> HIDE DEF mid
  <1>7. \A W : a \notin W => Same(mid, more, W)
    BY <1>0, <1>1, <1>3, ScheduleSame
  <1>8. \A W : u \notin W /\ a \notin W => Same(list, more, W)
    BY <1>4, <1>7 DEF Same
  <1>9. NoneOf(list, PortDone(j)) =>
            OneOf(more, PortDone(j)) /\ Within(more, PortDone(j), TxTime)
    BY <1>1, <1>5, <1>7, SameClass
  <1>10. ASSUME NEW W, NoneOf(list, PortDone(j)), NotBefore(list, W, TxTime),
                u \notin W, a \notin W
         PROVE  Apart(more, PortDone(j), W, 0)
    <2>1. Apart(mid, PortDone(j), W, 0)
      BY <1>6, <1>10
    <2>2. Same(mid, more, PortDone(j)) /\ Same(mid, more, W)
      BY <1>1, <1>7, <1>10
    <2> QED  BY <2>1, <2>2, SameClass
  <1> HIDE DEF more
  <1> QED  BY <1>2, <1>3, <1>8, <1>9, <1>10 DEF u, a
-------------------------------------------------------------------------------
(* Events of other uplinks and ports change nothing.                       *)
LEMMA SameUplink ==
    ASSUME NEW list, NEW more, NEW i, NEW d, UplinkInv(list, i, d),
           Same(list, more, UpDone(i)), Same(list, more, AtSwitch(i)),
           Same(list, more, Dawn)
    PROVE  UplinkInv(more, i, d)
  <1>1. UplinkTimes(list, i) => UplinkTimes(more, i)
    BY SameClass DEF UplinkTimes
  <1>2. UplinkFits(list, i, d) => UplinkFits(more, i, d)
    BY SameClass DEF UplinkFits
  <1> QED  BY <1>1, <1>2 DEF UplinkInv

(* The same for a port,                                                    *)
LEMMA SamePort ==
    ASSUME NEW list, NEW more, NEW j, NEW d, Same(list, more, PortDone(j))
    PROVE  /\ PortInv(list, j, d) => PortInv(more, j, d)
           /\ \A W : /\ Same(list, more, W)
                     /\ DoneBy(list, j, d, W)
                     => DoneBy(more, j, d, W)
  <1>1. PortInv(list, j, d) => PortInv(more, j, d)
    BY SameClass DEF PortInv
  <1>2. ASSUME NEW W, Same(list, more, W), DoneBy(list, j, d, W)
        PROVE  DoneBy(more, j, d, W)
    BY <1>2, SameClass DEF DoneBy
  <1> QED  BY <1>1, <1>2

(* and for a circuit.                                                      *)
LEMMA SameCircuit ==
    ASSUME NEW list, NEW more, NEW i, NEW j, NEW d,
           Circuit(list, i, j, d), Same(list, more, PortDone(j)),
           Same(list, more, AtSwitch(i)), Same(list, more, Astray(i, j))
    PROVE  Circuit(more, i, j, d)
  <1>1. NoneOf(more, Astray(i, j))
    BY SameClass DEF Circuit
  <1>2. DoneBy(more, j, d, AtSwitch(i))
    BY SamePort DEF Circuit
  <1>3. Owned(more, j, d, i)
    BY SameClass DEF Circuit, Owned
  <1> QED  BY <1>1, <1>2, <1>3 DEF Circuit
-------------------------------------------------------------------------------
(* An event is taken from the list.                                        *)
LEMMA RestUplink ==
    ASSUME NEW list \in List(What), HasDue(list), NEW i, NEW d,
           UplinkInv(list, i, d)
    PROVE  LET rest == RemoveNext(list) IN
           /\ UplinkTimes(rest, i)
           /\ NextEvent(list) \notin UpDone(i) => UplinkInv(rest, i, d)
           /\ NextEvent(list) \in UpDone(i) =>
                 /\ NoneOf(rest, UpDone(i)) /\ Within(rest, AtSwitch(i), Delay)
                 /\ d.machine = "BUSY" /\ d.current # NoPacket
  <1> DEFINE rest == RemoveNext(list)
  <1>0. UplinkTimes(list, i) /\ UplinkFits(list, i, d)
    BY DEF UplinkInv
  <1>1. UplinkTimes(rest, i)
    <2>1. /\ Within(rest, UpDone(i), TxTime)
          /\ Within(rest, AtSwitch(i), TxTime + Delay)
          /\ Precedes(rest, UpDone(i), Dawn)
          /\ Precedes(rest, AtSwitch(i), Dawn)
      BY <1>0, RemoveClass DEF UplinkTimes
    <2>2. Spaced(rest, AtSwitch(i), TxTime)
      BY <1>0, RemoveTimes DEF UplinkTimes
    <2> QED  BY <2>1, <2>2 DEF UplinkTimes
  <1>2. ASSUME NextEvent(list) \notin UpDone(i)
        PROVE  UplinkInv(rest, i, d)
    <2>1. CASE d.machine = "BUSY"
      <3>1. OneOf(rest, UpDone(i))
        BY <1>0, <1>2, <2>1, RemoveClass DEF UplinkFits
      <3>2. Apart(rest, AtSwitch(i), UpDone(i), 0 - Delay)
        BY <1>0, <2>1, RemoveTimes DEF UplinkFits
      <3>3. UplinkFits(rest, i, d)
        BY <1>0, <2>1, <3>1, <3>2 DEF UplinkFits
      <3> QED  BY <1>1, <3>3 DEF UplinkInv
    <2>2. CASE d.machine # "BUSY"
      <3>1. NoneOf(rest, UpDone(i)) /\ Within(rest, AtSwitch(i), Delay)
        BY <1>0, <2>2, RemoveClass DEF UplinkFits
      <3>2. UplinkFits(rest, i, d)
        BY <1>0, <2>2, <3>1 DEF UplinkFits
      <3> QED  BY <1>1, <3>2 DEF UplinkInv
    <2> QED  BY <2>1, <2>2
  <1>3. ASSUME NextEvent(list) \in UpDone(i)
        PROVE  /\ NoneOf(rest, UpDone(i)) /\ Within(rest, AtSwitch(i), Delay)
               /\ d.machine = "BUSY" /\ d.current # NoPacket
    <2>1. d.machine = "BUSY"
      BY <1>0, <1>3, NextNotNone DEF UplinkFits
    <2>2. /\ OneOf(list, UpDone(i)) /\ d.current # NoPacket
          /\ Apart(list, AtSwitch(i), UpDone(i), 0 - Delay)
      BY <1>0, <2>1 DEF UplinkFits
    <2>3. NoneOf(rest, UpDone(i))
      BY <1>3, <2>2, RemoveClass
    <2>4. Within(list, AtSwitch(i), Delay)
      <3>1. 0 - Delay \in Int /\ 0 - (0 - Delay) = Delay
        BY FabricAssumption
      <3>2. Within(list, AtSwitch(i), 0 - (0 - Delay))
        BY <1>3, <2>2, <3>1, NextTimes
      <3> QED  BY <3>1, <3>2
    <2>5. Within(rest, AtSwitch(i), Delay)
      BY <2>4, RemoveClass
    <2> QED  BY <2>1, <2>2, <2>3, <2>5
  <1> QED  BY <1>1, <1>2, <1>3

(* The same for a port and its circuit.                                    *)
LEMMA RestPort ==
    ASSUME NEW list \in List(What), HasDue(list), NEW j, NEW d,
           PortInv(list, j, d)
    PROVE  LET rest == RemoveNext(list) IN
           /\ NextEvent(list) \notin PortDone(j) => PortInv(rest, j, d)
           /\ NextEvent(list) \in PortDone(j) =>
                 /\ NoneOf(rest, PortDone(j))
                 /\ d.machine = "BUSY" /\ d.current # NoPacket
           /\ \A W : DoneBy(list, j, d, W) => DoneBy(rest, j, d, W)
           /\ \A i : Circuit(list, i, j, d) => Circuit(rest, i, j, d)
  <1> DEFINE rest == RemoveNext(list)
  <1>1. /\ \A W : NoneOf(list, W) => NoneOf(rest, W)
        /\ \A W, t : Within(list, W, t) => Within(rest, W, t)
        /\ \A W : OneOf(list, W) /\ NextEvent(list) \notin W => OneOf(rest, W)
        /\ \A W : OneOf(list, W) /\ NextEvent(list) \in W => NoneOf(rest, W)
    BY RemoveClass
  <1>2. /\ \A W, t : NotBefore(list, W, t) => NotBefore(rest, W, t)
        /\ \A W, V, t : Apart(list, W, V, t) => Apart(rest, W, V, t)
    BY RemoveTimes
  <1>3. NextEvent(list) \notin PortDone(j) => PortInv(rest, j, d)
    BY <1>1 DEF PortInv
  <1>4. NextEvent(list) \in PortDone(j) =>
            /\ NoneOf(rest, PortDone(j))
            /\ d.machine = "BUSY" /\ d.current # NoPacket
    BY <1>1, NextNotNone DEF PortInv
  <1>5. \A W : DoneBy(list, j, d, W) => DoneBy(rest, j, d, W)
    BY <1>2 DEF DoneBy
  <1>6. \A i : Circuit(list, i, j, d) => Circuit(rest, i, j, d)
    BY <1>1, <1>2, <1>5 DEF Circuit, Owned
  <1> QED  BY <1>3, <1>4, <1>5, <1>6

(* Time passes.                                                            *)
LEMMA LaterUplink ==
    ASSUME NEW list \in List(What), ~HasDue(list), NEW i, NEW d,
           UplinkInv(list, i, d)
    PROVE  UplinkInv(Elapse(list), i, d)
  <1> DEFINE later == Elapse(list)
  <1>0. /\ TxTime \in Nat /\ TxTime + Delay \in Nat /\ Delay \in Nat
        /\ TxTime \in Int /\ 0 - Delay \in Int
    BY FabricAssumption
  <1>1. UplinkTimes(later, i)
    <2>1. /\ Within(later, UpDone(i), TxTime)
          /\ Within(later, AtSwitch(i), TxTime + Delay)
          /\ Precedes(later, UpDone(i), Dawn)
          /\ Precedes(later, AtSwitch(i), Dawn)
      BY <1>0, ElapseClass DEF UplinkInv, UplinkTimes
    <2>2. Spaced(later, AtSwitch(i), TxTime)
      BY <1>0, ElapseTimes DEF UplinkInv, UplinkTimes
    <2> QED  BY <2>1, <2>2 DEF UplinkTimes
  <1>2. CASE d.machine = "BUSY"
    <2>1. OneOf(later, UpDone(i))
      BY <1>2, ElapseClass DEF UplinkInv, UplinkFits
    <2>2. Apart(later, AtSwitch(i), UpDone(i), 0 - Delay)
      BY <1>0, <1>2, ElapseTimes DEF UplinkInv, UplinkFits
    <2>3. UplinkFits(later, i, d)
      BY <1>2, <2>1, <2>2 DEF UplinkInv, UplinkFits
    <2> QED  BY <1>1, <2>3 DEF UplinkInv
  <1>3. CASE d.machine # "BUSY"
    <2>1. NoneOf(later, UpDone(i)) /\ Within(later, AtSwitch(i), Delay)
      BY <1>0, <1>3, ElapseClass DEF UplinkInv, UplinkFits
    <2>2. UplinkFits(later, i, d)
      BY <1>3, <2>1 DEF UplinkInv, UplinkFits
    <2> QED  BY <1>1, <2>2 DEF UplinkInv
  <1> QED  BY <1>2, <1>3

(* Nothing is due, so that a port that was about to be done with its       *)
(* packets is.                                                             *)
LEMMA LaterPort ==
    ASSUME NEW list \in List(What), ~HasDue(list), NEW j, NEW d,
           PortInv(list, j, d)
    PROVE  LET later == Elapse(list) IN
           /\ PortInv(later, j, d)
           /\ \A W : DoneBy(list, j, d, W) => DoneBy(later, j, d, W)
           /\ \A i : Circuit(list, i, j, d) => Circuit(later, i, j, d)
  <1> DEFINE later == Elapse(list)
  <1>0. TxTime \in Nat /\ 0 \in Int
    BY FabricAssumption
  <1>1. Within(list, PortDone(j), 0) => Held(d) = {} /\ d.queue = <<>>
    <2> SUFFICES ASSUME Within(list, PortDone(j), 0)
                 PROVE  Held(d) = {} /\ d.queue = <<>>
      OBVIOUS
    <2>1. NoneOf(list, PortDone(j))
      BY ElapseTimes
    <2>2. d.machine # "BUSY"
      BY <2>1 DEF PortInv, NoneOf, OneOf
    <2>3. d.current = NoPacket /\ d.queue = <<>>
      BY <2>2 DEF PortInv
    <2> QED  BY <2>3 DEF Held
  <1>2. d.queue = <<>>
    BY <1>1 DEF PortInv
  <1>3. PortInv(later, j, d)
    <2>1. Within(later, PortDone(j), TxTime)
      BY <1>0, ElapseClass DEF PortInv
    <2>2. IF d.machine = "BUSY" THEN OneOf(later, PortDone(j))
                                ELSE NoneOf(later, PortDone(j))
      BY ElapseClass DEF PortInv
    <2> QED  BY <1>2, <2>1, <2>2 DEF PortInv
  <1>4. ASSUME NEW W, DoneBy(list, j, d, W)
        PROVE  DoneBy(later, j, d, W)
    <2>1. Apart(later, PortDone(j), W, 0)
      BY <1>0, <1>2, <1>4, ElapseTimes DEF DoneBy
    <2> QED  BY <1>2, <2>1 DEF DoneBy
  <1>5. ASSUME NEW i, Circuit(list, i, j, d)
        PROVE  Circuit(later, i, j, d)
    <2>1. NoneOf(later, Astray(i, j))
      BY <1>5, ElapseClass DEF Circuit
    <2>2. DoneBy(later, j, d, AtSwitch(i))
      BY <1>4, <1>5 DEF Circuit
    <2>3. Owned(later, j, d, i)
      BY <1>1, <1>5 DEF Circuit, Owned
    <2> QED  BY <2>1, <2>2, <2>3 DEF Circuit
  <1> QED  BY <1>3, <1>4, <1>5
-------------------------------------------------------------------------------
(* An idle uplink i goes on with packet p, or stays idle.  The transmission *)
(* is on a circuit if the packet is for the output i is matched with.       *)
LEMMA UplinkSends ==
    ASSUME NEW list \in List(What), NEW i \in Tor,
           NEW e \in DeviceState(From(i)), NEW p \in From(i) \cup {NoPacket},
           UplinkTimes(list, i), NoneOf(list, UpDone(i)),
           Within(list, AtSwitch(i), Delay),
           IF p = NoPacket THEN Idle(e) ELSE Sending(e, p),
           p # NoPacket => NoneOf(list, Dawn)
    PROVE  LET more == FromUplink(list, i, p) IN
           /\ more \in List(What)
           /\ UplinkInv(more, i, e)
           /\ \A l, d : l # i /\ UplinkInv(list, l, d) => UplinkInv(more, l, d)
           /\ \A j, d : PortInv(list, j, d) => PortInv(more, j, d)
           /\ \A j, d : DoneBy(list, j, d, Dawn) => DoneBy(more, j, d, Dawn)
           /\ \A W \in {Start, Nightfall, Dawn} : Same(list, more, W)
           /\ \A l, j, d : /\ PortInv(list, j, d) /\ Circuit(list, l, j, d)
                           /\ l = i /\ p # NoPacket => p.dst = j
                           => Circuit(more, l, j, d)
           /\ \A l : l # i => /\ Same(list, more, UpDone(l))
                              /\ Same(list, more, AtSwitch(l))
           /\ \A l : Same(list, more, PortDone(l))
  <1> DEFINE more == FromUplink(list, i, p)
             u == DevEvent("UplinkComplete", i)
             a == Arrival("ArriveAtSwitch", i, p)
  <1>1. CASE p = NoPacket
    <2>1. FromUplink(list, i, p) = list
      BY <1>1 DEF FromUplink, Transmission
    <2>2. \A W : Same(list, list, W)
      BY DEF Same
    <2>3. UplinkInv(list, i, e)
      BY <1>1 DEF UplinkInv, UplinkFits, Idle
    <2> QED  BY <1>1, <2>1, <2>2, <2>3
  <1>2. CASE p # NoPacket
    <2>0. p \in From(i) /\ p \in Packet /\ p.src = i
      BY <1>2 DEF From
    <2>1. /\ \A j : /\ u \in UpDone(j) => i = j
                    /\ u \notin AtSwitch(j) /\ u \notin PortDone(j)
          /\ u \notin Start /\ u \notin Nightfall /\ u \notin Dawn
          /\ \A j, k : u \notin Astray(j, k)
      BY UplinkCompleteIn
    <2>2. /\ \A j : /\ a \in AtSwitch(j) => i = j
                    /\ a \notin UpDone(j) /\ a \notin PortDone(j)
          /\ a \notin Start /\ a \notin Nightfall /\ a \notin Dawn
          /\ \A j, k : a \in Astray(j, k) => i = j /\ p.dst # k
      BY <2>0, ArriveAtSwitchIn
    <2>3. /\ more \in List(What)
          /\ \A W : u \notin W /\ a \notin W => Same(list, more, W)
          /\ OneOf(more, UpDone(i))
          /\ Within(more, UpDone(i), TxTime)
          /\ Within(more, AtSwitch(i), TxTime + Delay)
          /\ Spaced(more, AtSwitch(i), TxTime)
          /\ Apart(more, AtSwitch(i), UpDone(i), 0 - Delay)
      BY <2>0, FromUplinkDoes DEF UplinkTimes
    <2>4. /\ \A d : NotBefore(list, AtSwitch(i), d) /\ d <= TxTime + Delay
                       => NotBefore(more, AtSwitch(i), d)
          /\ \A j : /\ Apart(list, PortDone(j), AtSwitch(i), 0)
                    /\ Within(list, PortDone(j), TxTime)
                    => Apart(more, PortDone(j), AtSwitch(i), 0)
      BY <2>0, FromUplinkDoes
    <2> HIDE DEF more, u, a
    <2>5. \A W \in {Start, Nightfall, Dawn} : Same(list, more, W)
      BY <2>1, <2>2, <2>3
    <2>6. UplinkInv(more, i, e)
      <3>1. NoneOf(more, Dawn)
        BY <1>2, <2>5, SameClass
      <3>2. UplinkTimes(more, i)
        BY <2>3, <3>1, NoneMeans DEF UplinkTimes
      <3>3. UplinkFits(more, i, e)
        BY <1>2, <2>3 DEF UplinkFits, Sending
      <3> QED  BY <3>2, <3>3 DEF UplinkInv
    <2>7. /\ \A l : l # i => /\ Same(list, more, UpDone(l))
                             /\ Same(list, more, AtSwitch(l))
          /\ \A l : Same(list, more, PortDone(l))
          /\ \A l, j : l # i \/ p.dst = j => Same(list, more, Astray(l, j))
      BY <2>1, <2>2, <2>3
    <2>8. ASSUME NEW l, NEW d, l # i, UplinkInv(list, l, d)
          PROVE  UplinkInv(more, l, d)
      BY <2>5, <2>7, <2>8, SameUplink
    <2>9. /\ \A j, d : PortInv(list, j, d) => PortInv(more, j, d)
          /\ \A j, d : DoneBy(list, j, d, Dawn) => DoneBy(more, j, d, Dawn)
      BY <2>5, <2>7, SamePort
    <2>10. ASSUME NEW l, NEW j, NEW d, PortInv(list, j, d),
                  Circuit(list, l, j, d), l = i /\ p # NoPacket => p.dst = j
           PROVE  Circuit(more, l, j, d)
      <3>1. CASE l # i
        BY <2>7, <2>10, <3>1, SameCircuit
      <3>2. CASE l = i
        <4>1. NoneOf(more, Astray(i, j))
          BY <1>2, <2>7, <2>10, <3>2, SameClass DEF Circuit
        <4>2. TxTime <= TxTime + Delay /\ 1 <= TxTime + Delay
          BY FabricAssumption
        <4>3. DoneBy(more, j, d, AtSwitch(i))
          BY <2>4, <2>10, <3>2, <4>2 DEF Circuit, DoneBy, PortInv
        <4>4. \A t : Within(list, PortDone(j), t) => Within(more, PortDone(j), t)
          BY <2>7, SameClass
        <4>5. Owned(more, j, d, i)
          BY <2>4, <2>10, <3>2, <4>2, <4>4 DEF Circuit, Owned
        <4> QED  BY <3>2, <4>1, <4>3, <4>5 DEF Circuit
      <3> QED  BY <3>1, <3>2
    <2> QED  BY <2>3, <2>5, <2>6, <2>7, <2>8, <2>9, <2>10 DEF more
  <1> QED  BY <1>1, <1>2
-------------------------------------------------------------------------------
(* The lists of events at dawn, port by port.                              *)
LEMMA DawnEventsDo ==
    ASSUME NEW list \in List(What), NEW result,
           \A i \in Tor : result[i].sent \in From(i) \cup {NoPacket}
    PROVE  \E f : /\ f[0] = list /\ f[N] = DawnEvents(list, result)
                  /\ \A n \in Tor :
                        f[n + 1] = FromUplink(f[n], n, result[n].sent)
  <1> DEFINE L == List(What)
             step == [n \in 1 .. N |-> [x \in L |->
                        FromUplink(x, n - 1, result[n - 1].sent)]]
  <1>0. N \in Nat
    BY FabricAssumption
  <1>1. ASSUME NEW x \in L, NEW n \in 1 .. N
        PROVE  /\ FromUplink(x, n - 1, result[n - 1].sent) \in L
               /\ step[n][x] = FromUplink(x, n - 1, result[n - 1].sent)
    <2>1. n - 1 \in Tor
      BY <1>0 DEF Tor
    <2>2. result[n - 1].sent \in From(n - 1) \cup {NoPacket}
      BY <2>1
    <2>3. CASE result[n - 1].sent = NoPacket
      BY <2>3 DEF FromUplink, Transmission
    <2>4. CASE result[n - 1].sent \in From(n - 1)
      BY <2>1, <2>4, FromUplinkDoes
    <2> QED  BY <2>2, <2>3, <2>4
  <1>2. step \in [1 .. N -> [L -> L]] /\ list \in L
    BY <1>1
  <1> HIDE DEF step, L
  <1>3. PICK f : Recursion(f, N, L, list, step)
    BY <1>0, <1>2, RecursionExists
  <1> DEFINE Body(g) == [n \in 0 .. N |->
                            IF n = 0 THEN list
                            ELSE FromUplink(g[n - 1], n - 1,
                                            result[n - 1].sent)]
  <1>4. f = Body(f)
    <2>1. ASSUME NEW n \in 0 .. N
          PROVE  f[n] = IF n = 0 THEN list
                        ELSE FromUplink(f[n - 1], n - 1, result[n - 1].sent)
      <3>1. CASE n = 0
        BY <1>0, <1>3, <3>1 DEF Recursion
      <3>2. CASE n # 0
        <4>1. n \in 1 .. N /\ n - 1 \in 0 .. N
          BY <1>0, <3>2
        <4>2. f[n - 1] \in L
          BY <1>3, <4>1 DEF Recursion
        <4> QED  BY <1>1, <1>3, <3>2, <4>1, <4>2 DEF Recursion
      <3> QED  BY <3>1, <3>2
    <2> QED  BY <1>0, <1>3, <2>1 DEF Recursion
  <1> DEFINE g == CHOOSE h : h = Body(h)
  <1>5. g = Body(g)
    <2> HIDE DEF Body
    <2> QED  BY <1>4
  <1>6. DawnEvents(list, result) = g[N]
    BY DEF DawnEvents
  <1> HIDE DEF g
  <1>7. g[0] = list
    BY <1>0, <1>5
  <1>8. ASSUME NEW n \in Tor
        PROVE  g[n + 1] = FromUplink(g[n], n, result[n].sent)
    <2>1. n + 1 \in 0 .. N /\ n + 1 # 0 /\ (n + 1) - 1 = n
      BY <1>0 DEF Tor
    <2>2. g[n + 1] = FromUplink(g[(n + 1) - 1], (n + 1) - 1,
                                result[(n + 1) - 1].sent)
      BY <1>5, <2>1
    <2> QED  BY <2>1, <2>2
  <1> QED  BY <1>6, <1>7, <1>8
-------------------------------------------------------------------------------
(* The one event of the controller, and what is proved of the controller.  *)
Scheduled ==
    IF CtlScheduled = {} THEN "none" ELSE CHOOSE k \in CtlScheduled : TRUE

Rotor == INSTANCE OcsSchedule_proofs WITH
    event <- Scheduled,
    working <- [i \in Tor |-> dev[i].working],
    working_queue_idx <- [i \in Tor |-> dev[i].queue]

(* Ranges of the rest, and what never happens to a packet.                 *)
Stock ==
    /\ port \in [Tor -> Port!State(Packet)]
    /\ sends \in 0 .. MaxPackets
    /\ fate \in [1 .. MaxPackets -> Fates \ {"dropped: no circuit"}]
    /\ Q \notin {2, 3} => \A i \in Tor : ~dev[i].crashed

(* The whole inductive invariant.                                          *)
FInv == IInv /\ Rotor!IInv /\ TInv /\ Stock

(* The events of the controller in a list.                               *)
Kinds(list) == {list[n].what.kind : n \in DOMAIN list} \cap CtlKinds

(* They are told by the classes that have an event.                        *)
LEMMA KindsAre ==
    ASSUME NEW list \in List(What)
    PROVE  /\ "Initialize" \in Kinds(list) <=> ~NoneOf(list, Start)
           /\ "SetNight" \in Kinds(list) <=> ~NoneOf(list, Nightfall)
           /\ "SetRoutings" \in Kinds(list) <=> ~NoneOf(list, Dawn)
           /\ Kinds(list) \subseteq {"Initialize", "SetNight", "SetRoutings"}
  <1>1. DOMAIN list = 1 .. Len(list)
    BY DEF List
  <1>2. \A n \in DOMAIN list : list[n].what \in What
    BY <1>1, ElementDoes
  <1>3. ASSUME NEW k \in CtlKinds
        PROVE  k \in Kinds(list) <=> ~NoneOf(list, {CtlEvent(k)})
    <2>1. k \in Kinds(list) <=> \E n \in DOMAIN list : list[n].what.kind = k
      BY DEF Kinds
    <2>2. \A n \in DOMAIN list :
              list[n].what.kind = k <=> list[n].what = CtlEvent(k)
      <3>1. CtlEvent(k).kind = k
        BY DEF CtlEvent
      <3> QED  BY <1>2, <3>1, KindMeans DEF CtlKinds
    <2>3. NoneOf(list, {CtlEvent(k)})
             <=> ~ \E n \in DOMAIN list : list[n].what = CtlEvent(k)
      BY DEF NoneOf, At
    <2> QED  BY <2>1, <2>2, <2>3
  <1>4. CtlKinds = {"Initialize", "SetNight", "SetRoutings"}
    BY DEF CtlKinds
  <1>5. Kinds(list) \subseteq CtlKinds
    BY DEF Kinds
  <1> QED  BY <1>3, <1>4, <1>5 DEF Start, Nightfall, Dawn

(* At most one is scheduled, and which one it is tells the phase.          *)
LEMMA ScheduledIs ==
    ASSUME TInv
    PROVE  /\ \E k : CtlScheduled \subseteq {k}
           /\ rounds = 0 => Scheduled = "Initialize"
           /\ rounds # 0 => Scheduled # "Initialize"
           /\ rounds # 0 /\ Night(events) => Scheduled = "SetRoutings"
  <1>0. events \in List(What) /\ CtlScheduled = Kinds(events)
    BY DEF TInv, CtlScheduled, Kinds
  <1>1. CASE rounds = 0
    <2>1. NoneOf(events, Nightfall) /\ NoneOf(events, Dawn)
      <3>1. Nightfall \subseteq What \ Start /\ Dawn \subseteq What \ Start
        BY CtlIn DEF CtlKinds, Nightfall, Dawn
      <3> QED  BY <1>1, <3>1, NoneMeans DEF TInv, Phase, Before
    <2>2. ~NoneOf(events, Start)
      BY <1>1 DEF TInv, Phase, Before, OneOf, NoneOf
    <2>3. CtlScheduled = {"Initialize"}
      BY <1>0, <2>1, <2>2, KindsAre
    <2> QED  BY <1>1, <2>3 DEF Scheduled
  <1>2. CASE rounds # 0
    <2>1. "Initialize" \notin CtlScheduled
      BY <1>0, <1>2, KindsAre DEF TInv, Phase, Day, Night, Over
    <2>2. ~("SetNight" \in CtlScheduled /\ "SetRoutings" \in CtlScheduled)
      BY <1>0, <1>2, KindsAre DEF TInv, Phase, Day, Night, Over
    <2>3. Night(events) => /\ "SetNight" \notin CtlScheduled
                           /\ "SetRoutings" \in CtlScheduled
      BY <1>0, <1>2, KindsAre DEF Night, OneOf, NoneOf
    <2>4. CtlScheduled \in {{}, {"SetNight"}, {"SetRoutings"}}
      BY <1>0, <2>1, <2>2, KindsAre
    <2> QED  BY <1>2, <2>3, <2>4 DEF Scheduled
  <1> QED  BY <1>1, <1>2

(* Nothing of the controller changes.                                      *)
Undisturbed ==
    /\ UNCHANGED <<ctlVars, CtlScheduled>>
    /\ \A i \in Tor : dev'[i].working = dev[i].working
                      /\ dev'[i].queue = dev[i].queue

(* It is enough that the same classes have an event.                       *)
LEMMA UndisturbedIf ==
    ASSUME events \in List(What), events' \in List(What), UNCHANGED ctlVars,
           \A W \in {Start, Nightfall, Dawn} :
              NoneOf(events, W) <=> NoneOf(events', W),
           \A i \in Tor : /\ dev'[i].working = dev[i].working
                          /\ dev'[i].queue = dev[i].queue
    PROVE  Undisturbed
  <1>1. CtlScheduled = Kinds(events) /\ CtlScheduled' = Kinds(events')
    BY DEF CtlScheduled, Kinds
  <1>2. /\ "Initialize" \in Kinds(events) <=> "Initialize" \in Kinds(events')
        /\ "SetNight" \in Kinds(events) <=> "SetNight" \in Kinds(events')
        /\ "SetRoutings" \in Kinds(events) <=> "SetRoutings" \in Kinds(events')
    BY KindsAre
  <1>3. Kinds(events) = Kinds(events')
    BY <1>2, KindsAre
  <1> QED  BY <1>1, <1>3 DEF Undisturbed

(* The constants are as the controller wants them.                         *)
LEMMA RotorAssumption == Rotor!ScheduleAssumption
  BY FabricAssumption, DeviceAssumption DEF Rotor!ScheduleAssumption

(* The handlers of the controller are those of OcsSchedule.                *)
LEMMA RotorStep ==
    ASSUME Rotor!IInv,
           Ctl!Initialize \/ Ctl!SetRoutings \/ Ctl!SetNight
    PROVE  Rotor!IInv'
  <1>1. CASE Ctl!Initialize
    <2>1. Rotor!Initialize
      BY <1>1 DEF Ctl!Initialize, Rotor!Initialize, Scheduled,
         Ctl!FirstWindow, Rotor!FirstWindow, Ctl!Matching, Rotor!Matching,
         Ctl!NextSetIndex, Rotor!NextSetIndex, Ctl!SetNumbers,
         Rotor!SetNumbers, Ctl!StartDay, Rotor!StartDay, Ctl!Now, Rotor!Now,
         Ctl!Tor, Rotor!Tor, Ctl!Slot, Rotor!Slot
    <2> QED  BY <2>1, RotorAssumption, Rotor!InvStep DEF Rotor!Next
  <1>2. CASE Ctl!SetRoutings
    <2>1. Rotor!SetRoutings
      BY <1>2 DEF Ctl!SetRoutings, Rotor!SetRoutings, Scheduled,
         Ctl!StartDay, Rotor!StartDay, Ctl!Now, Rotor!Now, Ctl!Tor, Rotor!Tor
    <2> QED  BY <2>1, RotorAssumption, Rotor!InvStep DEF Rotor!Next
  <1>3. CASE Ctl!SetNight
    <2>1. Rotor!SetNight
      BY <1>3 DEF Ctl!SetNight, Rotor!SetNight, Scheduled,
         Ctl!Matching, Rotor!Matching, Ctl!WindowAfter, Rotor!WindowAfter,
         Ctl!LastAddr, Rotor!LastAddr, Ctl!NextQueue, Rotor!NextQueue,
         Ctl!NextSetIndex, Rotor!NextSetIndex, Ctl!SetNumbers,
         Rotor!SetNumbers, Ctl!Tor, Rotor!Tor, Ctl!Slot, Rotor!Slot
    <2> QED  BY <2>1, RotorAssumption, Rotor!InvStep DEF Rotor!Next
  <1> QED  BY <1>1, <1>2, <1>3

(* All other steps leave the controller as it is.                          *)
LEMMA RotorStays ==
    ASSUME Rotor!IInv, Undisturbed
    PROVE  Rotor!IInv'
  <1>1. UNCHANGED Scheduled
    BY DEF Undisturbed, Scheduled
  <1>2. /\ UNCHANGED [i \in Tor |-> dev[i].working]
        /\ UNCHANGED [i \in Tor |-> dev[i].queue]
    BY DEF Undisturbed
  <1>3. UNCHANGED Rotor!vars
    BY <1>1, <1>2 DEF Undisturbed, ctlVars, Rotor!vars
  <1> QED  BY <1>3, RotorAssumption, Rotor!InvStep

(* It starts as OcsSchedule says.                                          *)
LEMMA RotorInit ==
    ASSUME Init PROVE Rotor!IInv
  <1>1. Scheduled = "Initialize"
    <2>1. CtlScheduled = {"Initialize"}
      <3> DEFINE e == [left |-> 0, what |-> CtlEvent("Initialize")]
      <3>1. events = <<e>>
        BY DEF Init, Schedule
      <3>2. DOMAIN events = {1} /\ events[1].what.kind = "Initialize"
        BY <3>1 DEF CtlEvent
      <3> QED  BY <3>2 DEF CtlScheduled, CtlKinds
    <2> QED  BY <2>1 DEF Scheduled
  <1>2. \A i \in Tor : ~dev[i].working /\ dev[i].queue = 0
    BY DEF Init, NewDevice
  <1>3. Rotor!Init
    BY <1>1, <1>2 DEF Init, Ctl!Init, Rotor!Init, Ctl!Tor, Rotor!Tor,
       Ctl!NoMatch, Rotor!NoMatch, Ctl!NoWindow, Rotor!NoWindow, Tor
  <1> QED  BY <1>3, RotorAssumption, Rotor!InvInit

(* What the fabric needs of the controller: circuits are disjoint, and an  *)
(* uplink serves the queue of the ToR it is connected to.                  *)
LEMMA RotorGives ==
    ASSUME Rotor!IInv, TInv, rounds # 0
    PROVE  /\ devicesMap \in [Tor -> Tor]
           /\ \A i, l \in Tor : devicesMap[i] = devicesMap[l] => i = l
           /\ \A i \in Tor : ocs_dest_addr[i][dev[i].queue] = devicesMap[i]
  <1>1. Scheduled # "Initialize"
    BY ScheduledIs
  <1>2. devicesMap \in [Tor -> Tor]
    BY <1>1 DEF Rotor!IInv, Rotor!TypeOK, Rotor!Ready, Rotor!Tor, Tor
  <1>3. \A i, l \in Tor : devicesMap[i] = devicesMap[l] => i = l
    BY <1>1, RotorAssumption, Rotor!InvCircuits
       DEF Rotor!CircuitsDisjoint, Rotor!Ready, Rotor!Tor, Tor
  <1>4. \A i \in Tor : ocs_dest_addr[i][dev[i].queue] = devicesMap[i]
    BY <1>1, RotorAssumption, Rotor!InvAligned
       DEF Rotor!Aligned, Rotor!Ready, Rotor!Tor, Tor
  <1> QED  BY <1>2, <1>3, <1>4
-------------------------------------------------------------------------------
(* One tick of the clock.                                                  *)
LEMMA TickKeeps ==
    ASSUME FInv, Tick
    PROVE  TInv' /\ Stock' /\ Undisturbed
  <1> DEFINE later == Elapse(events)
  <1>0. /\ events' = later /\ ~HasDue(events) /\ events \in List(What)
        /\ UNCHANGED <<ctlVars, dev, port, sends, fate>>
    BY DEF Tick, FInv, TInv
  <1>1. rounds # 0
    BY <1>0, OnlyInitialize DEF FInv, IInv
  <1>2. later \in List(What)
    BY <1>0, ElapseDoes
  <1>3. /\ \A W : NoneOf(events, W) <=> NoneOf(later, W)
        /\ \A W : OneOf(events, W) => OneOf(later, W)
    BY <1>0, ElapseClass DEF NoneOf
  <1> HIDE DEF later
  <1>4. ASSUME NEW i \in Tor PROVE UplinkInv(later, i, dev[i])
    BY <1>0, LaterUplink DEF FInv, TInv, Uplinks, later
  <1>5. ASSUME NEW j \in Tor
        PROVE  /\ PortInv(later, j, port[j]) /\ OneSource(port[j])
               /\ DoneBy(later, j, port[j], Dawn)
               /\ \A i : Circuit(events, i, j, port[j])
                            => Circuit(later, i, j, port[j])
    BY <1>0, LaterPort DEF FInv, TInv, Ports, later
  <1>6. Day(later) \/ Night(later) \/ Over(later)
    <2>1. CASE Day(events)
      <3>1. devicesMap \in [Tor -> Tor]
        BY <1>1, RotorGives DEF FInv
      <3> QED  BY <1>3, <1>5, <2>1, <3>1 DEF Day
    <2>2. CASE Night(events)
      BY <1>3, <2>2 DEF Night
    <2>3. CASE Over(events)
      BY <1>3, <2>3 DEF Over
    <2> QED  BY <1>1, <2>1, <2>2, <2>3 DEF FInv, TInv, Phase
  <1>7. TInv'
    <2>1. Uplinks(events)' /\ Ports(events)'
      BY <1>0, <1>4, <1>5 DEF Uplinks, Ports
    <2>2. Phase(events)'
      BY <1>0, <1>1, <1>6 DEF Phase, Day, Night, Over, ctlVars
    <2> QED  BY <1>0, <1>2, <2>1, <2>2 DEF TInv
  <1>8. Stock'
    BY <1>0 DEF FInv, Stock
  <1>9. Undisturbed
    BY <1>0, <1>2, <1>3, UndisturbedIf
  <1> QED  BY <1>7, <1>8, <1>9

(* An event that is not one of the controller is taken from the list.      *)
LEMMA RestPhase ==
    ASSUME FInv, rounds # 0, HasDue(events),
           NextEvent(events) \notin Start \cup Nightfall \cup Dawn
    PROVE  LET rest == RemoveNext(events) IN
           /\ rest \in List(What)
           /\ Day(events) => Day(rest)
           /\ Day(rest) \/ Night(rest) \/ Over(rest)
           /\ \A W \in {Start, Nightfall, Dawn} :
                 NoneOf(events, W) <=> NoneOf(rest, W)
  <1> DEFINE rest == RemoveNext(events)
  <1>0. events \in List(What) /\ rest \in List(What)
    BY RemoveNextDoes DEF FInv, TInv
  <1>1. /\ \A W : NoneOf(events, W) => NoneOf(rest, W)
        /\ \A W : OneOf(events, W) /\ NextEvent(events) \notin W
                     => OneOf(rest, W)
    BY <1>0, RemoveClass
  <1> HIDE DEF rest
  <1>2. ASSUME Day(events) PROVE Day(rest)
    <2>1. devicesMap \in [Tor -> Tor]
      BY RotorGives DEF FInv
    <2>2. ASSUME NEW i \in Tor
          PROVE  Circuit(rest, i, devicesMap[i], port[devicesMap[i]])
      <3>1. PortInv(events, devicesMap[i], port[devicesMap[i]])
        BY <2>1 DEF FInv, TInv, Ports
      <3> QED  BY <1>0, <1>2, <3>1, RestPort DEF Day, rest
    <2> QED  BY <1>1, <1>2, <2>2 DEF Day
  <1>3. Night(events) => Night(rest)
    BY <1>1 DEF Night
  <1>4. Over(events) => Over(rest)
    BY <1>1 DEF Over
  <1>5. Day(events) \/ Night(events) \/ Over(events)
    BY DEF FInv, TInv, Phase
  <1>6. \A W \in {Start, Nightfall, Dawn} :
            /\ NoneOf(events, W) \/ OneOf(events, W)
            /\ NextEvent(events) \notin W
    BY <1>5 DEF Day, Night, Over
  <1>7. \A W \in {Start, Nightfall, Dawn} :
            NoneOf(events, W) <=> NoneOf(rest, W)
    BY <1>1, <1>6 DEF OneOf, NoneOf
  <1> QED  BY <1>0, <1>2, <1>3, <1>4, <1>5, <1>7 DEF rest

(* An event that only touches the list and the fates.                      *)
LEMMA RestKeeps ==
    ASSUME FInv, rounds # 0, HasDue(events),
           NextEvent(events) \notin Start \cup Nightfall \cup Dawn,
           \A i : /\ NextEvent(events) \notin UpDone(i)
                  /\ NextEvent(events) \notin PortDone(i),
           events' = RemoveNext(events), UNCHANGED <<ctlVars, dev, port>>
    PROVE  TInv' /\ Undisturbed
  <1> DEFINE rest == RemoveNext(events)
  <1>0. events \in List(What)
    BY DEF FInv, TInv
  <1>1. /\ rest \in List(What)
        /\ Day(rest) \/ Night(rest) \/ Over(rest)
        /\ \A W \in {Start, Nightfall, Dawn} :
              NoneOf(events, W) <=> NoneOf(rest, W)
    BY RestPhase
  <1>2. \A i \in Tor : UplinkInv(rest, i, dev[i])
    BY <1>0, RestUplink DEF FInv, TInv, Uplinks
  <1>3. ASSUME NEW j \in Tor
        PROVE  /\ PortInv(rest, j, port[j]) /\ OneSource(port[j])
               /\ DoneBy(rest, j, port[j], Dawn)
    <2>1. /\ PortInv(events, j, port[j]) /\ OneSource(port[j])
          /\ DoneBy(events, j, port[j], Dawn)
      BY DEF FInv, TInv, Ports
    <2> QED  BY <1>0, <2>1, RestPort
  <1> HIDE DEF rest
  <1>4. events' = rest
    BY DEF rest
  <1>5. TInv'
    <2>1. Uplinks(events)' /\ Ports(events)'
      BY <1>2, <1>3, <1>4 DEF Uplinks, Ports
    <2>2. Phase(events)'
      BY <1>1, <1>4 DEF Phase, Day, Night, Over, ctlVars
    <2> QED  BY <1>1, <1>4, <2>1, <2>2 DEF TInv
  <1> QED  BY <1>0, <1>1, <1>4, <1>5, UndisturbedIf

(* What an event is, by its kind.                                          *)
LEMMA NextIn ==
    ASSUME FInv, HasDue(events)
    PROVE  LET e == NextEvent(events) IN
           /\ e \in What
           /\ e.kind \notin CtlKinds =>
                 e \notin Start \cup Nightfall \cup Dawn /\ rounds # 0
  <1>1. NextEvent(events) \in What
    BY NextDoes DEF FInv, TInv
  <1>2. rounds = 0 => NextEvent(events).kind = "Initialize"
    BY OnlyInitialize DEF FInv, IInv
  <1> QED  BY <1>1, <1>2, ClassMeans DEF CtlKinds

(* A packet reaches its ToR.                                               *)
LEMMA ArriveAtTorKeeps ==
    ASSUME FInv, ArriveAtTor
    PROVE  TInv' /\ Stock' /\ Undisturbed
  <1> DEFINE e == NextEvent(events)
  <1>1. /\ HasDue(events) /\ e.kind = "ArriveAtTor"
        /\ events' = RemoveNext(events)
        /\ fate' = [fate EXCEPT ![e.packet.id] = "delivered"]
        /\ UNCHANGED <<ctlVars, dev, port, sends>>
    BY DEF ArriveAtTor, NextIs
  <1>2. /\ e \in What /\ rounds # 0
        /\ e \notin Start \cup Nightfall \cup Dawn
    BY <1>1, NextIn DEF CtlKinds
  <1> HIDE DEF e
  <1>3. \A i : e \notin UpDone(i) /\ e \notin PortDone(i)
    BY <1>1, ClassMeans
  <1>4. TInv' /\ Undisturbed
    BY <1>1, <1>2, <1>3, RestKeeps DEF e
  <1>5. fate' \in [1 .. MaxPackets -> Fates \ {"dropped: no circuit"}]
    BY <1>1 DEF FInv, Stock, Fates
  <1>6. Stock'
    BY <1>1, <1>5 DEF FInv, Stock
  <1> QED  BY <1>4, <1>6

(* Uplink i, with no transmission under way, goes on with packet p, or     *)
(* stays idle; it works and serves the ToR that the switch connects it to. *)
LEMMA UplinkMoves ==
    ASSUME FInv, rounds # 0, NEW list \in List(What), NEW i \in Tor,
           NEW e \in DeviceState(From(i)), NEW p \in From(i) \cup {NoPacket},
           UplinkTimes(list, i), NoneOf(list, UpDone(i)),
           Within(list, AtSwitch(i), Delay),
           IF p = NoPacket THEN Idle(e) ELSE Sending(e, p),
           p # NoPacket => dev[i].working /\ p.dst = devicesMap[i],
           e.working = dev[i].working,
           Ports(list), Day(list) \/ Night(list) \/ Over(list),
           \A l \in Tor : l # i => UplinkInv(list, l, dev[l]),
           dev' = [dev EXCEPT ![i] = e], events' = FromUplink(list, i, p),
           UNCHANGED <<ctlVars, port>>
    PROVE  /\ TInv'
           /\ \A W \in {Start, Nightfall, Dawn} :
                 NoneOf(list, W) <=> NoneOf(events', W)
  <1> DEFINE more == FromUplink(list, i, p)
  <1>0. dev \in [Tor -> DeviceState(Packet)] /\ devicesMap \in [Tor -> Tor]
    BY RotorGives DEF FInv, IInv
  <1>1. p # NoPacket => Day(list)
    BY DEF Night, Over
  <1>2. p # NoPacket => NoneOf(list, Dawn)
    BY <1>1 DEF Day
  <1>3. /\ more \in List(What)
        /\ UplinkInv(more, i, e)
        /\ \A l, d : l # i /\ UplinkInv(list, l, d) => UplinkInv(more, l, d)
        /\ \A j, d : PortInv(list, j, d) => PortInv(more, j, d)
        /\ \A j, d : DoneBy(list, j, d, Dawn) => DoneBy(more, j, d, Dawn)
        /\ \A W \in {Start, Nightfall, Dawn} : Same(list, more, W)
        /\ \A l, j, d : /\ PortInv(list, j, d) /\ Circuit(list, l, j, d)
                        /\ l = i /\ p # NoPacket => p.dst = j
                        => Circuit(more, l, j, d)
    BY <1>2, UplinkSends
  <1>4. p = NoPacket => more = list
    BY DEF FromUplink, Transmission
  <1> HIDE DEF more
  <1>5. \A W \in {Start, Nightfall, Dawn} :
            /\ NoneOf(list, W) <=> NoneOf(more, W)
            /\ OneOf(list, W) => OneOf(more, W)
    <2>1. \A W : Same(list, more, W) /\ NoneOf(more, W) => NoneOf(list, W)
      BY DEF Same, NoneOf
    <2> QED  BY <1>3, <2>1, SameClass
  <1>6. Uplinks(events)'
    <2>1. ASSUME NEW l \in Tor PROVE UplinkInv(events', l, dev'[l])
      BY <1>0, <1>3 DEF more
    <2> QED  BY <2>1 DEF Uplinks
  <1>7. Ports(events)'
    BY <1>3 DEF Ports, more
  <1>8. \A l \in Tor : dev'[l].working = dev[l].working
    BY <1>0
  <1>9. Day(more) \/ Night(more) \/ Over(more)
    <2>1. CASE Day(list)
      <3>1. ASSUME NEW l \in Tor
            PROVE  Circuit(more, l, devicesMap[l], port[devicesMap[l]])
        BY <1>0, <1>3, <2>1 DEF Day, Ports
      <3> QED  BY <1>5, <2>1, <3>1 DEF Day
    <2>2. CASE Night(list)
      BY <1>5, <2>2 DEF Night
    <2>3. CASE Over(list)
      <3>1. p = NoPacket
        BY <2>3 DEF Over
      <3> QED  BY <1>4, <2>3, <3>1
    <2> QED  BY <2>1, <2>2, <2>3
  <1>10. Phase(events)'
    BY <1>8, <1>9 DEF Phase, Day, Night, Over, ctlVars, more
  <1> QED  BY <1>3, <1>5, <1>6, <1>7, <1>10 DEF TInv, more

(* A completion at an uplink: by day it goes on with the oldest packet of  *)
(* the queue it serves, which is for the ToR it is connected to.           *)
LEMMA UplinkCompleteTimes ==
    ASSUME FInv, UplinkComplete
    PROVE  TInv' /\ Stock' /\ Undisturbed
  <1> DEFINE n == NextEvent(events)
             i == n.at
             r == TransmitComplete(dev[i])
             rest == RemoveNext(events)
  <1>1. /\ HasDue(events) /\ n.kind = "UplinkComplete"
        /\ dev' = [dev EXCEPT ![i] = r.device]
        /\ events' = FromUplink(rest, i, r.sent)
        /\ UNCHANGED <<ctlVars, port, sends, fate>>
    BY DEF UplinkComplete, NextIs
  <1>2. /\ n \in What /\ rounds # 0
        /\ n \notin Start \cup Nightfall \cup Dawn
    BY <1>1, NextIn DEF CtlKinds
  <1>3. i \in Tor /\ n = DevEvent("UplinkComplete", i)
    BY <1>1, <1>2, KindMeans
  <1> HIDE DEF n, i, r, rest
  <1>4. /\ n \in UpDone(i)
        /\ \A j : n \notin PortDone(j) /\ (n \in UpDone(j) => i = j)
    BY <1>3, UplinkCompleteIn
  <1>5. /\ rest \in List(What)
        /\ Day(rest) \/ Night(rest) \/ Over(rest)
        /\ \A W \in {Start, Nightfall, Dawn} :
              NoneOf(events, W) <=> NoneOf(rest, W)
    BY <1>1, <1>2, RestPhase DEF n, rest
  <1>6. events \in List(What) /\ UplinkInv(events, i, dev[i])
    BY <1>3 DEF FInv, TInv, Uplinks
  <1>7. /\ UplinkTimes(rest, i) /\ NoneOf(rest, UpDone(i))
        /\ Within(rest, AtSwitch(i), Delay)
        /\ dev[i].machine = "BUSY" /\ dev[i].current # NoPacket
    BY <1>1, <1>4, <1>6, RestUplink DEF n, rest
  <1>8. \A l \in Tor : l # i => UplinkInv(rest, l, dev[l])
    BY <1>1, <1>4, <1>6, RestUplink DEF n, rest, FInv, TInv, Uplinks
  <1>9. Ports(rest)
    <2>1. ASSUME NEW j \in Tor
          PROVE  /\ PortInv(rest, j, port[j]) /\ OneSource(port[j])
                 /\ DoneBy(rest, j, port[j], Dawn)
      BY <1>1, <1>4, <1>6, RestPort DEF n, rest, FInv, TInv, Ports
    <2> QED  BY <2>1 DEF Ports
  <1>10. dev[i] \in DeviceState(From(i)) /\ NoPacket \notin From(i)
    BY <1>6, FabricAssumption DEF UplinkInv, From
  <1>11. /\ r.sent \in From(i) \cup {NoPacket}
         /\ Started(r) /\ SameMode(dev[i], r.device) /\ SentHead(dev[i], r)
         /\ r.sent # NoPacket => dev[i].working
         /\ r.device \in DeviceState(From(i))
    BY <1>7, <1>10, CompleteSends, CompleteShrinks DEF r
  <1>12. r.sent # NoPacket => r.sent.dst = devicesMap[i]
    <2> SUFFICES ASSUME r.sent # NoPacket
                 PROVE  r.sent.dst = devicesMap[i]
      OBVIOUS
    <2> DEFINE q == dev[i].queues[dev[i].queue]
    <2>1. dev[i].queue \in Slot /\ q \in Seq(From(i))
      BY <1>10 DEF DeviceState
    <2>2. q # <<>> /\ r.sent = q[1] /\ 1 \in DOMAIN q
      <3>1. q # <<>> /\ r.sent = Head(q)
        BY <1>11 DEF SentHead
      <3> HIDE DEF q
      <3> QED  BY <2>1, <3>1
    <2>3. q[1].dst = ocs_dest_addr[i][dev[i].queue]
      BY <1>3, <2>1, <2>2 DEF FInv, IInv, Pure
    <2> QED  BY <1>2, <1>3, <2>2, <2>3, RotorGives DEF FInv
  <1>13. /\ TInv'
         /\ \A W \in {Start, Nightfall, Dawn} :
               NoneOf(rest, W) <=> NoneOf(events', W)
    <2>1. IF r.sent = NoPacket THEN Idle(r.device)
                               ELSE Sending(r.device, r.sent)
      BY <1>11 DEF Started
    <2>2. r.device.working = dev[i].working
      BY <1>11 DEF SameMode
    <2> QED  BY <1>1, <1>2, <1>3, <1>5, <1>7, <1>8, <1>9, <1>11, <1>12,
                <2>1, <2>2, UplinkMoves
  <1>14. \A l \in Tor : SameMode(dev[l], dev'[l])
    BY <1>1, <1>3, <1>11 DEF FInv, IInv, SameMode
  <1>15. Undisturbed
    <2>1. events' \in List(What)
      BY <1>13 DEF TInv
    <2>2. \A W \in {Start, Nightfall, Dawn} :
              NoneOf(events, W) <=> NoneOf(events', W)
      BY <1>5, <1>13
    <2> QED  BY <1>1, <1>6, <1>14, <2>1, <2>2, UndisturbedIf DEF SameMode
  <1>16. Stock'
    BY <1>1, <1>14 DEF FInv, Stock, SameMode
  <1> QED  BY <1>13, <1>15, <1>16

(* A packet is sent by the hosts: an uplink that is idle by day transmits  *)
(* what the queue it serves has, or the packet itself.                     *)
LEMMA SendOpticalTimes ==
    ASSUME FInv, NEW i \in Senders, NEW j \in Tor, SendOptical(i, j)
    PROVE  TInv' /\ Stock' /\ Undisturbed
  <1> DEFINE p == [src |-> i, dst |-> j, id |-> sends + 1]
             d == dev[i]
             w == ocs_dest_addr[i]
             r(k) == Send(d, p, k)
  <1>1. PICK k \in GetQueueIdx(i, j) :
            /\ dev' = [dev EXCEPT ![i] = r(k).device]
            /\ events' = FromUplink(events, i, r(k).sent)
            /\ fate' = [fate EXCEPT ![p.id] =
                          IF p \in Queued(r(k).device) \/ r(k).sent = p
                          THEN "pending" ELSE "refused"]
    BY DEF SendOptical
  <1>2. /\ rounds # 0 /\ sends < MaxPackets /\ sends' = sends + 1
        /\ UNCHANGED <<ctlVars, port>>
    BY DEF SendOptical, FInv, IInv
  <1>3. /\ i \in Tor /\ p \in From(i) /\ p.dst = j /\ k \in Slot /\ w[k] = j
        /\ p.id \in 1 .. MaxPackets /\ sends' \in 0 .. MaxPackets
    <2>1. sends \in 0 .. MaxPackets /\ MaxPackets \in Nat
      BY FabricAssumption DEF FInv, Stock
    <2>2. sends + 1 \in 1 .. MaxPackets /\ sends' \in 0 .. MaxPackets
      BY ONLY <1>2, <2>1
    <2>3. i \in Tor /\ k \in Slot /\ w[k] = j
      BY FabricAssumption DEF GetQueueIdx
    <2>4. p.id = sends + 1 /\ p.src = i /\ p.dst = j /\ p \in Packet
      BY <2>2, <2>3 DEF Packet
    <2> QED  BY <2>2, <2>3, <2>4 DEF From
  <1>4. /\ events \in List(What) /\ UplinkInv(events, i, d)
        /\ Uplinks(events) /\ Ports(events)
        /\ Day(events) \/ Night(events) \/ Over(events)
    BY <1>2, <1>3 DEF FInv, TInv, Uplinks, Phase
  <1>5. d \in DeviceState(From(i)) /\ NoPacket \notin From(i)
    BY <1>4, FabricAssumption DEF UplinkInv, From
  <1>6. Pure(d, w) /\ dev \in [Tor -> DeviceState(Packet)]
    BY <1>2, <1>3 DEF FInv, IInv
  <1>7. w[d.queue] = devicesMap[i]
    BY <1>2, <1>3, RotorGives DEF FInv
  <1> HIDE DEF p, d, w
  <1>8. Idle(d) \/ d.machine = "BUSY"
    <2>1. d.machine \in {"READY", "BUSY"}
      BY <1>5 DEF DeviceState
    <2> QED  BY <1>4, <2>1 DEF UplinkInv, UplinkFits, Idle
  <1>9. r(k).device \in DeviceState(From(i))
    BY <1>3, <1>5, <1>6, SendPure
  <1>10. /\ SameMode(d, r(k).device) /\ r(k).sent \in From(i) \cup {NoPacket}
         /\ Idle(d) => Started(r(k))
         /\ ~Idle(d) => /\ r(k).sent = NoPacket
                        /\ r(k).device.machine = d.machine
                        /\ r(k).device.current = d.current
         /\ r(k).sent # NoPacket =>
               /\ d.working
               /\ SentHead(d, r(k)) \/ (k = d.queue /\ r(k).sent = p)
    BY <1>3, <1>5, <1>8, SendSends
  <1> DEFINE s == r(k).sent
             e == r(k).device
  <1> HIDE DEF r, s, e
  <1>11. s # NoPacket => d.working /\ s.dst = devicesMap[i]
    <2> SUFFICES ASSUME s # NoPacket
                 PROVE  d.working /\ s.dst = devicesMap[i]
      OBVIOUS
    <2> DEFINE q == d.queues[d.queue]
    <2>1. CASE SentHead(d, r(k))
      <3>1. d.queue \in Slot /\ q \in Seq(From(i))
        BY <1>5 DEF DeviceState
      <3>2. q # <<>> /\ s = q[1] /\ 1 \in DOMAIN q
        <4>1. q # <<>> /\ s = Head(q)
          BY <2>1 DEF SentHead, s
        <4> HIDE DEF q
        <4> QED  BY <3>1, <4>1
      <3>3. q[1].dst = w[d.queue]
        BY <1>6, <3>1, <3>2 DEF Pure
      <3> QED  BY <1>7, <1>10, <3>2, <3>3 DEF s
    <2>2. CASE k = d.queue /\ s = p
      BY <1>3, <1>7, <1>10, <2>2 DEF s
    <2> QED  BY <1>10, <2>1, <2>2 DEF s
  <1>12. /\ TInv'
         /\ \A W \in {Start, Nightfall, Dawn} :
               NoneOf(events, W) <=> NoneOf(events', W)
    <2>1. CASE Idle(d)
      <3>1. NoneOf(events, UpDone(i)) /\ Within(events, AtSwitch(i), Delay)
            /\ UplinkTimes(events, i)
        BY <1>4, <2>1 DEF UplinkInv, UplinkFits, Idle
      <3>2. IF s = NoPacket THEN Idle(e) ELSE Sending(e, s)
        BY <1>10, <2>1 DEF Started, s, e
      <3>3. e.working = dev[i].working /\ (s # NoPacket => dev[i].working)
        BY <1>10, <1>11 DEF SameMode, d, e
      <3>4. \A l \in Tor : l # i => UplinkInv(events, l, dev[l])
        BY <1>4 DEF Uplinks
      <3>5. /\ e \in DeviceState(From(i)) /\ s \in From(i) \cup {NoPacket}
            /\ dev' = [dev EXCEPT ![i] = e]
            /\ events' = FromUplink(events, i, s)
        BY <1>1, <1>9, <1>10 DEF e, s
      <3> QED  BY <1>2, <1>3, <1>4, <1>11, <3>1, <3>2, <3>3, <3>4, <3>5,
                  UplinkMoves
    <2>2. CASE ~Idle(d)
      <3>1. /\ events' = events /\ UNCHANGED <<ctlVars, port>>
            /\ dev' = [dev EXCEPT ![i] = e]
        BY <1>1, <1>2, <1>10, <2>2 DEF FromUplink, Transmission, e
      <3>2. UplinkInv(events, i, e)
        BY <1>4, <1>9, <1>10, <2>2 DEF UplinkInv, UplinkFits, e
      <3>3. \A l \in Tor : /\ UplinkInv(events, l, dev'[l])
                           /\ dev'[l].working = dev[l].working
        BY <1>4, <1>6, <1>10, <3>1, <3>2 DEF Uplinks, SameMode, d, e
      <3>4. Uplinks(events)' /\ Ports(events)'
        BY <1>4, <3>1, <3>3 DEF Uplinks, Ports
      <3>5. Phase(events)'
        BY <1>2, <1>4, <3>1, <3>3 DEF Phase, Day, Night, Over, ctlVars
      <3> QED  BY <1>4, <3>1, <3>4, <3>5 DEF TInv
    <2> QED  BY <2>1, <2>2
  <1>13. \A l \in Tor : SameMode(dev[l], dev'[l])
    BY <1>1, <1>3, <1>6, <1>10 DEF SameMode, d
  <1>14. Undisturbed
    <2>1. events' \in List(What)
      BY <1>12 DEF TInv
    <2> QED  BY <1>2, <1>4, <1>12, <1>13, <2>1, UndisturbedIf DEF SameMode
  <1>15. Stock'
    <2>1. fate' \in [1 .. MaxPackets -> Fates \ {"dropped: no circuit"}]
      BY <1>1, <1>3 DEF FInv, Stock, Fates
    <2> QED  BY <1>2, <1>3, <1>13, <2>1 DEF FInv, Stock, SameMode
  <1> QED  BY <1>12, <1>14, <1>15
-------------------------------------------------------------------------------
(* Port j goes on with packet p, or with none; the state e it is in then   *)
(* fits the events, and so do all the others.                              *)
LEMMA PortMoves ==
    ASSUME FInv, rounds # 0, NEW list \in List(What), NEW j \in Tor,
           NEW e, NEW p \in To(j) \cup {NoPacket},
           PortInv(FromPort(list, j, p), j, e), OneSource(e),
           DoneBy(FromPort(list, j, p), j, e, Dawn),
           Day(list) => \A i \in Tor : devicesMap[i] = j =>
                            Circuit(FromPort(list, j, p), i, j, e),
           Uplinks(list), Day(list) \/ Night(list) \/ Over(list),
           \A l \in Tor : l # j =>
              /\ PortInv(list, l, port[l]) /\ OneSource(port[l])
              /\ DoneBy(list, l, port[l], Dawn),
           port' = [port EXCEPT ![j] = e], events' = FromPort(list, j, p),
           UNCHANGED <<ctlVars, dev>>
    PROVE  /\ TInv'
           /\ \A W \in {Start, Nightfall, Dawn} :
                 NoneOf(list, W) <=> NoneOf(events', W)
  <1> DEFINE more == FromPort(list, j, p)
             u == DevEvent("PortComplete", j)
             a == Arrival("ArriveAtTor", j, p)
  <1>0. /\ port \in [Tor -> Port!State(Packet)]
        /\ devicesMap \in [Tor -> Tor]
    BY RotorGives DEF FInv, Stock
  <1>1. /\ more \in List(What)
        /\ \A W \in {Start, Nightfall, Dawn} : Same(list, more, W)
        /\ \A l : Same(list, more, UpDone(l)) /\ Same(list, more, AtSwitch(l))
        /\ \A l : l # j => Same(list, more, PortDone(l))
        /\ \A l, k : Same(list, more, Astray(l, k))
    <2>1. CASE p = NoPacket
      <3>1. more = list
        BY <2>1 DEF FromPort, Transmission
      <3> QED  BY <3>1 DEF Same
    <2>2. CASE p # NoPacket
      <3>1. p \in To(j)
        BY <2>2
      <3>2. /\ \A l : /\ u \in PortDone(l) => j = l
                      /\ u \notin AtSwitch(l) /\ u \notin UpDone(l)
            /\ u \notin Start /\ u \notin Nightfall /\ u \notin Dawn
            /\ \A l, k : u \notin Astray(l, k)
        BY PortCompleteIn
      <3>3. /\ \A l : /\ a \notin UpDone(l) /\ a \notin PortDone(l)
                      /\ a \notin AtSwitch(l)
            /\ a \notin Start /\ a \notin Nightfall /\ a \notin Dawn
            /\ \A l, k : a \notin Astray(l, k)
        BY <3>1, ArriveAtTorIn
      <3>4. /\ more \in List(What)
            /\ \A W : u \notin W /\ a \notin W => Same(list, more, W)
        BY <3>1, FromPortDoes
      <3> HIDE DEF more, u, a
      <3> QED  BY <3>2, <3>3, <3>4
    <2> QED  BY <2>1, <2>2
  <1>2. /\ PortInv(more, j, e) /\ OneSource(e) /\ DoneBy(more, j, e, Dawn)
        /\ Day(list) => \A i \in Tor : devicesMap[i] = j =>
                            Circuit(more, i, j, e)
        /\ events' = more
    OBVIOUS
  <1> HIDE DEF more, u, a
  <1>3. \A W \in {Start, Nightfall, Dawn} :
            /\ NoneOf(list, W) <=> NoneOf(more, W)
            /\ OneOf(list, W) => OneOf(more, W)
    <2>1. \A W : Same(list, more, W) /\ NoneOf(more, W) => NoneOf(list, W)
      BY DEF Same, NoneOf
    <2> QED  BY <1>1, <2>1, SameClass
  <1>4. Uplinks(events)'
    <2>1. ASSUME NEW l \in Tor PROVE UplinkInv(more, l, dev[l])
      BY <1>1, SameUplink DEF Uplinks
    <2> QED  BY <1>2, <2>1 DEF Uplinks
  <1>5. Ports(events)'
    <2>1. ASSUME NEW l \in Tor
          PROVE  /\ PortInv(more, l, port'[l]) /\ OneSource(port'[l])
                 /\ DoneBy(more, l, port'[l], Dawn)
      <3>1. CASE l = j
        BY <1>0, <1>2, <3>1
      <3>2. CASE l # j
        <4>1. /\ PortInv(list, l, port[l]) /\ OneSource(port[l])
              /\ DoneBy(list, l, port[l], Dawn) /\ port'[l] = port[l]
          BY <1>0, <3>2
        <4> QED  BY <1>1, <3>2, <4>1, SamePort
      <3> QED  BY <3>1, <3>2
    <2> QED  BY <1>2, <2>1 DEF Ports
  <1>6. Phase(events)'
    <2>0. /\ \A l \in Tor : dev'[l] = dev[l]
          /\ atnight' = atnight /\ devicesMap' = devicesMap /\ rounds' = rounds
      BY DEF ctlVars
    <2>1. CASE Day(list)
      <3>1. ASSUME NEW l \in Tor
            PROVE  Circuit(more, l, devicesMap[l], port'[devicesMap[l]])
        <4>1. CASE devicesMap[l] = j
          BY <1>0, <1>2, <2>1, <4>1
        <4>2. CASE devicesMap[l] # j
          <5>1. /\ Circuit(list, l, devicesMap[l], port[devicesMap[l]])
                /\ port'[devicesMap[l]] = port[devicesMap[l]]
            BY <1>0, <2>1, <4>2 DEF Day
          <5> QED  BY <1>1, <4>2, <5>1, SameCircuit
        <4> QED  BY <4>1, <4>2
      <3> QED  BY <1>2, <1>3, <2>0, <2>1, <3>1 DEF Phase, Day
    <2>2. CASE Night(list)
      BY <1>2, <1>3, <2>0, <2>2 DEF Phase, Night
    <2>3. CASE Over(list)
      <3>1. \A l \in Tor : NoneOf(more, UpDone(l)) /\ NoneOf(more, AtSwitch(l))
        BY <1>1, <2>3, SameClass DEF Over
      <3> QED  BY <1>2, <1>3, <2>0, <2>3, <3>1 DEF Phase, Over
    <2> QED  BY <2>1, <2>2, <2>3
  <1> QED  BY <1>1, <1>2, <1>3, <1>4, <1>5, <1>6 DEF TInv

(* PointToPointNetDevice::Send, with nothing waiting.                      *)
LEMMA PortSendDoes ==
    ASSUME NEW P, NoPacket \notin P, NEW d \in Port!State(P),
           d.queue = <<>>, NEW p \in P
    PROVE  LET r == Port!Send(d, p) IN
           /\ r.device \in Port!State(P) /\ r.device.crashed = d.crashed
           /\ \/ r.device = d /\ r.sent = NoPacket
              \/ /\ d.machine = "READY" /\ r.sent = p
                 /\ r.device.queue = <<>> /\ r.device.machine = "BUSY"
                 /\ r.device.current = p
              \/ /\ d.machine = "BUSY" /\ r.sent = NoPacket
                 /\ r.device.queue = <<p>> /\ r.device.machine = "BUSY"
                 /\ r.device.current = d.current
  <1> DEFINE e == [d EXCEPT !.queue = <<p>>]
             s == [d EXCEPT !.queue = <<>>, !.machine = "BUSY", !.current = p]
             r == Port!Send(d, p)
  <1>1. /\ <<p>> \in Seq(P) /\ <<>> \in Seq(P) /\ Append(<<>>, p) = <<p>>
        /\ Head(<<p>>) = p /\ Tail(<<p>>) = <<>>
    OBVIOUS
  <1>2. /\ e \in Port!State(P) /\ e.queue = <<p>> /\ e.machine = d.machine
        /\ e.current = d.current /\ e.crashed = d.crashed
    BY <1>1 DEF Port!State
  <1>3. /\ s \in Port!State(P) /\ s.queue = <<>> /\ s.machine = "BUSY"
        /\ s.current = p /\ s.crashed = d.crashed
    BY <1>1 DEF Port!State
  <1>4. \/ r = Port!Result(d, NoPacket, FALSE)
        \/ d.machine = "READY" /\ r = Port!Result(s, p, TRUE)
        \/ d.machine # "READY" /\ r = Port!Result(e, NoPacket, TRUE)
    <2>1. [d EXCEPT !.queue = Append(@, p)] = e
      BY <1>1
    <2>2. Port!Serve(e) = Port!Result(s, p, TRUE)
      BY <1>1 DEF Port!Serve, Port!State
    <2> HIDE DEF e, s
    <2> QED  BY <2>1, <2>2 DEF Port!Send
  <1>5. d.machine \in {"READY", "BUSY"}
    BY DEF Port!State
  <1> HIDE DEF e, s, r
  <1> QED  BY <1>2, <1>3, <1>4, <1>5 DEF Port!Result, r

(* A sequence of one element.                                              *)
LEMMA OneElement ==
    ASSUME NEW P, NEW q \in Seq(P), Len(q) <= 1, q # <<>>
    PROVE  /\ q = <<q[1]>> /\ q[1] \in P /\ Tail(q) = <<>> /\ Head(q) = q[1]
           /\ 1 \in DOMAIN q
  <1>1. Len(q) = 1 /\ DOMAIN q = 1 .. 1
    <2>1. Len(q) \in Nat \ {0} /\ DOMAIN q = 1 .. Len(q)
      BY EmptySeq, LenProperties
    <2> QED  BY <2>1
  <1>2. q[1] \in P /\ 1 \in DOMAIN q
    BY <1>1, ElementOfSeq
  <1>3. Head(q) = q[1]
    BY <1>1
  <1>4. Tail(q) = <<>>
    <2>1. Tail(q) \in Seq(P) /\ Len(Tail(q)) = Len(q) - 1
      BY HeadTailProperties
    <2>2. Len(Tail(q)) = 0
      BY <1>1, <2>1
    <2> QED  BY <2>1, <2>2, EmptySeq
  <1>5. q = <<q[1]>>
    <2>1. <<q[1]>> \in Seq(P) /\ Len(<<q[1]>>) = 1
      BY <1>2
    <2>2. \A n \in 1 .. Len(q) : q[n] = <<q[1]>>[n]
      BY <1>1
    <2> QED  BY <1>1, <2>1, <2>2, SeqEqual
  <1> QED  BY <1>2, <1>3, <1>4, <1>5

(* PointToPointNetDevice::TransmitComplete, with at most one packet        *)
(* waiting.                                                                *)
LEMMA PortCompleteDoes ==
    ASSUME NEW P, NoPacket \notin P, NEW d \in Port!State(P),
           Len(d.queue) <= 1, d.machine = "BUSY", d.current # NoPacket
    PROVE  LET r == Port!TransmitComplete(d) IN
           /\ r.device \in Port!State(P) /\ r.device.crashed = d.crashed
           /\ r.device.queue = <<>>
           /\ IF d.queue = <<>>
              THEN /\ r.device.machine = "READY" /\ r.device.current = NoPacket
                   /\ r.sent = NoPacket
              ELSE /\ r.device.machine = "BUSY" /\ r.sent = d.queue[1]
                   /\ r.device.current = r.sent /\ r.sent \in P
                   /\ 1 \in DOMAIN d.queue
  <1> DEFINE e == [d EXCEPT !.machine = "READY", !.current = NoPacket]
             q == d.queue
             s == [d EXCEPT !.queue = <<>>, !.machine = "BUSY",
                            !.current = q[1]]
             r == Port!TransmitComplete(d)
  <1>1. q \in Seq(P)
    BY DEF Port!State
  <1>2. /\ e \in Port!State(P) /\ e.queue = q /\ e.machine = "READY"
        /\ e.current = NoPacket /\ e.crashed = d.crashed
    BY DEF Port!State
  <1>3. CASE q = <<>>
    <2>1. r = Port!Result(e, NoPacket, TRUE)
      BY <1>2, <1>3 DEF Port!TransmitComplete
    <2> HIDE DEF e, r
    <2> QED  BY <1>2, <1>3, <2>1 DEF Port!Result, r
  <1>4. CASE q # <<>>
    <2>1. /\ q = <<q[1]>> /\ q[1] \in P /\ Tail(q) = <<>> /\ Head(q) = q[1]
          /\ 1 \in DOMAIN q /\ <<>> \in Seq(P)
      BY <1>1, <1>4, OneElement, EmptySeq
    <2>2. Port!Serve(e) = Port!Result(s, q[1], TRUE)
      <3>1. [e EXCEPT !.queue = Tail(@), !.machine = "BUSY",
                      !.current = Head(e.queue)] = s
        BY <2>1 DEF Port!State
      <3> HIDE DEF s
      <3> QED  BY <1>2, <2>1, <3>1 DEF Port!Serve
    <2>3. r = Port!Result(s, q[1], TRUE)
      BY <1>2, <1>4, <2>2 DEF Port!TransmitComplete
    <2>4. /\ s \in Port!State(P) /\ s.queue = <<>> /\ s.machine = "BUSY"
          /\ s.current = q[1] /\ s.crashed = d.crashed
      BY <2>1 DEF Port!State
    <2> HIDE DEF s, r
    <2> QED  BY <1>4, <2>1, <2>3, <2>4 DEF Port!Result, r
  <1> QED  BY <1>3, <1>4

(* A port that has packets for j only is a port.                           *)
LEMMA ToState ==
    ASSUME NEW j, NEW d \in Port!State(To(j))
    PROVE  d \in Port!State(Packet)
  <1>1. To(j) \subseteq Packet
    BY DEF To
  <1>2. \A q \in Seq(To(j)) : q \in Seq(Packet)
    BY <1>1, SeqMonotonic
  <1> QED  BY <1>1, <1>2 DEF Port!State

(* A packet that reaches the switch by day comes over a circuit, finds the *)
(* port free of other packets than those it is just done with, and waits   *)
(* no longer than that; at night it is dropped.                            *)
LEMMA ArriveAtSwitchTimes ==
    ASSUME FInv, ArriveAtSwitch
    PROVE  TInv' /\ Stock' /\ Undisturbed
  <1> DEFINE n == NextEvent(events)
             i == n.at
             p == n.packet
             j == p.dst
             d == port[j]
             r == Port!Send(d, p)
             rest == RemoveNext(events)
  <1>1. /\ HasDue(events) /\ n.kind = "ArriveAtSwitch"
        /\ \/ /\ Forwards(i, p)
              /\ port' = [port EXCEPT ![j] = r.device]
              /\ events' = FromPort(rest, j, r.sent)
              /\ fate' = IF r.ok THEN fate
                         ELSE [fate EXCEPT ![p.id] = "dropped at port"]
           \/ /\ ~Forwards(i, p)
              /\ fate' = [fate EXCEPT
                            ![p.id] = IF atnight THEN "dropped at night"
                                      ELSE "dropped: no circuit"]
              /\ events' = rest /\ UNCHANGED port
        /\ UNCHANGED <<ctlVars, dev, sends>>
    BY DEF ArriveAtSwitch, NextIs
  <1>2. /\ n \in What /\ rounds # 0
        /\ n \notin Start \cup Nightfall \cup Dawn
    BY <1>1, NextIn DEF CtlKinds
  <1>3. /\ i \in Tor /\ p \in From(i)
        /\ n = Arrival("ArriveAtSwitch", i, p)
    BY <1>1, <1>2, KindMeans
  <1>4. /\ j \in Tor /\ p \in To(j) /\ p.src = i /\ p.id \in 1 .. MaxPackets
    BY <1>3 DEF From, To, Packet
  <1> HIDE DEF n, i, p, j, d, r, rest
  <1>5. /\ n \in AtSwitch(i)
        /\ \A l : n \notin UpDone(l) /\ n \notin PortDone(l)
        /\ \A k : p.dst # k => n \in Astray(i, k)
    BY <1>3, ArriveAtSwitchIn
  <1>6. /\ events \in List(What) /\ rest \in List(What)
        /\ Day(events) => Day(rest)
        /\ Day(rest) \/ Night(rest) \/ Over(rest)
        /\ \A W \in {Start, Nightfall, Dawn} :
              NoneOf(events, W) <=> NoneOf(rest, W)
    BY <1>1, <1>2, RestPhase DEF n, rest, FInv, TInv
  <1>7. ~atnight => Day(events)
    <2>1. ~NoneOf(events, AtSwitch(i))
      BY <1>1, <1>5, <1>6, NextNotNone DEF n
    <2> QED  BY <1>2, <1>3, <2>1 DEF FInv, TInv, Phase, Night, Over
  <1>8. fate \in [1 .. MaxPackets -> Fates \ {"dropped: no circuit"}]
    BY DEF FInv, Stock
  <1>9. CASE ~Forwards(i, p)
    <2>1. TInv' /\ Undisturbed
      BY <1>1, <1>2, <1>5, <1>9, RestKeeps DEF n, rest
    <2>2. atnight
      <3> SUFFICES ASSUME ~atnight PROVE FALSE
        OBVIOUS
      <3>1. Circuit(events, i, devicesMap[i], port[devicesMap[i]])
        BY <1>3, <1>7 DEF Day
      <3>2. p.dst # devicesMap[i]
        BY <1>9 DEF Forwards
      <3>3. n \in Astray(i, devicesMap[i])
        BY <1>5, <3>2
      <3>4. NoneOf(events, Astray(i, devicesMap[i]))
        BY <3>1 DEF Circuit
      <3> QED  BY <1>1, <1>6, <3>3, <3>4, NextNotNone DEF n
    <2>3. fate' \in [1 .. MaxPackets -> Fates \ {"dropped: no circuit"}]
      <3>1. fate' = [fate EXCEPT ![p.id] = "dropped at night"]
        BY <1>1, <1>9, <2>2
      <3> QED  BY <1>4, <1>8, <3>1 DEF Fates
    <2>4. Stock'
      BY <1>1, <1>9, <2>3 DEF FInv, Stock
    <2> QED  BY <2>1, <2>4
  <1>10. CASE Forwards(i, p)
    <2>1. Day(events) /\ Day(rest) /\ devicesMap[i] = j
      BY <1>6, <1>7, <1>10 DEF Forwards, j
    <2>2. /\ devicesMap \in [Tor -> Tor]
          /\ \A l, m \in Tor : devicesMap[l] = devicesMap[m] => l = m
      BY <1>2, RotorGives DEF FInv
    <2>3. Circuit(events, i, j, d)
      BY <1>3, <2>1 DEF Day, d
    <2>4. /\ PortInv(events, j, d) /\ OneSource(d)
          /\ UplinkInv(events, i, dev[i])
      BY <1>3, <1>4 DEF FInv, TInv, Ports, Uplinks, d
    <2>5. d.queue = <<>> /\ Within(events, PortDone(j), 0)
      <3>1. TxTime \in Nat \ {0} /\ 0 \in Int /\ 0 - 0 = 0
        BY FabricAssumption
      <3>2. d.queue = <<>>
        BY <1>1, <1>5, <1>6, <2>3, <3>1, NextTimes DEF Circuit, DoneBy, n
      <3>3. Apart(events, PortDone(j), AtSwitch(i), 0)
        BY <2>3, <3>2 DEF Circuit, DoneBy
      <3>4. Within(events, PortDone(j), 0 - 0)
        BY <1>1, <1>5, <1>6, <3>1, <3>3, NextTimes DEF n
      <3> QED  BY <3>1, <3>2, <3>4
    <2>6. \A q \in Held(d) : q.src = i
      <3>1. ~NotBefore(events, AtSwitch(i), 1)
        <4>1. 1 \in Nat \ {0}
          OBVIOUS
        <4> QED  BY <1>1, <1>5, <1>6, <4>1, NextTimes DEF n
      <3> QED  BY <2>3, <3>1 DEF Circuit, Owned
    <2>7. NotBefore(rest, AtSwitch(i), TxTime)
      <3>1. TxTime \in Nat /\ Spaced(events, AtSwitch(i), TxTime)
        BY <2>4, FabricAssumption DEF UplinkInv, UplinkTimes
      <3> QED  BY <1>1, <1>5, <1>6, <3>1, RemoveTimes DEF n, rest
    <2>8. /\ Uplinks(rest) /\ Ports(rest)
          /\ PortInv(rest, j, d) /\ Within(rest, PortDone(j), 0)
          /\ Circuit(rest, i, j, d)
      <3>1. Uplinks(rest)
        BY <1>1, <1>5, <1>6, RestUplink DEF FInv, TInv, Uplinks, n, rest
      <3>2. Ports(rest)
        <4>1. ASSUME NEW l \in Tor
              PROVE  /\ PortInv(rest, l, port[l]) /\ OneSource(port[l])
                     /\ DoneBy(rest, l, port[l], Dawn)
          BY <1>1, <1>5, <1>6, RestPort DEF FInv, TInv, Ports, n, rest
        <4> QED  BY <4>1 DEF Ports
      <3>3. Within(rest, PortDone(j), 0)
        BY <1>1, <1>6, <2>5, RemoveClass DEF rest
      <3>4. Circuit(rest, i, j, d)
        BY <1>1, <1>6, <2>3, <2>4, RestPort DEF rest
      <3> QED  BY <1>4, <3>1, <3>2, <3>3, <3>4 DEF Ports, d
    <2>9. d \in Port!State(To(j)) /\ NoPacket \notin To(j) /\ ~d.crashed
      BY <2>4, FabricAssumption DEF PortInv, To
    <2>10. /\ r.device \in Port!State(To(j)) /\ ~r.device.crashed
           /\ \/ r.device = d /\ r.sent = NoPacket
              \/ /\ d.machine = "READY" /\ r.sent = p
                 /\ r.device.queue = <<>> /\ r.device.machine = "BUSY"
                 /\ r.device.current = p
              \/ /\ d.machine = "BUSY" /\ r.sent = NoPacket
                 /\ r.device.queue = <<p>> /\ r.device.machine = "BUSY"
                 /\ r.device.current = d.current
      BY <1>4, <2>5, <2>9, PortSendDoes DEF r
    <2> DEFINE e == r.device
               s == r.sent
               more == FromPort(rest, j, s)
    <2> HIDE DEF e, s
    <2>11. NoneOf(rest, Dawn)
      BY <2>1 DEF Day
    <2>12. /\ PortInv(more, j, e) /\ OneSource(e) /\ DoneBy(more, j, e, Dawn)
           /\ Circuit(more, i, j, e)
      <3>0. s = NoPacket => more = rest
        BY DEF FromPort, Transmission
      <3>1. CASE e = d /\ s = NoPacket
        <4>1. DoneBy(rest, j, d, Dawn)
          BY <1>4, <2>8 DEF Ports, d
        <4> HIDE DEF more
        <4> QED  BY <2>4, <2>8, <3>0, <3>1, <4>1
      <3>2. CASE /\ d.machine = "READY" /\ s = p /\ e.queue = <<>>
                 /\ e.machine = "BUSY" /\ e.current = p
        <4>1. NoneOf(rest, PortDone(j))
          BY <2>8, <3>2 DEF PortInv
        <4>2. /\ \A W : /\ DevEvent("PortComplete", j) \notin W
                        /\ Arrival("ArriveAtTor", j, p) \notin W
                        => Same(rest, more, W)
              /\ OneOf(more, PortDone(j)) /\ Within(more, PortDone(j), TxTime)
              /\ \A W : /\ NotBefore(rest, W, TxTime)
                        /\ DevEvent("PortComplete", j) \notin W
                        /\ Arrival("ArriveAtTor", j, p) \notin W
                        => Apart(more, PortDone(j), W, 0)
          BY <1>4, <1>6, <3>2, <4>1, FromPortDoes
        <4>3. /\ \A W \in {Dawn, AtSwitch(i), Astray(i, j)} :
                    /\ DevEvent("PortComplete", j) \notin W
                    /\ Arrival("ArriveAtTor", j, p) \notin W
          BY <1>4, PortCompleteIn, ArriveAtTorIn
        <4> HIDE DEF more
        <4>4. p # NoPacket
          BY <1>4, <2>9
        <4>5. PortInv(more, j, e)
          BY <2>10, <3>2, <4>2, <4>4 DEF PortInv, e
        <4>6. \A q \in Held(e) : q = p
          BY <3>2 DEF Held
        <4>7. DoneBy(more, j, e, Dawn) /\ DoneBy(more, j, e, AtSwitch(i))
          BY <2>7, <2>11, <3>2, <4>2, <4>3, NoneMeans DEF DoneBy
        <4>8. NoneOf(more, Astray(i, j))
          BY <2>8, <4>2, <4>3, SameClass DEF Circuit
        <4>9. Owned(more, j, e, i) /\ OneSource(e)
          BY <1>4, <4>6 DEF Owned, OneSource
        <4> QED  BY <4>5, <4>7, <4>8, <4>9 DEF Circuit
      <3>3. CASE /\ d.machine = "BUSY" /\ s = NoPacket /\ e.queue = <<p>>
                 /\ e.machine = "BUSY" /\ e.current = d.current
        <4>1. /\ Len(e.queue) = 1 /\ e.queue # <<>>
              /\ \A q \in Held(e) : q = p \/ q \in Held(d)
          BY <3>3 DEF Held
        <4>2. PortInv(rest, j, e)
          BY <2>8, <2>10, <3>3, <4>1 DEF PortInv, e
        <4>3. \A q \in Held(e) : q.src = i
          BY <1>4, <2>6, <4>1
        <4>4. DoneBy(rest, j, e, Dawn) /\ DoneBy(rest, j, e, AtSwitch(i))
          BY <2>7, <2>11, <4>1, NoneMeans DEF DoneBy
        <4>5. Owned(rest, j, e, i) /\ OneSource(e)
          BY <4>3 DEF Owned, OneSource
        <4>6. NoneOf(rest, Astray(i, j))
          BY <2>8 DEF Circuit
        <4>7. Circuit(rest, i, j, e)
          BY <4>4, <4>5, <4>6 DEF Circuit
        <4> HIDE DEF more
        <4> QED  BY <3>0, <3>3, <4>2, <4>4, <4>5, <4>7
      <3> QED  BY <2>10, <3>1, <3>2, <3>3 DEF e, s
    <2>13. \A l \in Tor : devicesMap[l] = j => Circuit(more, l, j, e)
      BY <1>3, <2>1, <2>2, <2>12
    <2>14. s \in To(j) \cup {NoPacket}
      BY <1>4, <2>10 DEF s
    <2>15. /\ port' = [port EXCEPT ![j] = e] /\ events' = more
           /\ UNCHANGED <<ctlVars, dev, sends>>
      BY <1>1, <1>10 DEF e, s
    <2>16. /\ TInv'
           /\ \A W \in {Start, Nightfall, Dawn} :
                 NoneOf(rest, W) <=> NoneOf(events', W)
      BY <1>2, <1>4, <1>6, <2>8, <2>12, <2>13, <2>14, <2>15, PortMoves
         DEF Ports
    <2>17. Undisturbed
      <3>1. events' \in List(What)
        BY <2>16 DEF TInv
      <3> QED  BY <1>6, <2>15, <2>16, <3>1, UndisturbedIf
    <2>18. Stock'
      <3>1. e \in Port!State(Packet)
        BY <2>10, ToState DEF e
      <3>2. port' \in [Tor -> Port!State(Packet)]
        BY <2>15, <3>1 DEF FInv, Stock
      <3>3. fate' \in [1 .. MaxPackets -> Fates \ {"dropped: no circuit"}]
        BY <1>1, <1>4, <1>8, <1>10 DEF Fates
      <3> QED  BY <2>15, <3>2, <3>3 DEF FInv, Stock
    <2> QED  BY <2>16, <2>17, <2>18
  <1> QED  BY <1>9, <1>10

(* A port has transmitted a packet; it goes on with the one that waits.    *)
LEMMA PortCompleteTimes ==
    ASSUME FInv, PortComplete
    PROVE  TInv' /\ Stock' /\ Undisturbed
  <1> DEFINE n == NextEvent(events)
             j == n.at
             d == port[j]
             r == Port!TransmitComplete(d)
             rest == RemoveNext(events)
  <1>1. /\ HasDue(events) /\ n.kind = "PortComplete"
        /\ port' = [port EXCEPT ![j] = r.device]
        /\ events' = FromPort(rest, j, r.sent)
        /\ UNCHANGED <<ctlVars, dev, sends, fate>>
    BY DEF PortComplete, NextIs
  <1>2. /\ n \in What /\ rounds # 0
        /\ n \notin Start \cup Nightfall \cup Dawn
    BY <1>1, NextIn DEF CtlKinds
  <1>3. j \in Tor /\ n = DevEvent("PortComplete", j)
    BY <1>1, <1>2, KindMeans
  <1> HIDE DEF n, j, d, r, rest
  <1>4. /\ n \in PortDone(j)
        /\ \A l : n \notin UpDone(l) /\ (n \in PortDone(l) => j = l)
    BY <1>3, PortCompleteIn
  <1>5. /\ events \in List(What) /\ rest \in List(What)
        /\ Day(rest) \/ Night(rest) \/ Over(rest)
        /\ \A W \in {Start, Nightfall, Dawn} :
              NoneOf(events, W) <=> NoneOf(rest, W)
    BY <1>1, <1>2, RestPhase DEF n, rest, FInv, TInv
  <1>6. /\ PortInv(events, j, d) /\ OneSource(d) /\ DoneBy(events, j, d, Dawn)
    BY <1>3 DEF FInv, TInv, Ports, d
  <1>7. /\ NoneOf(rest, PortDone(j))
        /\ d.machine = "BUSY" /\ d.current # NoPacket
        /\ \A W : DoneBy(events, j, d, W) => DoneBy(rest, j, d, W)
        /\ \A i : Circuit(events, i, j, d) => Circuit(rest, i, j, d)
    BY <1>1, <1>4, <1>5, <1>6, RestPort DEF n, rest
  <1>8. Uplinks(rest)
    BY <1>1, <1>4, <1>5, RestUplink DEF FInv, TInv, Uplinks, n, rest
  <1>9. ASSUME NEW l \in Tor, l # j
        PROVE  /\ PortInv(rest, l, port[l]) /\ OneSource(port[l])
               /\ DoneBy(rest, l, port[l], Dawn)
    BY <1>1, <1>4, <1>5, <1>9, RestPort DEF FInv, TInv, Ports, n, rest
  <1>10. d \in Port!State(To(j)) /\ NoPacket \notin To(j) /\ Len(d.queue) <= 1
         /\ ~d.crashed
    BY <1>6, FabricAssumption DEF PortInv, To
  <1>11. /\ r.device \in Port!State(To(j)) /\ ~r.device.crashed
         /\ r.device.queue = <<>>
         /\ IF d.queue = <<>>
            THEN /\ r.device.machine = "READY" /\ r.device.current = NoPacket
                 /\ r.sent = NoPacket
            ELSE /\ r.device.machine = "BUSY" /\ r.sent = d.queue[1]
                 /\ r.device.current = r.sent /\ r.sent \in To(j)
                 /\ 1 \in DOMAIN d.queue
    BY <1>7, <1>10, PortCompleteDoes DEF r
  <1> DEFINE e == r.device
             s == r.sent
             more == FromPort(rest, j, s)
  <1> HIDE DEF e, s
  <1>12. /\ PortInv(more, j, e) /\ OneSource(e) /\ DoneBy(more, j, e, Dawn)
         /\ \A i \in Tor : Circuit(rest, i, j, d) => Circuit(more, i, j, e)
    <2>1. CASE d.queue = <<>>
      <3>1. /\ more = rest /\ e.machine = "READY" /\ e.current = NoPacket
            /\ e.queue = <<>> /\ Len(e.queue) = 0
        BY <1>11, <2>1 DEF FromPort, Transmission, e, s
      <3> HIDE DEF more
      <3>2. PortInv(rest, j, e)
        BY <1>7, <1>11, <3>1, NoneMeans DEF PortInv, e
      <3>3. Held(e) = {}
        BY <3>1 DEF Held
      <3>4. OneSource(e) /\ \A i : Owned(rest, j, e, i)
        BY <3>3 DEF OneSource, Owned
      <3>5. \A W : DoneBy(rest, j, e, W)
        BY <1>7, <3>1, NoneMeans DEF DoneBy
      <3> QED  BY <3>1, <3>2, <3>4, <3>5 DEF Circuit
    <2>2. CASE d.queue # <<>>
      <3>0. /\ s \in To(j) /\ s # NoPacket /\ e.machine = "BUSY"
            /\ e.current = s /\ e.queue = <<>> /\ s \in Held(d)
            /\ Len(e.queue) = 0
        BY <1>10, <1>11, <2>2 DEF e, s, Held
      <3>1. /\ \A W : /\ DevEvent("PortComplete", j) \notin W
                      /\ Arrival("ArriveAtTor", j, s) \notin W
                      => Same(rest, more, W)
            /\ OneOf(more, PortDone(j)) /\ Within(more, PortDone(j), TxTime)
            /\ \A W : /\ NotBefore(rest, W, TxTime)
                      /\ DevEvent("PortComplete", j) \notin W
                      /\ Arrival("ArriveAtTor", j, s) \notin W
                      => Apart(more, PortDone(j), W, 0)
        BY <1>3, <1>5, <1>7, <3>0, FromPortDoes
      <3>2. /\ \A i : /\ DevEvent("PortComplete", j) \notin AtSwitch(i)
                      /\ Arrival("ArriveAtTor", j, s) \notin AtSwitch(i)
                      /\ DevEvent("PortComplete", j) \notin Astray(i, j)
                      /\ Arrival("ArriveAtTor", j, s) \notin Astray(i, j)
            /\ DevEvent("PortComplete", j) \notin Dawn
            /\ Arrival("ArriveAtTor", j, s) \notin Dawn
        BY <1>3, <3>0, PortCompleteIn, ArriveAtTorIn
      <3> HIDE DEF more
      <3>3. PortInv(more, j, e)
        BY <1>11, <3>0, <3>1 DEF PortInv, e
      <3>4. Held(e) = {s}
        BY <3>0 DEF Held
      <3>5. DoneBy(more, j, e, Dawn)
        BY <1>6, <1>7, <2>2, <3>0, <3>1, <3>2 DEF DoneBy
      <3>6. ASSUME NEW i \in Tor, Circuit(rest, i, j, d)
            PROVE  Circuit(more, i, j, e)
        <4>1. NoneOf(more, Astray(i, j))
          BY <3>1, <3>2, <3>6, SameClass DEF Circuit
        <4>2. DoneBy(more, j, e, AtSwitch(i))
          BY <2>2, <3>0, <3>1, <3>2, <3>6 DEF Circuit, DoneBy
        <4>3. Owned(more, j, e, i)
          BY <2>2, <3>0, <3>4, <3>6 DEF Circuit, Owned
        <4> QED  BY <4>1, <4>2, <4>3 DEF Circuit
      <3> QED  BY <3>3, <3>4, <3>5, <3>6 DEF OneSource
    <2> QED  BY <2>1, <2>2
  <1>13. s \in To(j) \cup {NoPacket}
    BY <1>11 DEF s
  <1>14. /\ port' = [port EXCEPT ![j] = e] /\ events' = more
         /\ UNCHANGED <<ctlVars, dev, sends, fate>>
    BY <1>1 DEF e, s
  <1>15. Day(rest) => \A i \in Tor : devicesMap[i] = j =>
                          Circuit(more, i, j, e)
    BY <1>12 DEF Day, d
  <1>16. /\ TInv'
         /\ \A W \in {Start, Nightfall, Dawn} :
               NoneOf(rest, W) <=> NoneOf(events', W)
    BY <1>2, <1>3, <1>5, <1>8, <1>9, <1>12, <1>13, <1>14, <1>15, PortMoves
  <1>17. Undisturbed
    <2>1. events' \in List(What)
      BY <1>16 DEF TInv
    <2> QED  BY <1>5, <1>14, <1>16, <2>1, UndisturbedIf
  <1>18. Stock'
    <2>1. e \in Port!State(Packet)
      BY <1>11, ToState DEF e
    <2>2. port' \in [Tor -> Port!State(Packet)]
      BY <1>14, <2>1 DEF FInv, Stock
    <2> QED  BY <1>14, <2>2 DEF FInv, Stock
  <1> QED  BY <1>16, <1>17, <1>18
-------------------------------------------------------------------------------
(* Nightfall: what the uplinks and the ports still transmit is over by     *)
(* dawn, which is as far away as the last packet.                          *)
LEMMA SetNightTimes ==
    ASSUME FInv, SetNight
    PROVE  TInv' /\ Stock'
  <1> DEFINE n == NextEvent(events)
             rest == RemoveNext(events)
             c == CtlEvent("SetRoutings")
             more == Schedule(rest, ReConfigurable, c)
             k(i) == Ctl!NextQueue(i)
  <1>1. /\ HasDue(events) /\ n.kind = "SetNight" /\ rounds # 0
        /\ dev' = [i \in Tor |-> IntoNight(SetWorkingQueue(dev[i], k(i)))]
        /\ events' = more /\ atnight' = TRUE
        /\ UNCHANGED <<port, sends, rounds>>
    <2>1. rounds # 0
      BY OnlyInitialize DEF SetNight, NextIs, FInv, IInv
    <2> QED  BY <2>1 DEF SetNight, NextIs, Ctl!SetNight
  <1>2. events \in List(What) /\ rest \in List(What) /\ n \in What
    BY <1>1, NextIn, RemoveNextDoes DEF FInv, TInv
  <1>3. /\ n \in Nightfall /\ n \notin Start /\ n \notin Dawn
        /\ \A j : /\ n \notin UpDone(j) /\ n \notin PortDone(j)
                  /\ n \notin AtSwitch(j)
    <2>1. n = CtlEvent("SetNight")
      BY <1>1, <1>2, KindMeans
    <2> QED  BY <2>1, CtlIn DEF CtlKinds
  <1>4. Day(events)
    <2>1. ~NoneOf(events, Nightfall)
      BY <1>1, <1>2, <1>3, NextNotNone
    <2> QED  BY <1>1, <2>1 DEF FInv, TInv, Phase, Night, Over
  <1>5. /\ c \in What /\ c \in Dawn /\ c \notin Start /\ c \notin Nightfall
        /\ \A j : /\ c \notin UpDone(j) /\ c \notin PortDone(j)
                  /\ c \notin AtSwitch(j)
    BY CtlIn DEF CtlKinds
  <1>6. /\ ReConfigurable \in Nat /\ TxTime \in Nat /\ TxTime + Delay \in Nat
        /\ TxTime <= ReConfigurable /\ TxTime + Delay <= ReConfigurable
        /\ ReConfigurable - 0 = ReConfigurable
    BY FabricAssumption
  <1>7. NoneOf(rest, Start) /\ NoneOf(rest, Nightfall) /\ NoneOf(rest, Dawn)
    BY <1>1, <1>2, <1>3, <1>4, RemoveClass DEF Day
  <1> HIDE DEF n, c
  <1>8. ASSUME NEW i \in Tor PROVE UplinkInv(rest, i, dev[i])
    BY <1>1, <1>2, <1>3, RestUplink DEF FInv, TInv, Uplinks, n
  <1>9. ASSUME NEW j \in Tor
        PROVE  PortInv(rest, j, port[j]) /\ OneSource(port[j])
    BY <1>1, <1>2, <1>3, RestPort DEF FInv, TInv, Ports, n
  <1> HIDE DEF rest
  <1>10. more \in List(What)
    BY <1>2, <1>5, <1>6, ScheduleDoes
  <1>11. \A W : c \notin W => Same(rest, more, W)
    BY <1>2, <1>5, <1>6, ScheduleSame
  <1>12. ASSUME NEW i \in Tor
         PROVE  /\ k(i) \in Slot /\ k(i) = (dev[i].queue + 1) % Q
    BY DeviceAssumption DEF FInv, IInv, Ctl!NextQueue, Slot
  <1> HIDE DEF k
  <1>13. ASSUME NEW i \in Tor
         PROVE  /\ dev'[i] \in DeviceState(From(i))
                /\ ~dev'[i].working /\ dev'[i].machine = dev[i].machine
                /\ dev'[i].current = dev[i].current
                /\ Q \notin {2, 3} => dev'[i].crashed = dev[i].crashed
    <2>1. dev'[i] = IntoNight(SetWorkingQueue(dev[i], k(i)))
      BY <1>1
    <2>2. dev[i] \in DeviceState(From(i))
      BY <1>8 DEF UplinkInv
    <2> QED  BY <1>12, <2>1, <2>2, DuskShrinks, NightSends
  <1>14. ASSUME NEW i \in Tor PROVE UplinkInv(more, i, dev'[i])
    <2>1. UplinkTimes(rest, i) /\ UplinkFits(rest, i, dev[i])
      BY <1>8 DEF UplinkInv
    <2>2. Same(rest, more, UpDone(i)) /\ Same(rest, more, AtSwitch(i))
      BY <1>5, <1>11
    <2>3. /\ Within(rest, UpDone(i), ReConfigurable)
          /\ Within(rest, AtSwitch(i), ReConfigurable)
      <3>1. TxTime \in Int /\ TxTime + Delay \in Int /\ ReConfigurable \in Int
        BY <1>6
      <3> QED  BY <1>2, <1>6, <2>1, <3>1, TimesDo DEF UplinkTimes
    <2>4. /\ Precedes(more, UpDone(i), Dawn) /\ Precedes(more, AtSwitch(i), Dawn)
      BY <1>2, <1>5, <1>6, <2>1, <2>3, ScheduleClass DEF UplinkTimes
    <2> HIDE DEF more
    <2>5. UplinkTimes(more, i)
      BY <2>1, <2>2, <2>4, SameClass DEF UplinkTimes
    <2>6. UplinkFits(more, i, dev'[i])
      BY <1>13, <2>1, <2>2, SameClass DEF UplinkFits
    <2> QED  BY <1>13, <2>5, <2>6 DEF UplinkInv
  <1>15. ASSUME NEW j \in Tor
         PROVE  PortInv(more, j, port[j]) /\ DoneBy(more, j, port[j], Dawn)
    <2>1. Same(rest, more, PortDone(j))
      BY <1>5, <1>11
    <2>2. PortInv(more, j, port[j])
      <3> HIDE DEF more
      <3> QED  BY <1>9, <2>1, SamePort
    <2>3. Within(rest, PortDone(j), ReConfigurable - 0)
      <3>1. TxTime \in Int /\ ReConfigurable \in Int
        BY <1>6
      <3> QED  BY <1>2, <1>6, <1>9, <3>1, TimesDo DEF PortInv
    <2>4. Apart(more, PortDone(j), Dawn, 0)
      <3>1. Apart(rest, PortDone(j), Dawn, 0) /\ 0 \in Int
        BY <1>7, NoneMeans
      <3> QED  BY <1>2, <1>5, <1>6, <2>3, <3>1, ScheduleTimes
    <2>5. NotBefore(more, Dawn, TxTime)
      <3>1. NotBefore(rest, Dawn, TxTime)
        BY <1>7, NoneMeans
      <3> QED  BY <1>2, <1>5, <1>6, <3>1, ScheduleTimes
    <2> QED  BY <2>2, <2>4, <2>5 DEF DoneBy
  <1>16. /\ NoneOf(more, Start) /\ NoneOf(more, Nightfall)
         /\ OneOf(more, Dawn)
    <2>1. OneOf(more, Dawn)
      BY <1>2, <1>5, <1>6, <1>7, ScheduleClass
    <2>2. Same(rest, more, Start) /\ Same(rest, more, Nightfall)
      BY <1>5, <1>11
    <2> HIDE DEF more
    <2> QED  BY <1>7, <2>1, <2>2, SameClass
  <1> HIDE DEF more
  <1>17. TInv'
    <2>1. Uplinks(events)' /\ Ports(events)'
      BY <1>1, <1>9, <1>14, <1>15 DEF Uplinks, Ports
    <2>2. Phase(events)'
      BY <1>1, <1>13, <1>16 DEF Phase, Night
    <2> QED  BY <1>1, <1>10, <2>1, <2>2 DEF TInv
  <1>18. fate' \in [1 .. MaxPackets -> Fates \ {"dropped: no circuit"}]
    BY DEF FInv, Stock, SetNight, Fates
  <1>19. Stock'
    BY <1>1, <1>13, <1>18 DEF FInv, Stock
  <1> QED  BY <1>17, <1>19
-------------------------------------------------------------------------------
(* A list at dawn: the controller has nothing scheduled, the uplinks are   *)
(* idle, their fibres empty, and the ports are about to be done.           *)
Quiet(list) ==
    /\ list \in List(What)
    /\ NoneOf(list, Start) /\ NoneOf(list, Nightfall) /\ NoneOf(list, Dawn)
    /\ \A i \in Tor : /\ UplinkInv(list, i, dev[i])
                      /\ NoneOf(list, UpDone(i)) /\ NoneOf(list, AtSwitch(i))
    /\ \A j \in Tor : /\ PortInv(list, j, port[j]) /\ OneSource(port[j])
                      /\ port[j].queue = <<>> /\ Within(list, PortDone(j), 0)

(* What holds before the n-th uplink begins its work, with the matching m. *)
Begun(list, n, m, result) ==
    /\ list \in List(What)
    /\ NoneOf(list, Start) /\ NoneOf(list, Nightfall) /\ NoneOf(list, Dawn)
    /\ \A l \in Tor : l < n => UplinkInv(list, l, result[l].device)
    /\ \A l \in Tor : l >= n => /\ NoneOf(list, UpDone(l))
                                /\ NoneOf(list, AtSwitch(l))
    /\ \A j \in Tor : PortInv(list, j, port[j])
    /\ \A l \in Tor : Circuit(list, l, m[l], port[m[l]])

(* BeginWork on every uplink, port by port, and the event of the night.    *)
LEMMA DawnSends ==
    ASSUME NEW list, Quiet(list), NEW m \in [Tor -> Tor], NEW result,
           \A i \in Tor : /\ result[i].device \in DeviceState(From(i))
                          /\ result[i].sent \in From(i) \cup {NoPacket}
                          /\ Started(result[i])
                          /\ result[i].sent # NoPacket =>
                                result[i].sent.dst = m[i]
    PROVE  LET more == Schedule(DawnEvents(list, result), Interval,
                                CtlEvent("SetNight")) IN
           /\ more \in List(What)
           /\ NoneOf(more, Start) /\ OneOf(more, Nightfall)
           /\ NoneOf(more, Dawn)
           /\ \A l \in Tor : UplinkInv(more, l, result[l].device)
           /\ \A j \in Tor : PortInv(more, j, port[j])
           /\ \A l \in Tor : Circuit(more, l, m[l], port[m[l]])
  <1>0. N \in Nat /\ Interval \in Nat /\ Tor = 0 .. N - 1
    BY FabricAssumption DEF Tor
  <1>1. list \in List(What)
    BY DEF Quiet
  <1>2. PICK f : /\ f[0] = list /\ f[N] = DawnEvents(list, result)
                 /\ \A n \in Tor : f[n + 1] = FromUplink(f[n], n, result[n].sent)
    BY <1>1, DawnEventsDo
  <1> DEFINE J(n) == Begun(f[n], n, m, result)
             S == {n \in 0 .. N : J(n)}
  <1>3. J(0)
    <2>1. ASSUME NEW l \in Tor
          PROVE  Circuit(list, l, m[l], port[m[l]])
      <3>1. NoneOf(list, AtSwitch(l)) /\ m[l] \in Tor
        BY DEF Quiet
      <3>2. NoneOf(list, Astray(l, m[l]))
        <4>1. Astray(l, m[l]) \subseteq AtSwitch(l)
          BY DEF Astray, AtSwitch
        <4> QED  BY <3>1, <4>1, NoneMeans
      <3>3. DoneBy(list, m[l], port[m[l]], AtSwitch(l))
        BY <3>1, NoneMeans DEF DoneBy, Quiet
      <3>4. Owned(list, m[l], port[m[l]], l)
        BY <3>1, NoneMeans DEF Owned, Quiet
      <3> QED  BY <3>2, <3>3, <3>4 DEF Circuit
    <2>2. \A l \in Tor : ~(l < 0)
      BY <1>0
    <2> QED  BY <1>2, <2>1, <2>2 DEF Begun, Quiet
  <1>4. ASSUME NEW n \in 0 .. N - 1, J(n)
        PROVE  J(n + 1)
    <2> DEFINE p == result[n].sent
               e == result[n].device
               more == FromUplink(f[n], n, p)
    <2>0. n \in Tor /\ f[n + 1] = more
      BY <1>0, <1>2
    <2>1. /\ f[n] \in List(What) /\ NoneOf(f[n], Dawn)
          /\ NoneOf(f[n], UpDone(n)) /\ NoneOf(f[n], AtSwitch(n))
      BY <1>0, <1>4, <2>0 DEF Begun
    <2>2. UplinkTimes(f[n], n) /\ Within(f[n], AtSwitch(n), Delay)
      BY <2>1, NoneMeans DEF UplinkTimes
    <2>3. /\ e \in DeviceState(From(n)) /\ p \in From(n) \cup {NoPacket}
          /\ IF p = NoPacket THEN Idle(e) ELSE Sending(e, p)
          /\ p # NoPacket => p.dst = m[n]
      BY <2>0 DEF Started
    <2> HIDE DEF p, e
    <2>4. /\ more \in List(What)
          /\ UplinkInv(more, n, e)
          /\ \A l, d : l # n /\ UplinkInv(f[n], l, d) => UplinkInv(more, l, d)
          /\ \A j, d : PortInv(f[n], j, d) => PortInv(more, j, d)
          /\ \A W \in {Start, Nightfall, Dawn} : Same(f[n], more, W)
          /\ \A l, j, d : /\ PortInv(f[n], j, d) /\ Circuit(f[n], l, j, d)
                          /\ l = n /\ p # NoPacket => p.dst = j
                          => Circuit(more, l, j, d)
          /\ \A l : l # n => /\ Same(f[n], more, UpDone(l))
                             /\ Same(f[n], more, AtSwitch(l))
      BY <2>0, <2>1, <2>2, <2>3, UplinkSends
    <2> HIDE DEF more
    <2>5. \A l \in Tor : l < n + 1 => UplinkInv(more, l, result[l].device)
      <3>1. \A l \in Tor : l < n + 1 => l < n \/ l = n
        BY <1>0
      <3> QED  BY <1>4, <2>4, <3>1 DEF Begun, e
    <2>6. \A l \in Tor : l >= n + 1 => /\ NoneOf(more, UpDone(l))
                                       /\ NoneOf(more, AtSwitch(l))
      <3>1. \A l \in Tor : l >= n + 1 => l >= n /\ l # n
        BY <1>0
      <3> QED  BY <1>4, <2>4, <3>1, SameClass DEF Begun
    <2>7. NoneOf(more, Start) /\ NoneOf(more, Nightfall) /\ NoneOf(more, Dawn)
      BY <1>4, <2>4, SameClass DEF Begun
    <2>8. /\ \A j \in Tor : PortInv(more, j, port[j])
          /\ \A l \in Tor : Circuit(more, l, m[l], port[m[l]])
      BY <1>4, <2>3, <2>4 DEF Begun
    <2> QED  BY <2>0, <2>4, <2>5, <2>6, <2>7, <2>8 DEF Begun
  <1>5. J(N)
    <2>1. 0 \in S /\ \A n \in 0 .. N - 1 : n \in S => n + 1 \in S
      <3> HIDE DEF J
      <3>1. \A n \in 0 .. N - 1 : n + 1 \in 0 .. N
        BY <1>0
      <3>2. 0 \in 0 .. N
        BY <1>0
      <3> QED  BY <1>3, <1>4, <3>1, <3>2
    <2> HIDE DEF S
    <2>2. 0 .. N \subseteq S
      BY <1>0, <2>1, SetInduction
    <2>3. N \in 0 .. N
      BY <1>0
    <2> QED  BY <2>2, <2>3 DEF S
  <1> DEFINE last == DawnEvents(list, result)
             c == CtlEvent("SetNight")
             more == Schedule(last, Interval, c)
  <1>6. Begun(last, N, m, result)
    BY <1>2, <1>5
  <1>7. /\ c \in What /\ c \in Nightfall /\ c \notin Start /\ c \notin Dawn
        /\ \A j : /\ c \notin UpDone(j) /\ c \notin PortDone(j)
                  /\ c \notin AtSwitch(j)
        /\ \A i, j : c \notin Astray(i, j)
    BY CtlIn DEF CtlKinds
  <1> HIDE DEF last, c
  <1>8. last \in List(What) /\ NoneOf(last, Nightfall)
    BY <1>6 DEF Begun
  <1>9. /\ more \in List(What) /\ OneOf(more, Nightfall)
        /\ \A W : c \notin W => Same(last, more, W)
    BY <1>0, <1>7, <1>8, ScheduleDoes, ScheduleClass, ScheduleSame
  <1> HIDE DEF more
  <1>10. NoneOf(more, Start) /\ NoneOf(more, Dawn)
    BY <1>6, <1>7, <1>9, SameClass DEF Begun
  <1>11. ASSUME NEW l \in Tor PROVE UplinkInv(more, l, result[l].device)
    <2>1. l < N
      BY <1>0
    <2> QED  BY <1>6, <1>7, <1>9, <2>1, SameUplink DEF Begun
  <1>12. ASSUME NEW j \in Tor PROVE PortInv(more, j, port[j])
    BY <1>6, <1>7, <1>9, SamePort DEF Begun
  <1>13. ASSUME NEW l \in Tor PROVE Circuit(more, l, m[l], port[m[l]])
    BY <1>6, <1>7, <1>9, SameCircuit DEF Begun
  <1> QED  BY <1>9, <1>10, <1>11, <1>12, <1>13 DEF more, last, c

(* Dawn, or after finishtime the end of the last night.                    *)
LEMMA StartDayTimes ==
    ASSUME FInv, StartDay, Quiet(RemoveNext(events)), UNCHANGED port,
           rounds' # 0, devicesMap' \in [Tor -> Tor],
           \A i \in Tor : ~dev[i].working,
           Ctl!Now(rounds) < FinishTime => ~atnight',
           \A i \in Tor : BeginWork(dev[i]).sent # NoPacket =>
                BeginWork(dev[i]).sent.dst = devicesMap'[i]
    PROVE  TInv'
  <1> DEFINE rest == RemoveNext(events)
             result == [i \in Tor |-> BeginWork(dev[i])]
             more == Schedule(DawnEvents(rest, result), Interval,
                              CtlEvent("SetNight"))
  <1>1. \A j \in Tor : OneSource(port[j])
    BY DEF Quiet
  <1>2. CASE Ctl!Now(rounds) >= FinishTime
    <2>1. events' = rest /\ UNCHANGED dev
      BY <1>2 DEF StartDay
    <2> HIDE DEF rest
    <2>2. Quiet(rest)
      BY DEF rest
    <2>3. Uplinks(events)'
      BY <2>1, <2>2 DEF Quiet, Uplinks
    <2>4. \A j \in Tor : DoneBy(rest, j, port[j], Dawn)
      BY <2>2, NoneMeans DEF Quiet, DoneBy
    <2>5. Ports(events)'
      BY <2>1, <2>2, <2>4 DEF Quiet, Ports
    <2>6. Phase(events)'
      BY <2>1, <2>2 DEF Quiet, Phase, Over
    <2> QED  BY <2>1, <2>2, <2>3, <2>5, <2>6 DEF TInv, Quiet
  <1>3. CASE ~(Ctl!Now(rounds) >= FinishTime)
    <2>1. /\ dev' = [i \in Tor |-> result[i].device] /\ events' = more
      BY <1>3 DEF StartDay
    <2>2. ASSUME NEW i \in Tor
          PROVE  /\ result[i] = BeginWork(dev[i])
                 /\ result[i].device \in DeviceState(From(i))
                 /\ result[i].sent \in From(i) \cup {NoPacket}
                 /\ Started(result[i]) /\ result[i].device.working
      <3>1. dev[i] \in DeviceState(From(i)) /\ NoPacket \notin From(i)
        BY FabricAssumption DEF FInv, TInv, Uplinks, UplinkInv, From
      <3> QED  BY <3>1, BeginWorkSends, BeginWorkShrinks
    <2>3. \A i \in Tor : result[i].sent # NoPacket =>
             result[i].sent.dst = devicesMap'[i]
      BY <2>2
    <2> HIDE DEF result
    <2>4. /\ more \in List(What)
          /\ NoneOf(more, Start) /\ OneOf(more, Nightfall)
          /\ NoneOf(more, Dawn)
          /\ \A l \in Tor : UplinkInv(more, l, result[l].device)
          /\ \A j \in Tor : PortInv(more, j, port[j])
          /\ \A l \in Tor : Circuit(more, l, devicesMap'[l],
                                    port[devicesMap'[l]])
      BY <2>2, <2>3, DawnSends
    <2> HIDE DEF more
    <2>5. \A l \in Tor : dev'[l] = result[l].device /\ dev'[l].working
      BY <2>1, <2>2
    <2>6. Uplinks(events)'
      BY <2>1, <2>4, <2>5 DEF Uplinks
    <2>7. ASSUME NEW j \in Tor
          PROVE  PortInv(more, j, port[j]) /\ DoneBy(more, j, port[j], Dawn)
      BY <2>4, NoneMeans DEF DoneBy, Quiet
    <2>8. Ports(events)'
      BY <1>1, <2>1, <2>7 DEF Ports
    <2>9. ~atnight'
      <3>1. Ctl!Now(rounds) \in Int /\ FinishTime \in Int
        BY FabricAssumption DEF Ctl!Now, FInv, IInv
      <3> QED  BY <1>3, <3>1
    <2>10. Phase(events)'
      BY <2>1, <2>4, <2>5, <2>9 DEF Phase, Day
    <2> QED  BY <2>1, <2>4, <2>6, <2>8, <2>10 DEF TInv
  <1> QED  BY <1>2, <1>3

(* What happened to the uplinks' assertions at dawn: nothing.              *)
LEMMA StartDayStock ==
    ASSUME FInv, StartDay, UNCHANGED <<port, sends, fate>>
    PROVE  Stock'
  <1>1. \A i \in Tor : dev'[i].crashed = dev[i].crashed
    <2>1. CASE UNCHANGED dev
      BY <2>1
    <2>2. ASSUME dev' = [i \in Tor |-> BeginWork(dev[i]).device], NEW i \in Tor
          PROVE  dev'[i].crashed = dev[i].crashed
      <3>1. dev[i] \in DeviceState(From(i)) /\ NoPacket \notin From(i)
        BY FabricAssumption DEF FInv, TInv, Uplinks, UplinkInv, From
      <3> QED  BY <2>2, <3>1, BeginWorkSends
    <2>3. \/ UNCHANGED dev
          \/ dev' = [i \in Tor |-> BeginWork(dev[i]).device]
      BY DEF StartDay
    <2> QED  BY <2>1, <2>2, <2>3
  <1> QED  BY <1>1 DEF FInv, Stock

(* The night ends unless it is the last one.                               *)
LEMMA NightEnds ==
    ASSUME FInv, Ctl!StartDay
    PROVE  Ctl!Now(rounds) < FinishTime => ~atnight'
  <1>1. Ctl!Now(rounds) \in Int /\ FinishTime \in Int
    <2>1. /\ rounds \in Nat /\ Interval + ReConfigurable \in Nat
          /\ FinishTime \in Nat
      BY FabricAssumption DEF FInv, IInv
    <2>2. Ctl!Now(rounds) = rounds * (Interval + ReConfigurable)
      BY DEF Ctl!Now
    <2> QED  BY <2>1, <2>2
  <1>2. Ctl!Now(rounds) >= FinishTime \/ atnight' = FALSE
    BY DEF Ctl!StartDay
  <1> QED  BY <1>1, <1>2

(* A night is over: no uplink has anything left to transmit or on its      *)
(* fibre, and no port has more than the packet it is just done with.       *)
LEMMA SetRoutingsTimes ==
    ASSUME FInv, SetRoutings
    PROVE  TInv' /\ Stock'
  <1> DEFINE n == NextEvent(events)
             rest == RemoveNext(events)
  <1>1. /\ HasDue(events) /\ n.kind = "SetRoutings" /\ rounds # 0
        /\ StartDay /\ rounds' = rounds + 1 /\ devicesMap' = devicesMap
        /\ Ctl!Now(rounds) < FinishTime => ~atnight'
        /\ UNCHANGED <<port, sends, fate>>
    <2>1. rounds # 0
      BY OnlyInitialize DEF SetRoutings, NextIs, FInv, IInv
    <2>2. Ctl!StartDay
      BY DEF SetRoutings, Ctl!SetRoutings
    <2>3. Ctl!Now(rounds) < FinishTime => ~atnight'
      BY <2>2, NightEnds
    <2> QED  BY <2>1, <2>3
                DEF SetRoutings, NextIs, Ctl!SetRoutings, Ctl!StartDay
  <1>2. events \in List(What) /\ rest \in List(What) /\ n \in What
    BY <1>1, NextIn, RemoveNextDoes DEF FInv, TInv
  <1>3. /\ n \in Dawn /\ n \notin Start /\ n \notin Nightfall
        /\ \A j : n \notin UpDone(j) /\ n \notin PortDone(j)
    <2>1. n = CtlEvent("SetRoutings")
      BY <1>1, <1>2, KindMeans
    <2> QED  BY <2>1, CtlIn DEF CtlKinds
  <1>4. Night(events)
    <2>1. ~NoneOf(events, Dawn)
      BY <1>1, <1>2, <1>3, NextNotNone
    <2> QED  BY <1>1, <2>1 DEF FInv, TInv, Phase, Day, Over
  <1>5. NoneOf(rest, Start) /\ NoneOf(rest, Nightfall) /\ NoneOf(rest, Dawn)
    BY <1>1, <1>2, <1>3, <1>4, RemoveClass DEF Night
  <1>6. ASSUME NEW i \in Tor
        PROVE  /\ UplinkInv(rest, i, dev[i])
               /\ NoneOf(rest, UpDone(i)) /\ NoneOf(rest, AtSwitch(i))
    <2>1. UplinkInv(events, i, dev[i])
      BY DEF FInv, TInv, Uplinks
    <2>2. NoneOf(events, UpDone(i)) /\ NoneOf(events, AtSwitch(i))
      BY <1>1, <1>2, <1>3, <2>1, PrecedesNext DEF UplinkInv, UplinkTimes
    <2> QED  BY <1>1, <1>2, <1>3, <2>1, <2>2, RestUplink, RemoveClass
  <1>7. ASSUME NEW j \in Tor
        PROVE  /\ PortInv(rest, j, port[j]) /\ OneSource(port[j])
               /\ port[j].queue = <<>> /\ Within(rest, PortDone(j), 0)
    <2>1. /\ PortInv(events, j, port[j]) /\ OneSource(port[j])
          /\ DoneBy(events, j, port[j], Dawn)
      BY DEF FInv, TInv, Ports
    <2>2. TxTime \in Nat \ {0} /\ 0 \in Int /\ 0 - 0 = 0
      BY FabricAssumption
    <2>3. port[j].queue = <<>>
      BY <1>1, <1>2, <1>3, <2>1, <2>2, NextTimes DEF DoneBy
    <2>4. Within(events, PortDone(j), 0 - 0)
      BY <1>1, <1>2, <1>3, <2>1, <2>2, <2>3, NextTimes DEF DoneBy
    <2>5. Within(rest, PortDone(j), 0)
      BY <1>1, <1>2, <2>2, <2>4, RemoveClass
    <2> QED  BY <1>1, <1>2, <1>3, <2>1, <2>3, <2>5, RestPort
  <1>8. ASSUME NEW i \in Tor, BeginWork(dev[i]).sent # NoPacket
        PROVE  BeginWork(dev[i]).sent.dst = devicesMap[i]
    <2> DEFINE d == dev[i]
               q == d.queues[d.queue]
               s == BeginWork(d).sent
    <2>1. d \in DeviceState(From(i)) /\ NoPacket \notin From(i)
      BY FabricAssumption DEF FInv, TInv, Uplinks, UplinkInv, From
    <2>2. d.queue \in Slot /\ q \in Seq(From(i))
      BY <2>1 DEF DeviceState
    <2>3. q # <<>> /\ s = Head(q)
      BY <1>8, <2>1, BeginWorkSends DEF SentHead
    <2>4. s = q[1] /\ 1 \in DOMAIN q
      <3> HIDE DEF q, s
      <3> QED  BY <2>2, <2>3
    <2>5. q[1].dst = ocs_dest_addr[i][d.queue]
      BY <1>1, <2>2, <2>4 DEF FInv, IInv, Pure
    <2> QED  BY <1>1, <2>4, <2>5, RotorGives DEF FInv
  <1>9. Quiet(rest)
    BY <1>2, <1>5, <1>6, <1>7 DEF Quiet
  <1>10. /\ devicesMap' \in [Tor -> Tor] /\ rounds' # 0
         /\ \A i \in Tor : ~dev[i].working
    <2>1. rounds' # 0
      BY <1>1 DEF FInv, IInv
    <2> QED  BY <1>1, <1>4, <2>1, RotorGives DEF FInv, Night
  <1>11. TInv'
    BY <1>1, <1>8, <1>9, <1>10, StartDayTimes
  <1> QED  BY <1>1, <1>11, StartDayStock

(* Initialize: there is nothing in the fabric yet.                         *)
LEMMA InitializeTimes ==
    ASSUME FInv, Initialize
    PROVE  TInv' /\ Stock'
  <1> DEFINE n == NextEvent(events)
             rest == RemoveNext(events)
  <1>1. /\ HasDue(events) /\ n.kind = "Initialize" /\ rounds = 0
        /\ StartDay /\ rounds' = 1
        /\ devicesMap' = Ctl!Matching(set_index + 1)
        /\ Ctl!Now(rounds) < FinishTime => ~atnight'
        /\ UNCHANGED <<port, sends, fate>>
    <2>1. Ctl!StartDay
      BY DEF Initialize, Ctl!Initialize
    <2>2. Ctl!Now(rounds) < FinishTime => ~atnight'
      BY <2>1, NightEnds
    <2> QED  BY <2>2 DEF Initialize, NextIs, Ctl!Initialize, Ctl!StartDay
  <1>2. events \in List(What) /\ rest \in List(What) /\ n \in What
    BY <1>1, NextIn, RemoveNextDoes DEF FInv, TInv
  <1>3. /\ n \in Start /\ \A j : n \notin UpDone(j) /\ n \notin PortDone(j)
    <2>1. n = CtlEvent("Initialize")
      BY <1>1, <1>2, KindMeans
    <2> QED  BY <2>1, CtlIn DEF CtlKinds
  <1>4. Before(events)
    BY <1>1 DEF FInv, TInv, Phase
  <1>5. /\ NoneOf(events, Nightfall) /\ NoneOf(events, Dawn)
        /\ \A i \in Tor : /\ NoneOf(events, UpDone(i))
                          /\ NoneOf(events, PortDone(i))
                          /\ NoneOf(events, AtSwitch(i))
    <2>1. Nightfall \subseteq What \ Start /\ Dawn \subseteq What \ Start
      BY CtlIn DEF CtlKinds, Nightfall, Dawn
    <2>2. ASSUME NEW i \in Tor
          PROVE  /\ UpDone(i) \subseteq What \ Start
                 /\ PortDone(i) \subseteq What \ Start
                 /\ AtSwitch(i) \subseteq What \ Start
      BY UplinkCompleteIn, PortCompleteIn, ArriveAtSwitchIn
         DEF UpDone, PortDone, AtSwitch
    <2> QED  BY <1>4, <2>1, <2>2, NoneMeans DEF Before
  <1>6. /\ NoneOf(rest, Start) /\ NoneOf(rest, Nightfall) /\ NoneOf(rest, Dawn)
        /\ \A i \in Tor : NoneOf(rest, UpDone(i)) /\ NoneOf(rest, AtSwitch(i))
    BY <1>1, <1>2, <1>3, <1>4, <1>5, RemoveClass DEF Before
  <1>7. ASSUME NEW i \in Tor PROVE UplinkInv(rest, i, dev[i])
    BY <1>1, <1>2, <1>3, RestUplink DEF FInv, TInv, Uplinks
  <1>8. ASSUME NEW j \in Tor
        PROVE  /\ PortInv(rest, j, port[j]) /\ OneSource(port[j])
               /\ port[j].queue = <<>> /\ Within(rest, PortDone(j), 0)
    <2>1. PortInv(events, j, port[j]) /\ OneSource(port[j])
      BY DEF FInv, TInv, Ports
    <2>2. port[j].queue = <<>>
      BY <1>5, <2>1 DEF PortInv, OneOf, NoneOf
    <2>3. Within(rest, PortDone(j), 0)
      <3>1. NoneOf(rest, PortDone(j))
        BY <1>1, <1>2, <1>5, RemoveClass
      <3> QED  BY <3>1, NoneMeans
    <2> QED  BY <1>1, <1>2, <1>3, <2>1, <2>2, <2>3, RestPort
  <1>9. ASSUME NEW i \in Tor PROVE BeginWork(dev[i]).sent = NoPacket
    <2> DEFINE d == dev[i]
    <2>1. d \in DeviceState(From(i)) /\ NoPacket \notin From(i)
      BY FabricAssumption DEF FInv, TInv, Uplinks, UplinkInv, From
    <2>2. d.queue \in Slot /\ d.queues[d.queue] = <<>>
      BY <1>1, <2>1 DEF FInv, IInv, Unstarted, Empty, DeviceState
    <2> QED  BY <2>1, <2>2, BeginWorkSends DEF SentHead
  <1>10. Quiet(rest)
    BY <1>2, <1>6, <1>7, <1>8 DEF Quiet
  <1>11. devicesMap' \in [Tor -> Tor]
    <2>1. set_index + 1 \in Nat /\ N \in Nat \ {0}
      BY FabricAssumption, DeviceAssumption DEF FInv, IInv
    <2>2. \A i \in Tor : (i + (set_index + 1)) % N \in Tor
      BY <2>1 DEF Tor
    <2>3. devicesMap' = [i \in Tor |-> (i + (set_index + 1)) % N]
      BY <1>1 DEF Ctl!Matching, Ctl!Tor, Tor
    <2> QED  BY <2>2, <2>3
  <1>12. \A i \in Tor : ~dev[i].working
    BY <1>4 DEF Before
  <1>13. TInv'
    BY <1>1, <1>9, <1>10, <1>11, <1>12, StartDayTimes
  <1> QED  BY <1>1, <1>13, StartDayStock
-------------------------------------------------------------------------------
(* At the start there is only Initialize.                                  *)
LEMMA FabricInit ==
    ASSUME Init PROVE FInv
  <1> DEFINE c == CtlEvent("Initialize")
             start == Schedule(<<>>, 0, c)
  <1>1. /\ events = start /\ dev = [i \in Tor |-> NewDevice]
        /\ port = [i \in Tor |-> Port!New] /\ rounds = 0
        /\ sends = 0 /\ fate = [n \in 1 .. MaxPackets |-> "none"]
    BY DEF Init, Ctl!Init
  <1>2. /\ c \in What /\ c \in Start /\ c \notin Nightfall /\ c \notin Dawn
        /\ \A j : /\ c \notin UpDone(j) /\ c \notin PortDone(j)
                  /\ c \notin AtSwitch(j)
    BY CtlIn DEF CtlKinds
  <1>3. <<>> \in List(What) /\ \A W : NoneOf(<<>>, W)
    BY DEF List, NoneOf, At
  <1> HIDE DEF c
  <1>4. /\ start \in List(What) /\ OneOf(start, Start)
        /\ \A W : c \notin W => NoneOf(start, W)
    BY <1>2, <1>3, ScheduleDoes, ScheduleClass
  <1> HIDE DEF start
  <1>5. /\ NoneOf(start, What \ Start) /\ NoneOf(start, Dawn)
        /\ \A j : /\ NoneOf(start, UpDone(j)) /\ NoneOf(start, PortDone(j))
                  /\ NoneOf(start, AtSwitch(j))
    BY <1>2, <1>4
  <1>6. Uplinks(events)
    <2>1. ASSUME NEW i \in Tor PROVE UplinkInv(start, i, NewDevice)
      <3>1. NewDevice \in DeviceState(From(i))
        BY DeviceAssumption DEF NewDevice, DeviceState, Slot
      <3>2. UplinkTimes(start, i)
        BY <1>5, NoneMeans DEF UplinkTimes
      <3>3. UplinkFits(start, i, NewDevice)
        BY <1>5, NoneMeans DEF UplinkFits, NewDevice
      <3> QED  BY <3>1, <3>2, <3>3 DEF UplinkInv
    <2> QED  BY <1>1, <2>1 DEF Uplinks
  <1>7. Ports(events)
    <2>1. ASSUME NEW j \in Tor
          PROVE  /\ PortInv(start, j, Port!New) /\ OneSource(Port!New)
                 /\ DoneBy(start, j, Port!New, Dawn)
      <3>1. /\ Port!New.queue = <<>> /\ Port!New.machine = "READY"
            /\ Port!New.current = NoPacket /\ ~Port!New.crashed
            /\ Len(<<>>) = 0 /\ Port!New \in Port!State(To(j))
        BY DEF Port!New, Port!State
      <3>2. PortInv(start, j, Port!New)
        BY <1>5, <3>1, NoneMeans DEF PortInv
      <3>3. OneSource(Port!New)
        BY <3>1 DEF OneSource, Held
      <3>4. DoneBy(start, j, Port!New, Dawn)
        BY <1>5, <3>1, NoneMeans DEF DoneBy
      <3> QED  BY <3>2, <3>3, <3>4
    <2> QED  BY <1>1, <2>1 DEF Ports
  <1>8. Phase(events)
    BY <1>1, <1>4, <1>5 DEF Phase, Before, NewDevice
  <1>9. TInv
    BY <1>1, <1>4, <1>6, <1>7, <1>8 DEF TInv
  <1>10. Stock
    <2>1. Port!New \in Port!State(Packet)
      BY DEF Port!New, Port!State
    <2> QED  BY <1>1, <2>1, FabricAssumption DEF Stock, Fates, NewDevice
  <1> QED  BY <1>9, <1>10, InvInit, RotorInit DEF FInv

(* Every step keeps the invariant.                                         *)
LEMMA FabricStep ==
    ASSUME FInv, [Next]_vars, Q \in {1, 4} \/ Q = N - 1
    PROVE  FInv'
  <1>0. IInv' /\ IInv /\ Rotor!IInv
    BY InvStep DEF FInv
  <1>1. CASE Initialize
    BY <1>0, <1>1, InitializeTimes, RotorStep DEF FInv, Initialize
  <1>2. CASE SetRoutings
    BY <1>0, <1>2, SetRoutingsTimes, RotorStep DEF FInv, SetRoutings
  <1>3. CASE SetNight
    BY <1>0, <1>3, SetNightTimes, RotorStep DEF FInv, SetNight
  <1>4. CASE UplinkComplete
    BY <1>0, <1>4, UplinkCompleteTimes, RotorStays DEF FInv
  <1>5. CASE ArriveAtSwitch
    BY <1>0, <1>5, ArriveAtSwitchTimes, RotorStays DEF FInv
  <1>6. CASE PortComplete
    BY <1>0, <1>6, PortCompleteTimes, RotorStays DEF FInv
  <1>7. CASE ArriveAtTor
    BY <1>0, <1>7, ArriveAtTorKeeps, RotorStays DEF FInv
  <1>8. CASE Tick
    BY <1>0, <1>8, TickKeeps, RotorStays DEF FInv
  <1>9. CASE \E i \in Senders, j \in Tor : SendOptical(i, j)
    BY <1>0, <1>9, SendOpticalTimes, RotorStays DEF FInv
  <1>10. CASE UNCHANGED vars
    <2>1. UNCHANGED <<ctlVars, dev, port, events, sends, fate>>
      BY <1>10 DEF vars
    <2>2. TInv'
      <3>1. Uplinks(events)' /\ Ports(events)'
        BY <2>1 DEF FInv, TInv, Uplinks, Ports
      <3>2. Phase(events)'
        BY <2>1 DEF FInv, TInv, Phase, Day, Night, Over, Before, ctlVars
      <3> QED  BY <2>1, <3>1, <3>2 DEF FInv, TInv
    <2>3. Stock'
      BY <2>1 DEF FInv, Stock
    <2>4. Undisturbed
      BY <2>1 DEF Undisturbed, CtlScheduled
    <2> QED  BY <1>0, <2>2, <2>3, <2>4, RotorStays DEF FInv
  <1> QED  BY <1>1, <1>2, <1>3, <1>4, <1>5, <1>6, <1>7, <1>8, <1>9, <1>10
              DEF Next, Simulator

(* By day the switch never refuses a packet, and RouteInput's search for   *)
(* the other half of a circuit never fails: an uplink starts a packet only *)
(* for the ToR it is connected to, and what is under way when the night    *)
(* falls has arrived before the next matching is used.                     *)
THEOREM NoCircuitMissedCorrect ==
    ASSUME Q \in {1, 4} \/ Q = N - 1
    PROVE  Spec => []NoCircuitMissed
  <1>1. Init => FInv
    BY FabricInit
  <1>2. FInv /\ [Next]_vars => FInv'
    BY FabricStep
  <1>3. FInv => NoCircuitMissed
    BY DEF FInv, Stock, NoCircuitMissed
  <1> QED  BY <1>1, <1>2, <1>3, PTL DEF Spec

(* An output port never holds packets of two inputs, not even while the    *)
(* last packet of one day is still being transmitted when the first of the *)
(* next arrives.                                                           *)
THEOREM CircuitExclusiveCorrect ==
    ASSUME Q \in {1, 4} \/ Q = N - 1
    PROVE  Spec => []CircuitExclusive
  <1>1. Init => FInv
    BY FabricInit
  <1>2. FInv /\ [Next]_vars => FInv'
    BY FabricStep
  <1>3. FInv => CircuitExclusive
    BY DEF FInv, TInv, Ports, OneSource, Held, CircuitExclusive, InPort
  <1> QED  BY <1>1, <1>2, <1>3, PTL DEF Spec

(* Nothing leaves its range, and no assertion of an uplink or a port fails *)
(* (TransmitComplete: "Must be BUSY if transmitting", m_currentPkt set);   *)
(* with two or three queues IntoNight may index past the vector.           *)
THEOREM FabricTypeCorrect ==
    ASSUME Q \in {1, 4} \/ Q = N - 1, Q \notin {2, 3}
    PROVE  Spec => []TypeOK
  <1>1. Init => FInv
    BY FabricInit
  <1>2. FInv /\ [Next]_vars => FInv'
    BY FabricStep
  <1>3. FInv => TypeOK
    <2> SUFFICES ASSUME FInv PROVE TypeOK
      OBVIOUS
    <2>1. ~Crashed
      BY DEF FInv, Stock, TInv, Ports, PortInv, Crashed
    <2>2. Cardinality(CtlScheduled) <= 1
      <3>1. PICK k : CtlScheduled \subseteq {k}
        BY ScheduledIs DEF FInv
      <3>2. CtlScheduled = {} \/ CtlScheduled = {k}
        BY <3>1
      <3> QED  BY <3>2, FS_EmptySet, FS_Singleton
    <2> QED  BY <2>1, <2>2 DEF FInv, IInv, Stock, TypeOK
  <1> QED  BY <1>1, <1>2, <1>3, PTL DEF Spec
-------------------------------------------------------------------------------
(* The packets on their way, in stages: those that wait in the uplinks,    *)
(* those on the fibres to the switch, those that wait in its ports, and    *)
(* those on the fibres to the ToRs.                                        *)
ToSwitch == {e \in What : e.kind = "ArriveAtSwitch"}
ToTor == {e \in What : e.kind = "ArriveAtTor"}

Flying(list, W) == {list[k].what.packet : k \in At(list, W)}
Waiting(devices) == UNION {Queued(devices[i]) : i \in Tor}
InPorts(ports) == UNION {{ports[j].queue[n] : n \in DOMAIN ports[j].queue} : j \in Tor}

(* The arrivals of class W come in the order of the list, and packets of   *)
(* one pair of ToRs are there in the order in which they were sent.        *)
Rising(list, W) ==
    \A k, l \in At(list, W) :
        k < l /\ Channel!SamePair(list[k].what.packet, list[l].what.packet)
            => list[k].what.packet.id < list[l].what.packet.id
Punctual(list, W) == Within(list, W, TxTime + Delay) /\ Spaced(list, W, 0)

(* An event that is added: a newer packet comes last.                      *)
LEMMA ScheduleFlying ==
    ASSUME NEW list \in List(What), NEW d \in Nat, NEW w \in What, NEW W
    PROVE  LET more == Schedule(list, d, w) IN
           /\ w \notin W => /\ Flying(more, W) = Flying(list, W)
                            /\ Rising(list, W) => Rising(more, W)
           /\ w \in W => /\ Flying(more, W) = Flying(list, W) \cup {w.packet}
                         /\ Rising(list, W)
                            /\ (\A q \in Flying(list, W) :
                                   Channel!SamePair(q, w.packet) => q.id < w.packet.id)
                            => Rising(more, W)
  <1> DEFINE more == Schedule(list, d, w)
             n == Len(list) + 1
  <1>1. /\ Len(list) \in Nat /\ DOMAIN list = 1 .. Len(list)
        /\ DOMAIN more = 1 .. Len(list) + 1
        /\ \A k \in 1 .. Len(list) : more[k] = list[k]
        /\ more[n] = [left |-> d, what |-> w]
    BY ScheduleDoes
  <1> HIDE DEF more
  <1>2. more[n].what = w
    BY <1>1
  <1>3. /\ n \in DOMAIN more /\ n \notin DOMAIN list
        /\ \A k \in DOMAIN list : k < n /\ ~(n < k) /\ k \in DOMAIN more
        /\ ~(n < n)
        /\ \A k \in DOMAIN more : k # n => k \in DOMAIN list
        /\ \A k \in DOMAIN list : more[k] = list[k]
    BY <1>1
  <1> HIDE DEF n
  <1>4. At(more, W) = IF w \in W THEN At(list, W) \cup {n} ELSE At(list, W)
    BY <1>2, <1>3 DEF At
  <1>5. At(list, W) \subseteq DOMAIN list
    BY DEF At
  <1>6. \A k \in At(list, W) : more[k] = list[k]
    BY <1>3, <1>5
  <1>7. w \notin W => /\ Flying(more, W) = Flying(list, W)
                      /\ Rising(list, W) => Rising(more, W)
    BY <1>4, <1>6 DEF Flying, Rising
  <1>8. w \in W => Flying(more, W) = Flying(list, W) \cup {w.packet}
    BY <1>2, <1>4, <1>6 DEF Flying
  <1>9. ASSUME w \in W, Rising(list, W),
               \A q \in Flying(list, W) :
                   Channel!SamePair(q, w.packet) => q.id < w.packet.id
        PROVE  Rising(more, W)
    <2> SUFFICES ASSUME NEW k \in At(more, W), NEW l \in At(more, W), k < l,
                        Channel!SamePair(more[k].what.packet, more[l].what.packet)
                 PROVE  more[k].what.packet.id < more[l].what.packet.id
      BY DEF Rising
    <2>1. k \in At(list, W)
      BY <1>3, <1>4, <1>5, <1>9
    <2>2. CASE l \in At(list, W)
      BY <1>6, <1>9, <2>1, <2>2 DEF Rising
    <2>3. CASE l = n
      <3>1. more[k].what.packet \in Flying(list, W)
        BY <1>6, <2>1 DEF Flying
      <3> QED  BY <1>2, <1>9, <2>3, <3>1
    <2> QED  BY <1>4, <1>9, <2>2, <2>3
  <1> QED  BY <1>7, <1>8, <1>9 DEF more

(* The next arrival of a class that comes in order brings the oldest packet*)
(* of its pair.                                                            *)
LEMMA RemoveFlying ==
    ASSUME NEW list \in List(What), HasDue(list), NEW W, Rising(list, W),
           \A e \in W : e.packet \in Packet
    PROVE  LET rest == RemoveNext(list)
               p == NextEvent(list).packet IN
           /\ Rising(rest, W)
           /\ NextEvent(list) \notin W => Flying(rest, W) = Flying(list, W)
           /\ NextEvent(list) \in W /\ Spaced(list, W, 0) =>
                 /\ p \in Flying(list, W)
                 /\ Flying(rest, W) = Flying(list, W) \ {p}
                 /\ \A q \in Flying(rest, W) : Channel!SamePair(p, q) => p.id < q.id
  <1> DEFINE rest == RemoveNext(list)
             n == NextIndex(list)
             p == NextEvent(list).packet
             Old(k) == IF k < n THEN k ELSE k + 1
             New(k) == IF k < n THEN k ELSE k - 1
  <1>1. /\ Len(list) \in Nat /\ DOMAIN list = 1 .. Len(list)
        /\ DOMAIN rest = 1 .. Len(list) - 1
        /\ \A k \in 1 .. Len(list) - 1 : rest[k] = list[Old(k)]
        /\ n \in 1 .. Len(list) /\ NextEvent(list) = list[n].what
        /\ list[n].left = 0 /\ \A k \in 1 .. n - 1 : list[k].left > 0
    <2>1. Len(list) \in Nat /\ DOMAIN list = 1 .. Len(list)
      BY DEF List
    <2>2. /\ DOMAIN rest = 1 .. Len(list) - 1
          /\ \A k \in 1 .. Len(list) - 1 : rest[k] = list[Old(k)]
      BY RemoveNextDoes
    <2>3. /\ n \in 1 .. Len(list) /\ NextEvent(list) = list[n].what
          /\ list[n].left = 0 /\ \A k \in 1 .. n - 1 : list[k].left > 0
      BY NextDoes
    <2> QED  BY <2>1, <2>2, <2>3
  <1> HIDE DEF rest, n
  <1>2. /\ \A k \in DOMAIN rest : Old(k) \in DOMAIN list /\ Old(k) # n
        /\ \A k \in DOMAIN list \ {n} : New(k) \in DOMAIN rest /\ Old(New(k)) = k
    BY <1>1
  <1>3. \A k, l \in DOMAIN rest : k < l => Old(k) < Old(l)
    BY <1>1
  <1>4. \A k \in DOMAIN rest : rest[k] = list[Old(k)]
    BY <1>1
  <1> HIDE DEF Old, New
  <1>5. /\ \A k \in At(rest, W) : k \in DOMAIN rest /\ Old(k) \in At(list, W) \ {n}
        /\ \A k \in At(list, W) \ {n} : New(k) \in At(rest, W) /\ rest[New(k)] = list[k]
    BY <1>2, <1>4 DEF At
  <1>6. Rising(rest, W)
    BY <1>3, <1>4, <1>5 DEF Rising
  <1>7. Flying(rest, W) = {list[k].what.packet : k \in At(list, W) \ {n}}
    BY <1>4, <1>5 DEF Flying
  <1>8. CASE NextEvent(list) \notin W
    <2>1. n \notin At(list, W)
      BY <1>1, <1>8 DEF At
    <2> QED  BY <1>6, <1>7, <1>8, <2>1 DEF Flying, rest
  <1>9. CASE NextEvent(list) \in W /\ Spaced(list, W, 0)
    <2>1. n \in At(list, W) /\ p = list[n].what.packet
      BY <1>1, <1>9 DEF At
    <2>2. ASSUME NEW k \in At(list, W) \ {n}
          PROVE  n < k
      <3>1. k \in 1 .. Len(list) /\ list[k].left \in Nat
        BY <1>1, ElementDoes DEF At
      <3>2. CASE k < n
        <4>1. list[k].left + 0 <= list[n].left
          BY <1>9, <2>1, <3>2 DEF Spaced
        <4>2. list[k].left > 0
          BY <1>1, <3>1, <3>2
        <4> QED  BY <1>1, <3>1, <4>1, <4>2
      <3> QED  BY <1>1, <3>1, <3>2
    <2>3. ASSUME NEW k \in At(list, W) \ {n},
                 Channel!SamePair(p, list[k].what.packet)
          PROVE  p.id < list[k].what.packet.id
      BY <2>1, <2>2, <2>3 DEF Rising
    <2>4. p.id \in Int
      BY <1>9 DEF Packet
    <2>5. \A k \in At(list, W) \ {n} : list[k].what.packet # p
      BY <2>3, <2>4 DEF Channel!SamePair
    <2>6. /\ p \in Flying(list, W)
          /\ Flying(rest, W) = Flying(list, W) \ {p}
      BY <1>7, <2>1, <2>5 DEF Flying
    <2>7. \A q \in Flying(rest, W) : Channel!SamePair(p, q) => p.id < q.id
      BY <1>7, <2>3
    <2> HIDE DEF p
    <2> QED  BY <1>6, <1>9, <2>6, <2>7 DEF rest, p
  <1>10. CASE NextEvent(list) \in W /\ ~Spaced(list, W, 0)
    BY <1>6, <1>10 DEF rest
  <1> QED  BY <1>8, <1>9, <1>10

(* Nothing arrives while time passes.                                      *)
LEMMA ElapseFlying ==
    ASSUME NEW list \in List(What), ~HasDue(list), NEW W
    PROVE  LET later == Elapse(list) IN
           /\ Flying(later, W) = Flying(list, W)
           /\ Rising(list, W) => Rising(later, W)
           /\ Punctual(list, W) => Punctual(later, W)
  <1> DEFINE later == Elapse(list)
  <1>1. /\ At(later, W) = At(list, W)
        /\ \A k \in At(list, W) : later[k].what = list[k].what
    BY ElapseClass, ElapseDoes DEF At
  <1>2. Punctual(list, W) => Punctual(later, W)
    <2>1. TxTime + Delay \in Nat /\ 0 \in Int
      BY FabricAssumption
    <2> QED  BY <2>1, ElapseClass, ElapseTimes DEF Punctual
  <1> HIDE DEF later
  <1>3. Flying(later, W) = Flying(list, W)
    BY <1>1 DEF Flying
  <1>4. Rising(list, W) => Rising(later, W)
    BY <1>1 DEF Rising
  <1> QED  BY <1>2, <1>3, <1>4 DEF later

(* Arrivals are all scheduled the same time ahead.                         *)
LEMMA KeepPunctual ==
    ASSUME NEW list \in List(What), NEW W, Punctual(list, W)
    PROVE  /\ \A d \in Nat, w \in What :
                 w \notin W \/ d = TxTime + Delay => Punctual(Schedule(list, d, w), W)
           /\ HasDue(list) => Punctual(RemoveNext(list), W)
  <1>1. ASSUME NEW d \in Nat, NEW w \in What, w \notin W
        PROVE  Punctual(Schedule(list, d, w), W)
    BY <1>1, ScheduleSame, SameClass DEF Punctual
  <1>2. ASSUME NEW w \in What
        PROVE  Punctual(Schedule(list, TxTime + Delay, w), W)
    <2>1. /\ TxTime + Delay \in Nat /\ TxTime + Delay <= TxTime + Delay
          /\ 0 \in Int /\ TxTime + Delay - 0 = TxTime + Delay
      BY FabricAssumption
    <2>2. Within(Schedule(list, TxTime + Delay, w), W, TxTime + Delay)
      BY <2>1, ScheduleClass DEF Punctual
    <2>3. Spaced(Schedule(list, TxTime + Delay, w), W, 0)
      BY <2>1, ScheduleTimes DEF Punctual
    <2> QED  BY <2>2, <2>3 DEF Punctual
  <1>3. ASSUME HasDue(list)
        PROVE  Punctual(RemoveNext(list), W)
    BY <1>3, RemoveClass, RemoveTimes DEF Punctual
  <1> QED  BY <1>1, <1>2, <1>3
-------------------------------------------------------------------------------
(* A queue is in the order of sending.                                     *)
Sorted(d) ==
    \A k \in Slot : \A m, n \in DOMAIN d.queues[k] :
        m < n => d.queues[k][m].id < d.queues[k][n].id
Distinct(w) == \A k, l \in Slot : w[k] = w[l] => k = l

(* A handler has taken the packet it started out of the working queue, or  *)
(* none; a packet has been put into queue k.                               *)
Took(d, r) ==
    \/ r.sent = NoPacket /\ r.device.queues = d.queues
    \/ /\ d.queues[d.queue] # <<>> /\ r.sent = Head(d.queues[d.queue])
       /\ r.device.queues = [d.queues EXCEPT ![d.queue] = Tail(d.queues[d.queue])]
Put(d, p, k, e) ==
    /\ e \in DeviceState(Packet) /\ e.queue = d.queue
    /\ e.queues = [d.queues EXCEPT ![k] = Append(d.queues[k], p)]

(* Serving the working queue.                                              *)
LEMMA ServeTakes ==
    ASSUME NEW d \in DeviceState(Packet)
    PROVE  Took(d, ServeWorkingQueue(d))
  <1> DEFINE q == d.queues[d.queue]
             e == [d EXCEPT !.queues[d.queue] = Tail(q), !.machine = "BUSY",
                            !.current = Head(q)]
  <1>1. CASE q = <<>>
    BY <1>1 DEF ServeWorkingQueue, Result, Took
  <1>2. CASE q # <<>>
    <2>1. ServeWorkingQueue(d) = Result(e, Head(q), TRUE)
      BY <1>2 DEF ServeWorkingQueue, TransmitStart, DeviceState
    <2>2. e.queues = [d.queues EXCEPT ![d.queue] = Tail(q)]
      <3> HIDE DEF q
      <3> QED  BY DEF DeviceState
    <2> HIDE DEF q, e
    <2> QED  BY <1>2, <2>1, <2>2 DEF Took, Result, q
  <1> QED  BY <1>1, <1>2

(* TransmitComplete, when its assertions hold.                             *)
LEMMA CompleteTakes ==
    ASSUME NEW d \in DeviceState(Packet), d.machine = "BUSY", d.current # NoPacket
    PROVE  Took(d, TransmitComplete(d))
  <1> DEFINE e == [d EXCEPT !.machine = "READY", !.current = NoPacket]
  <1>1. e \in DeviceState(Packet) /\ e.queues = d.queues /\ e.queue = d.queue
    BY DEF DeviceState
  <1>2. TransmitComplete(d) = IF d.working THEN ServeWorkingQueue(e)
                                           ELSE Result(e, NoPacket, TRUE)
    BY DEF TransmitComplete, DeviceState
  <1> HIDE DEF e
  <1>3. CASE d.working
    <2>1. Took(e, TransmitComplete(d))
      BY <1>1, <1>2, <1>3, ServeTakes
    <2> QED  BY <1>1, <2>1 DEF Took
  <1>4. CASE ~d.working
    BY <1>1, <1>2, <1>4 DEF Took, Result
  <1> QED  BY <1>3, <1>4

(* BeginWork.                                                              *)
LEMMA BeginWorkTakes ==
    ASSUME NEW d \in DeviceState(Packet)
    PROVE  Took(d, BeginWork(d))
  <1> DEFINE e == [d EXCEPT !.working = TRUE, !.machine = "READY",
                            !.current = NoPacket]
  <1>1. e \in DeviceState(Packet) /\ e.queues = d.queues /\ e.queue = d.queue
    BY DEF DeviceState
  <1>2. BeginWork(d) = ServeWorkingQueue(e)
    BY DEF BeginWork
  <1> HIDE DEF e
  <1>3. Took(e, BeginWork(d))
    BY <1>1, <1>2, ServeTakes
  <1> QED  BY <1>1, <1>3 DEF Took

(* Send puts a packet behind the others, or refuses it.                    *)
LEMMA SendPuts ==
    ASSUME NEW d \in DeviceState(Packet), NEW p \in Packet, NEW k \in Slot
    PROVE  LET r == Send(d, p, k) IN
           \/ r.sent = NoPacket /\ r.device = d
           \/ \E e : Put(d, p, k, e) /\ Took(e, r)
  <1> DEFINE e == [d EXCEPT !.queues[k] = Append(@, p)]
  <1>1. Put(d, p, k, e)
    <2>1. Append(d.queues[k], p) \in Seq(Packet) /\ d.queues \in [Slot -> Seq(Packet)]
      BY DEF DeviceState
    <2>2. [d.queues EXCEPT ![k] = Append(d.queues[k], p)] \in [Slot -> Seq(Packet)]
      BY <2>1
    <2>3. e = [d EXCEPT !.queues = [d.queues EXCEPT ![k] = Append(d.queues[k], p)]]
      OBVIOUS
    <2> QED  BY <2>2, <2>3 DEF DeviceState, Put
  <1>2. \/ Send(d, p, k) = Result(d, NoPacket, FALSE)
        \/ Send(d, p, k) = Result(e, NoPacket, TRUE)
        \/ Send(d, p, k) = ServeWorkingQueue(e)
    BY DEF Send
  <1> HIDE DEF e
  <1>3. Took(e, Result(e, NoPacket, TRUE)) /\ Took(e, ServeWorkingQueue(e))
    BY <1>1, ServeTakes DEF Took, Result, Put
  <1>4. CASE Send(d, p, k) = Result(d, NoPacket, FALSE)
    BY <1>4 DEF Result
  <1> QED  BY <1>1, <1>2, <1>3, <1>4

(* A packet is in a queue.                                                 *)
LEMMA QueuedIs ==
    ASSUME NEW d \in DeviceState(Packet)
    PROVE  /\ Queued(d) \subseteq Packet
           /\ \A p : p \in Queued(d) <=>
                 \E k \in Slot : \E n \in DOMAIN d.queues[k] : p = d.queues[k][n]
           /\ \A k \in Slot : \A n \in DOMAIN d.queues[k] : d.queues[k][n].id \in Int
  <1>1. ASSUME NEW k \in Slot, NEW n \in DOMAIN d.queues[k]
        PROVE  d.queues[k][n] \in Packet
    <2>1. d.queues[k] \in Seq(Packet)
      BY DEF DeviceState
    <2> QED  BY <2>1, ElementOfSeq
  <1>2. \A p : p \in Queued(d) <=>
           \E k \in Slot : \E n \in DOMAIN d.queues[k] : p = d.queues[k][n]
    BY DEF Queued
  <1>3. \A p \in Packet : p.id \in Int
    BY DEF Packet
  <1> QED  BY <1>1, <1>2, <1>3

(* What leaves the working queue is the oldest packet of its pair, if the  *)
(* window names every ToR once: all packets for it are in this queue.      *)
LEMMA TookOldest ==
    ASSUME NEW d \in DeviceState(Packet), NEW r, Took(d, r), r.sent # NoPacket,
           Sorted(d), NEW w, Pure(d, w), Distinct(w)
    PROVE  /\ Sorted(r.device) /\ r.sent \in Queued(d)
           /\ Queued(r.device) = Queued(d) \ {r.sent}
           /\ \A q \in Queued(r.device) : q.dst = r.sent.dst => r.sent.id < q.id
  <1> DEFINE c == d.queue
             q == d.queues[c]
             t == Tail(q)
             p == Head(q)
             e == r.device
  <1>1. c \in Slot /\ q \in Seq(Packet) /\ d.queues \in [Slot -> Seq(Packet)]
    BY DEF DeviceState
  <1>2. q # <<>> /\ r.sent = p /\ e.queues = [d.queues EXCEPT ![c] = t]
    BY DEF Took
  <1> HIDE DEF q
  <1>3. /\ Len(q) \in Nat \ {0} /\ DOMAIN q = 1 .. Len(q) /\ p = q[1]
        /\ t \in Seq(Packet) /\ Len(t) = Len(q) - 1 /\ DOMAIN t = 1 .. Len(q) - 1
        /\ \A n \in 1 .. Len(q) - 1 : t[n] = q[n + 1]
    BY <1>1, <1>2
  <1> HIDE DEF t, p
  <1>4. \A k \in Slot : e.queues[k] = IF k = c THEN t ELSE d.queues[k]
    BY <1>1, <1>2
  <1> HIDE DEF e
  <1>5. /\ \A n \in DOMAIN t : n + 1 \in DOMAIN q /\ 1 < n + 1 /\ t[n] = q[n + 1]
        /\ \A n \in DOMAIN q : n # 1 => n - 1 \in DOMAIN t /\ t[n - 1] = q[n]
        /\ \A m, n \in DOMAIN t : m < n => m + 1 < n + 1
        /\ 1 \in DOMAIN q
    BY <1>3
  <1>6. Sorted(e)
    <2> SUFFICES ASSUME NEW k \in Slot, NEW m \in DOMAIN e.queues[k],
                        NEW n \in DOMAIN e.queues[k], m < n
                 PROVE  e.queues[k][m].id < e.queues[k][n].id
      BY DEF Sorted
    <2>1. CASE k # c
      BY <1>4, <2>1 DEF Sorted
    <2>2. CASE k = c
      BY <1>1, <1>4, <1>5, <2>2 DEF Sorted, q
    <2> QED  BY <2>1, <2>2
  <1>7. \A n \in DOMAIN t : p.id < t[n].id
    BY <1>1, <1>3, <1>5 DEF Sorted, q
  <1>8. p.id \in Int /\ p \in Queued(d) /\ p.dst = w[c]
    BY <1>1, <1>3, <1>5, QueuedIs DEF q, Pure
  <1>9. \A k \in Slot : k # c => \A n \in DOMAIN d.queues[k] : d.queues[k][n].dst # p.dst
    BY <1>1, <1>8 DEF Pure, Distinct
  <1>10. \A k \in Slot : \A n \in DOMAIN e.queues[k] :
            /\ e.queues[k][n] # p
            /\ e.queues[k][n].dst = p.dst => p.id < e.queues[k][n].id
    BY <1>4, <1>7, <1>8, <1>9
  <1>11. \A x : x \in Queued(e) <=>
            \E k \in Slot : \E n \in DOMAIN e.queues[k] : x = e.queues[k][n]
    BY DEF Queued
  <1>12. Queued(e) \subseteq Queued(d)
    <2> SUFFICES ASSUME NEW k \in Slot, NEW n \in DOMAIN e.queues[k]
                 PROVE  e.queues[k][n] \in Queued(d)
      BY <1>11
    <2>1. CASE k # c
      BY <1>4, <2>1, QueuedIs
    <2>2. CASE k = c
      BY <1>1, <1>4, <1>5, <2>2, QueuedIs DEF q
    <2> QED  BY <2>1, <2>2
  <1>13. Queued(d) \ {p} \subseteq Queued(e)
    <2> SUFFICES ASSUME NEW k \in Slot, NEW n \in DOMAIN d.queues[k],
                        d.queues[k][n] # p
                 PROVE  d.queues[k][n] \in Queued(e)
      BY QueuedIs
    <2>1. CASE k # c
      BY <1>4, <1>11, <2>1
    <2>2. CASE k = c
      BY <1>1, <1>3, <1>4, <1>5, <1>11, <2>2 DEF q
    <2> QED  BY <2>1, <2>2
  <1> QED  BY <1>2, <1>6, <1>8, <1>10, <1>11, <1>12, <1>13 DEF e, p

(* A packet newer than all others comes last in its queue.                 *)
LEMMA PutLast ==
    ASSUME NEW d \in DeviceState(Packet), NEW p \in Packet, NEW k \in Slot,
           NEW e, Put(d, p, k, e), Sorted(d), \A q \in Queued(d) : q.id < p.id
    PROVE  Sorted(e) /\ Queued(e) = Queued(d) \cup {p}
  <1> DEFINE q == d.queues[k]
             a == Append(q, p)
             last == Len(q) + 1
  <1>1. q \in Seq(Packet) /\ d.queues \in [Slot -> Seq(Packet)]
    BY DEF DeviceState
  <1>2. \A l \in Slot : e.queues[l] = IF l = k THEN a ELSE d.queues[l]
    BY <1>1 DEF Put
  <1> HIDE DEF q
  <1>3. /\ Len(q) \in Nat /\ DOMAIN q = 1 .. Len(q) /\ DOMAIN a = 1 .. last
        /\ a[last] = p /\ \A n \in 1 .. Len(q) : a[n] = q[n]
    BY <1>1
  <1> HIDE DEF a
  <1>4. /\ last \in DOMAIN a /\ \A n \in DOMAIN a : n # last => n \in DOMAIN q
        /\ \A n \in DOMAIN q : n \in DOMAIN a /\ a[n] = q[n] /\ ~(last < n)
        /\ ~(last < last)
    BY <1>3
  <1> HIDE DEF last
  <1>5. Sorted(e)
    <2> SUFFICES ASSUME NEW l \in Slot, NEW m \in DOMAIN e.queues[l],
                        NEW n \in DOMAIN e.queues[l], m < n
                 PROVE  e.queues[l][m].id < e.queues[l][n].id
      BY DEF Sorted
    <2>1. CASE l # k
      BY <1>2, <2>1 DEF Sorted
    <2>2. CASE l = k /\ n # last
      <3>1. m \in DOMAIN q /\ n \in DOMAIN q
        BY <1>2, <1>4, <2>2
      <3>2. q[m].id < q[n].id
        BY <3>1 DEF Sorted, q
      <3> QED  BY <1>2, <1>4, <2>2, <3>1, <3>2
    <2>3. CASE l = k /\ n = last
      <3>1. m \in DOMAIN q
        BY <1>2, <1>4, <2>3
      <3>2. q[m] \in Queued(d)
        BY <3>1, QueuedIs DEF q
      <3> QED  BY <1>2, <1>3, <1>4, <2>3, <3>1, <3>2
    <2> QED  BY <2>1, <2>2, <2>3
  <1>6. e \in DeviceState(Packet)
    BY DEF Put
  <1>7. Queued(e) \subseteq Queued(d) \cup {p}
    <2> SUFFICES ASSUME NEW l \in Slot, NEW n \in DOMAIN e.queues[l]
                 PROVE  e.queues[l][n] \in Queued(d) \cup {p}
      BY <1>6, QueuedIs
    <2>1. CASE l # k
      BY <1>2, <2>1, QueuedIs
    <2>2. CASE l = k
      BY <1>2, <1>3, <1>4, <2>2, QueuedIs DEF q
    <2> QED  BY <2>1, <2>2
  <1>8. Queued(d) \subseteq Queued(e)
    <2> SUFFICES ASSUME NEW l \in Slot, NEW n \in DOMAIN d.queues[l]
                 PROVE  d.queues[l][n] \in Queued(e)
      BY QueuedIs
    <2>1. CASE l # k
      BY <1>2, <1>6, <2>1, QueuedIs
    <2>2. CASE l = k
      <3>1. n \in DOMAIN a /\ a[n] = d.queues[l][n]
        BY <1>4, <2>2 DEF q
      <3> QED  BY <1>2, <1>6, <2>2, <3>1, QueuedIs
    <2> QED  BY <2>1, <2>2
  <1>9. p \in Queued(e)
    BY <1>2, <1>3, <1>4, <1>6, QueuedIs
  <1> QED  BY <1>5, <1>7, <1>8, <1>9

(* Queues that lose packets at one end stay in order.                      *)
LEMMA ShrunkSorted ==
    ASSUME NEW d \in DeviceState(Packet), NEW e \in DeviceState(Packet),
           Shrunk(d, e), Sorted(d)
    PROVE  Sorted(e) /\ Queued(e) \subseteq Queued(d)
  <1>1. ASSUME NEW k \in Slot
        PROVE  \/ e.queues[k] = <<>>
               \/ e.queues[k] = d.queues[k]
               \/ \A n \in DOMAIN e.queues[k] :
                     n \in Int /\ n + 1 \in DOMAIN d.queues[k]
                               /\ e.queues[k][n] = d.queues[k][n + 1]
    <2> DEFINE q == d.queues[k]
    <2>1. q \in Seq(Packet) /\ e.queues[k] \in Seq(Packet)
      BY DEF DeviceState
    <2>2. e.queues[k] \in {q, Tail(q), <<>>}
      BY DEF Shrunk
    <2> HIDE DEF q
    <2>3. CASE e.queues[k] = Tail(q) /\ q # <<>>
      <3>1. \A n \in DOMAIN Tail(q) : n \in Int /\ n + 1 \in DOMAIN q /\ Tail(q)[n] = q[n + 1]
        BY <2>1, <2>3
      <3> QED  BY <2>3, <3>1 DEF q
    <2>4. CASE e.queues[k] = Tail(q) /\ q = <<>>
      <3>1. Tail(q) = <<>>
        BY <2>4
      <3> QED  BY <2>4, <3>1
    <2> QED  BY <2>2, <2>3, <2>4 DEF q
  <1>2. Sorted(e)
    <2> SUFFICES ASSUME NEW k \in Slot, NEW m \in DOMAIN e.queues[k],
                        NEW n \in DOMAIN e.queues[k], m < n
                 PROVE  e.queues[k][m].id < e.queues[k][n].id
      BY DEF Sorted
    <2>1. CASE e.queues[k] = d.queues[k]
      BY <2>1 DEF Sorted
    <2>2. CASE \A x \in DOMAIN e.queues[k] :
                  x \in Int /\ x + 1 \in DOMAIN d.queues[k]
                            /\ e.queues[k][x] = d.queues[k][x + 1]
      <3>1. m + 1 < n + 1 /\ m + 1 \in DOMAIN d.queues[k] /\ n + 1 \in DOMAIN d.queues[k]
        BY <2>2
      <3>2. d.queues[k][m + 1].id < d.queues[k][n + 1].id
        BY <3>1 DEF Sorted
      <3> QED  BY <2>2, <3>2
    <2>3. e.queues[k] # <<>>
      OBVIOUS
    <2> QED  BY <1>1, <2>1, <2>2, <2>3
  <1>3. ASSUME NEW k \in Slot, NEW n \in DOMAIN e.queues[k]
        PROVE  e.queues[k][n] \in Queued(d)
    <2>1. e.queues[k] # <<>>
      OBVIOUS
    <2>2. \E m \in DOMAIN d.queues[k] : e.queues[k][n] = d.queues[k][m]
      BY <1>1, <2>1
    <2> QED  BY <2>2, QueuedIs
  <1> QED  BY <1>2, <1>3, QueuedIs
-------------------------------------------------------------------------------
(* Between two ToRs, what is further on its way was sent earlier.          *)
Below(X, Y) == \A p \in X, q \in Y : Channel!SamePair(p, q) => p.id < q.id
Chain(D, C, B, A) ==
    /\ Below(D, C) /\ Below(D, B) /\ Below(D, A)
    /\ Below(C, B) /\ Below(C, A) /\ Below(B, A)

Line(list, devices, ports) ==
    /\ \A W \in {ToSwitch, ToTor} : Rising(list, W) /\ Punctual(list, W)
    /\ \A i \in Tor : Sorted(devices[i])
    /\ Chain(Flying(list, ToTor), InPorts(ports), Flying(list, ToSwitch),
             Waiting(devices))
Transit(list, devices, ports) ==
    Waiting(devices) \cup InPorts(ports)
        \cup Flying(list, ToSwitch) \cup Flying(list, ToTor)

(* The classes of arrivals exclude each other and everything else.         *)
LEMMA ArrivalIn ==
    ASSUME NEW e \in What
    PROVE  /\ e \in ToSwitch => e.packet \in Packet /\ e.kind = "ArriveAtSwitch" /\ e \notin ToTor
           /\ e \in ToTor => e.packet \in Packet /\ e.kind = "ArriveAtTor" /\ e \notin ToSwitch
           /\ e.kind \notin {"ArriveAtSwitch", "ArriveAtTor"} => e \notin ToSwitch /\ e \notin ToTor
  BY KindMeans DEF ToSwitch, ToTor, From, To

(* What flies is a packet.                                                 *)
LEMMA FlyingType ==
    ASSUME NEW list \in List(What)
    PROVE  /\ \A W \in {ToSwitch, ToTor} : /\ Flying(list, W) \subseteq Packet
                                           /\ \A e \in W : e.packet \in Packet
           /\ Fibre("ArriveAtSwitch") = Flying(events, ToSwitch)
                \/ events \notin List(What)
           /\ Fibre("ArriveAtTor") = Flying(events, ToTor)
                \/ events \notin List(What)
  <1>1. \A W \in {ToSwitch, ToTor} : \A e \in W : e.packet \in Packet
    BY ArrivalIn DEF ToSwitch, ToTor
  <1>2. \A W \in {ToSwitch, ToTor} : Flying(list, W) \subseteq Packet
    BY <1>1 DEF Flying, At
  <1>3. ASSUME events \in List(What)
        PROVE  /\ Fibre("ArriveAtSwitch") = Flying(events, ToSwitch)
               /\ Fibre("ArriveAtTor") = Flying(events, ToTor)
    <2>1. \A n \in DOMAIN events : events[n].what \in What
      <3>1. DOMAIN events = 1 .. Len(events)
        BY <1>3 DEF List
      <3> QED  BY <1>3, <3>1, ElementDoes
    <2>2. /\ InFlight("ArriveAtSwitch") = At(events, ToSwitch)
          /\ InFlight("ArriveAtTor") = At(events, ToTor)
      BY <2>1 DEF InFlight, At, ToSwitch, ToTor
    <2> QED  BY <2>2 DEF Fibre, Flying
  <1> QED  BY <1>1, <1>2, <1>3

(* A transmission adds its packet to those on the fibre.                   *)
LEMMA TransmissionFlies ==
    ASSUME NEW list \in List(What), NEW u \in What, NEW a \in What,
           NEW W, NEW V, u \notin W, u \notin V, a \in W, a \notin V,
           \A U \in {W, V} : Rising(list, U) /\ Punctual(list, U),
           \A q \in Flying(list, W) : Channel!SamePair(q, a.packet) => q.id < a.packet.id
    PROVE  LET more == Schedule(Schedule(list, TxTime, u), TxTime + Delay, a) IN
           /\ more \in List(What)
           /\ Flying(more, W) = Flying(list, W) \cup {a.packet}
           /\ Flying(more, V) = Flying(list, V)
           /\ \A U \in {W, V} : Rising(more, U) /\ Punctual(more, U)
  <1> DEFINE one == Schedule(list, TxTime, u)
             more == Schedule(one, TxTime + Delay, a)
  <1>1. TxTime \in Nat /\ TxTime + Delay \in Nat
    BY FabricAssumption
  <1>2. one \in List(What)
    BY <1>1, ScheduleDoes
  <1>3. /\ Flying(one, W) = Flying(list, W) /\ Flying(one, V) = Flying(list, V)
        /\ Rising(one, W) /\ Rising(one, V)
    BY <1>1, ScheduleFlying
  <1>4. Punctual(one, W) /\ Punctual(one, V)
    BY <1>1, KeepPunctual
  <1> HIDE DEF one
  <1>5. more \in List(What)
    BY <1>1, <1>2, ScheduleDoes
  <1>6. Flying(more, W) = Flying(list, W) \cup {a.packet} /\ Rising(more, W)
    BY <1>1, <1>2, <1>3, ScheduleFlying
  <1>7. Flying(more, V) = Flying(list, V) /\ Rising(more, V)
    BY <1>1, <1>2, <1>3, ScheduleFlying
  <1>8. Punctual(more, W) /\ Punctual(more, V)
    BY <1>1, <1>2, <1>4, KeepPunctual
  <1> QED  BY <1>5, <1>6, <1>7, <1>8 DEF more, one

(* The oldest packet of a stage goes on to the next.                       *)
LEMMA ChainMoves ==
    ASSUME NEW A \in SUBSET Packet, NEW B \in SUBSET Packet,
           NEW C \in SUBSET Packet, NEW D \in SUBSET Packet,
           Chain(D, C, B, A), NEW p \in Packet
    PROVE  /\ p \in A /\ Below({p}, A \ {p})
              => Chain(D, C, B \cup {p}, A \ {p}) /\ Below(B, {p})
           /\ p \in B /\ Below({p}, B \ {p})
              => Chain(D, C \cup {p}, B \ {p}, A) /\ Chain(D, C, B \ {p}, A)
           /\ p \in B /\ Below({p}, B \ {p}) /\ Below({p}, C)
              => Chain(D \cup {p}, C, B \ {p}, A) /\ Below(D, {p})
           /\ p \in C /\ Below({p}, C \ {p})
              => Chain(D \cup {p}, C \ {p}, B, A) /\ Below(D, {p})
           /\ p \in D /\ Below({p}, D \ {p})
              => Chain(D \ {p}, C, B, A)
           /\ Below(D \cup C \cup B \cup A, {p})
              => Chain(D, C, B, A \cup {p})
           /\ \A X \in SUBSET A : Chain(D, C, B, X)
  <1>1. p.id \in Int /\ \A S \in {A, B, C, D} : \A q \in S : q.id \in Int
    BY DEF Packet
  <1>2. p \in A /\ Below({p}, A \ {p})
           => Chain(D, C, B \cup {p}, A \ {p}) /\ Below(B, {p})
    BY <1>1 DEF Chain, Below, Channel!SamePair
  <1>3. p \in B /\ Below({p}, B \ {p})
           => Chain(D, C \cup {p}, B \ {p}, A) /\ Chain(D, C, B \ {p}, A)
    BY <1>1 DEF Chain, Below, Channel!SamePair
  <1>4. p \in B /\ Below({p}, B \ {p}) /\ Below({p}, C)
           => Chain(D \cup {p}, C, B \ {p}, A) /\ Below(D, {p})
    BY <1>1 DEF Chain, Below, Channel!SamePair
  <1>5. p \in C /\ Below({p}, C \ {p})
           => Chain(D \cup {p}, C \ {p}, B, A) /\ Below(D, {p})
    BY <1>1 DEF Chain, Below, Channel!SamePair
  <1>6. p \in D /\ Below({p}, D \ {p}) => Chain(D \ {p}, C, B, A)
    BY <1>1 DEF Chain, Below, Channel!SamePair
  <1>7. Below(D \cup C \cup B \cup A, {p}) => Chain(D, C, B, A \cup {p})
    BY DEF Chain, Below
  <1>8. \A X \in SUBSET A : Chain(D, C, B, X)
    BY DEF Chain, Below
  <1> QED  BY <1>2, <1>3, <1>4, <1>5, <1>6, <1>7, <1>8

(* An uplink has packets of its own only.                                  *)
LEMMA FromState ==
    ASSUME NEW i, NEW d \in DeviceState(From(i))
    PROVE  /\ d \in DeviceState(Packet)
           /\ \A p \in Queued(d) : p.src = i
  <1>1. From(i) \subseteq Packet
    BY DEF From
  <1>2. \A q \in Seq(From(i)) : q \in Seq(Packet)
    BY <1>1, SeqMonotonic
  <1>3. d.queues \in [Slot -> Seq(From(i))]
    BY DEF DeviceState
  <1>4. d.queues \in [Slot -> Seq(Packet)]
    BY <1>2, <1>3
  <1>5. d \in DeviceState(Packet)
    BY <1>1, <1>4 DEF DeviceState
  <1>6. ASSUME NEW k \in Slot, NEW n \in DOMAIN d.queues[k]
        PROVE  d.queues[k][n].src = i
    <2>1. d.queues[k] \in Seq(From(i))
      BY <1>3
    <2>2. d.queues[k][n] \in From(i)
      BY <2>1, ElementOfSeq
    <2> QED  BY <2>2 DEF From
  <1> QED  BY <1>5, <1>6, QueuedIs

(* Every uplink has packets of its own ToR.                                *)
AtHome(devices) ==
    \A l \in Tor : /\ devices[l] \in DeviceState(Packet)
                   /\ \A q \in Queued(devices[l]) : q.src = l

(* The packets that wait when one has left uplink i.                       *)
LEMMA WaitingLess ==
    ASSUME NEW devices, AtHome(devices), NEW more, NEW i \in Tor,
           \A l \in Tor : l # i => more[l] = devices[l],
           NEW p, p.src = i, Queued(more[i]) = Queued(devices[i]) \ {p}
    PROVE  /\ Waiting(more) = Waiting(devices) \ {p}
           /\ Waiting(devices) \subseteq Packet
           /\ \A q \in Waiting(more) : q.src = i => q \in Queued(more[i])
           /\ p \in Queued(devices[i]) => p \in Waiting(devices)
  <1>1. \A l \in Tor : \A q \in Queued(devices[l]) : q.src = l /\ q \in Packet
    BY QueuedIs DEF AtHome
  <1> HIDE DEF Packet
  <1>2. \A q : q \in Waiting(devices) <=> \E l \in Tor : q \in Queued(devices[l])
    BY DEF Waiting
  <1>3. \A q : q \in Waiting(more) <=> \E l \in Tor : q \in Queued(more[l])
    BY DEF Waiting
  <1>4. \A l \in Tor : Queued(more[l]) = Queued(devices[l]) \ {p}
    BY <1>1
  <1>5. Waiting(more) = Waiting(devices) \ {p}
    BY <1>2, <1>3, <1>4
  <1>6. \A q \in Waiting(more) : q.src = i => q \in Queued(more[i])
    BY <1>1, <1>3, <1>4
  <1> QED  BY <1>1, <1>2, <1>5, <1>6

(* A handler of uplink i has taken a packet and transmits it, or has taken *)
(* none: no packet is lost, and the order is kept.                         *)
LEMMA UplinkServes ==
    ASSUME NEW list \in List(What), NEW devices, NEW ports,
           AtHome(devices), InPorts(ports) \subseteq Packet,
           Line(list, devices, ports),
           NEW i \in Tor, NEW r, Took(devices[i], r),
           NEW w, Pure(devices[i], w), Distinct(w),
           NEW after, after[i] = r.device,
           \A l \in Tor : l # i => after[l] = devices[l]
    PROVE  LET more == FromUplink(list, i, r.sent) IN
           /\ more \in List(What)
           /\ Line(more, after, ports)
           /\ Transit(more, after, ports) = Transit(list, devices, ports)
           /\ r.device \in DeviceState(Packet) => AtHome(after)
           /\ \A q \in Queued(devices[i]) : q # r.sent => q \in Queued(r.device)
  <1> DEFINE more == FromUplink(list, i, r.sent)
             p == r.sent
             A == Waiting(devices)
             B == Flying(list, ToSwitch)
             C == InPorts(ports)
             D == Flying(list, ToTor)
  <1>1. devices[i] \in DeviceState(Packet) /\ NoPacket \notin Packet
    BY FabricAssumption DEF AtHome
  <1>2. CASE p = NoPacket
    <2>1. more = list
      BY <1>2 DEF FromUplink, Transmission
    <2>2. r.device.queues = devices[i].queues
      <3>1. devices[i].queues[devices[i].queue] # <<>>
               => Head(devices[i].queues[devices[i].queue]) \in Packet
        <4>1. devices[i].queues[devices[i].queue] \in Seq(Packet)
          BY <1>1 DEF DeviceState
        <4> HIDE DEF Packet
        <4> QED  BY <4>1
      <3> QED  BY <1>1, <1>2, <3>1 DEF Took
    <2>3. \A l \in Tor : after[l].queues = devices[l].queues
      BY <2>2
    <2>4. Waiting(after) = Waiting(devices)
      BY <2>3 DEF Waiting, Queued
    <2>5. \A l \in Tor : Sorted(devices[l]) => Sorted(after[l])
      BY <2>3 DEF Sorted
    <2>6. Queued(r.device) = Queued(devices[i])
      BY <2>2 DEF Queued
    <2>7. r.device \in DeviceState(Packet) => AtHome(after)
      BY <2>6 DEF AtHome
    <2> QED  BY <2>1, <2>4, <2>5, <2>6, <2>7 DEF Line, Transit
  <1>3. CASE p # NoPacket
    <2> DEFINE u == DevEvent("UplinkComplete", i)
               a == Arrival("ArriveAtSwitch", i, p)
    <2>0. /\ Sorted(r.device) /\ p \in Queued(devices[i])
          /\ Queued(r.device) = Queued(devices[i]) \ {p}
          /\ \A q \in Queued(r.device) : q.dst = p.dst => p.id < q.id
      BY <1>1, <1>3, TookOldest DEF Line
    <2>1. p \in From(i) /\ p \in Packet /\ p.src = i
      BY <1>1, <2>0, QueuedIs DEF From, AtHome
    <2>2. /\ u \in What /\ u \notin ToSwitch /\ u \notin ToTor
          /\ a \in What /\ a \in ToSwitch /\ a \notin ToTor
          /\ a.packet = p
      <3>1. u \in What /\ a \in What
        BY <2>1, UplinkCompleteIn, ArriveAtSwitchIn
      <3>2. u.kind = "UplinkComplete" /\ a.kind = "ArriveAtSwitch" /\ a.packet = p
        BY DEF DevEvent, Arrival
      <3> QED  BY <3>1, <3>2 DEF ToSwitch, ToTor
    <2>4. /\ Waiting(after) = A \ {p} /\ A \subseteq Packet /\ p \in A
          /\ \A q \in Waiting(after) : q.src = i => q \in Queued(after[i])
      BY <2>1, <2>0, WaitingLess
    <2>5. Below({p}, A \ {p})
      BY <2>1, <2>0, <2>4 DEF Below, Channel!SamePair
    <2>6. /\ B \subseteq Packet /\ D \subseteq Packet
      BY FlyingType
    <2>7. Chain(D, C, B, A) /\ C \subseteq Packet
      BY DEF Line
    <2> HIDE DEF A, B, C, D, p
    <2>8. Chain(D, C, B \cup {p}, A \ {p}) /\ Below(B, {p})
      <3>1. /\ A \in SUBSET Packet /\ B \in SUBSET Packet
            /\ C \in SUBSET Packet /\ D \in SUBSET Packet
        BY <2>4, <2>6, <2>7
      <3> QED  BY ONLY <2>1, <2>4, <2>5, <2>7, <3>1, ChainMoves
    <2>9. \A U \in {ToSwitch, ToTor} : Rising(list, U) /\ Punctual(list, U)
      BY DEF Line
    <2>10. \A q \in Flying(list, ToSwitch) : Channel!SamePair(q, a.packet) => q.id < a.packet.id
      BY <2>2, <2>8 DEF Below, B
    <2>11. more = Schedule(Schedule(list, TxTime, u), TxTime + Delay, a)
      BY <1>3 DEF FromUplink, Transmission, p
    <2> HIDE DEF more, u, a
    <2>12. /\ more \in List(What)
           /\ Flying(more, ToSwitch) = B \cup {p}
           /\ Flying(more, ToTor) = D
           /\ \A U \in {ToSwitch, ToTor} : Rising(more, U) /\ Punctual(more, U)
      BY <2>2, <2>9, <2>10, <2>11, TransmissionFlies DEF B, D
    <2>13. \A l \in Tor : Sorted(after[l])
      BY <2>0 DEF Line
    <2>14. Line(more, after, ports)
      BY <2>4, <2>8, <2>12, <2>13 DEF Line, C
    <2>15. Transit(more, after, ports) = Transit(list, devices, ports)
      BY <2>4, <2>12 DEF Transit, A, B, D
    <2>16. r.device \in DeviceState(Packet) => AtHome(after)
      BY <2>0 DEF AtHome
    <2> QED  BY <2>0, <2>12, <2>14, <2>15, <2>16 DEF more, p
  <1> QED  BY <1>2, <1>3
-------------------------------------------------------------------------------
InOrder == Line(events, dev, port)
Carried == Transit(events, dev, port)

(* Every packet under way has a number that was given, a fate that is not  *)
(* settled, and no other packet has its number; a number whose fate is not *)
(* settled is that of a packet under way.                                  *)
Account ==
    /\ \A p \in Carried : p.id <= sends /\ fate[p.id] = "pending"
    /\ \A p, q \in Carried : p.id = q.id => p = q
    /\ \A n \in 1 .. MaxPackets :
          /\ fate[n] = "pending" => \E p \in Carried : p.id = n
          /\ n > sends => fate[n] = "none"

(* What a step does to the packets: some are lost, or none; the oldest of  *)
(* a pair is delivered; a new one is taken or refused.                     *)
Loses ==
    /\ Carried' \subseteq Carried /\ sends' = sends
    /\ \A n \in 1 .. MaxPackets :
          IF \E p \in Carried \ Carried' : p.id = n
          THEN fate'[n] \notin {"none", "pending", "delivered"}
          ELSE fate'[n] = fate[n]
Delivers(p) ==
    /\ p \in Carried /\ Carried' = Carried \ {p} /\ sends' = sends
    /\ \A q \in Carried : Channel!SamePair(p, q) => p.id <= q.id
    /\ fate' = [fate EXCEPT ![p.id] = "delivered"]
Accepts(p) ==
    /\ p.id = sends + 1 /\ sends' = sends + 1
    /\ \/ /\ Carried' = Carried \cup {p}
          /\ fate' = [fate EXCEPT ![p.id] = "pending"]
       \/ /\ Carried' = Carried
          /\ fate' = [fate EXCEPT ![p.id] = "refused"]
Moves == Loses \/ \E p \in Packet : Delivers(p) \/ Accepts(p)

(* What the invariant says of the places where packets are.                *)
LEMMA PlacesAre ==
    ASSUME FInv
    PROVE  /\ events \in List(What)
           /\ \A l \in Tor : /\ dev[l] \in DeviceState(From(l))
                             /\ dev[l] \in DeviceState(Packet)
           /\ AtHome(dev) /\ Waiting(dev) \subseteq Packet
           /\ \A j \in Tor : port[j] \in Port!State(To(j))
           /\ InPorts(port) \subseteq Packet
           /\ \A j \in Tor : \A n \in DOMAIN port[j].queue :
                 /\ port[j].queue[n] \in Packet /\ port[j].queue[n].dst = j
           /\ Flying(events, ToSwitch) \subseteq Packet
           /\ Flying(events, ToTor) \subseteq Packet
           /\ Carried \subseteq Packet
  <1>1. /\ events \in List(What)
        /\ \A l \in Tor : dev[l] \in DeviceState(From(l))
        /\ \A j \in Tor : port[j] \in Port!State(To(j))
    BY DEF FInv, TInv, Uplinks, UplinkInv, Ports, PortInv
  <1>2. AtHome(dev) /\ \A l \in Tor : dev[l] \in DeviceState(Packet)
    BY <1>1, FromState DEF AtHome
  <1>3. Waiting(dev) \subseteq Packet
    BY <1>2, QueuedIs DEF Waiting
  <1>4. \A j \in Tor : \A n \in DOMAIN port[j].queue :
           port[j].queue[n] \in Packet /\ port[j].queue[n].dst = j
    <2> SUFFICES ASSUME NEW j \in Tor, NEW n \in DOMAIN port[j].queue
                 PROVE  port[j].queue[n] \in Packet /\ port[j].queue[n].dst = j
      OBVIOUS
    <2>1. port[j].queue \in Seq(To(j))
      BY <1>1 DEF Port!State
    <2>2. port[j].queue[n] \in To(j)
      BY <2>1, ElementOfSeq
    <2> QED  BY <2>2 DEF To
  <1>5. InPorts(port) \subseteq Packet
    BY <1>4 DEF InPorts
  <1>6. /\ Flying(events, ToSwitch) \subseteq Packet
        /\ Flying(events, ToTor) \subseteq Packet
    BY <1>1, FlyingType
  <1>7. Carried \subseteq Packet
    BY <1>3, <1>5, <1>6 DEF Carried, Transit
  <1> QED  BY <1>1, <1>2, <1>3, <1>4, <1>5, <1>6, <1>7

(* A packet is not in two stages at once.                                  *)
LEMMA StagesDisjoint ==
    ASSUME FInv, InOrder
    PROVE  LET A == Waiting(dev)
               B == Flying(events, ToSwitch)
               C == InPorts(port)
               D == Flying(events, ToTor) IN
           /\ A \cap B = {} /\ A \cap C = {} /\ A \cap D = {}
           /\ B \cap C = {} /\ B \cap D = {} /\ C \cap D = {}
  <1>1. \A p \in Packet : ~(p.id < p.id) /\ Channel!SamePair(p, p)
    BY DEF Packet, Channel!SamePair
  <1> QED  BY <1>1, PlacesAre DEF InOrder, Line, Chain, Below

(* The windows name no ToR twice; before Initialize they name none, and    *)
(* the queues are empty.                                                   *)
LEMMA WindowsDistinct ==
    ASSUME FInv, NEW i \in Tor
    PROVE  /\ rounds # 0 => Distinct(ocs_dest_addr[i])
           /\ \E w : Pure(dev[i], w) /\ Distinct(w)
  <1>1. ASSUME rounds # 0
        PROVE  Distinct(ocs_dest_addr[i])
    <2>1. Scheduled # "Initialize"
      BY <1>1, ScheduledIs DEF FInv
    <2>2. Rotor!Ready /\ i \in Rotor!Tor /\ Slot = Rotor!Slot
      BY <2>1 DEF Rotor!Ready, Rotor!Tor, Tor, Rotor!Slot, Slot
    <2> QED  BY <2>2, RotorAssumption, Rotor!InvDistinct DEF Distinct, FInv
  <1>2. CASE rounds # 0
    BY <1>1, <1>2 DEF FInv, IInv
  <1>3. CASE rounds = 0
    <2> DEFINE w == [k \in Slot |-> k]
    <2>1. Distinct(w)
      BY DEF Distinct
    <2>2. Empty(dev[i])
      BY <1>3 DEF FInv, IInv, Unstarted
    <2>3. Pure(dev[i], w)
      BY <2>2 DEF Pure, Empty
    <2> QED  BY <1>3, <2>1, <2>3
  <1> QED  BY <1>1, <1>2, <1>3

(* The port that a packet is forwarded to has nothing waiting.             *)
LEMMA PortIsFree ==
    ASSUME FInv, HasDue(events), NextEvent(events).kind = "ArriveAtSwitch",
           Forwards(NextEvent(events).at, NextEvent(events).packet)
    PROVE  port[NextEvent(events).packet.dst].queue = <<>>
  <1> DEFINE n == NextEvent(events)
             i == n.at
             p == n.packet
             j == p.dst
  <1>1. /\ n \in What /\ rounds # 0
    BY NextIn DEF CtlKinds
  <1>2. /\ i \in Tor /\ p \in From(i)
        /\ n = Arrival("ArriveAtSwitch", i, p)
    BY <1>1, KindMeans
  <1>3. ~atnight /\ devicesMap[i] = j
    BY DEF Forwards
  <1> HIDE DEF n, i, p, j
  <1>4. n \in AtSwitch(i) /\ events \in List(What)
    BY <1>2, ArriveAtSwitchIn DEF FInv, TInv
  <1>5. ~NoneOf(events, AtSwitch(i))
    BY <1>4, NextNotNone DEF n
  <1>6. Day(events)
    BY <1>1, <1>2, <1>3, <1>5 DEF FInv, TInv, Phase, Night, Over
  <1>7. DoneBy(events, j, port[j], AtSwitch(i))
    BY <1>2, <1>3, <1>6 DEF Day, Circuit
  <1>8. TxTime \in Nat \ {0}
    BY FabricAssumption
  <1>9. port[j].queue = <<>>
    <2>1. ~NotBefore(events, AtSwitch(i), TxTime)
      BY <1>4, <1>8, NextTimes DEF n
    <2> QED  BY <1>7, <2>1 DEF DoneBy
  <1> QED  BY <1>9 DEF n, p, j

(* PointToPointNetDevice::Send, with nothing waiting: what it answers.     *)
LEMMA PortSendAnswers ==
    ASSUME NEW P, NEW d \in Port!State(P), d.queue = <<>>, NEW p \in P
    PROVE  LET r == Port!Send(d, p) IN
           \/ ~r.ok /\ r.device = d /\ r.sent = NoPacket
           \/ r.ok /\ r.sent = p /\ r.device.queue = <<>>
           \/ r.ok /\ r.sent = NoPacket /\ r.device.queue = <<p>>
  <1> DEFINE e == [d EXCEPT !.queue = Append(@, p)]
  <1>1. Append(d.queue, p) = <<p>> /\ Head(<<p>>) = p /\ Tail(<<p>>) = <<>>
    OBVIOUS
  <1>2. e.queue = <<p>> /\ DOMAIN e = DOMAIN d /\ "queue" \in DOMAIN d
    BY <1>1 DEF Port!State
  <1>3. \/ Port!Send(d, p) = Port!Result(d, NoPacket, FALSE)
        \/ Port!Send(d, p) = Port!Serve(e)
        \/ Port!Send(d, p) = Port!Result(e, NoPacket, TRUE)
    BY DEF Port!Send
  <1> DEFINE f == [e EXCEPT !.queue = Tail(@), !.machine = "BUSY",
                            !.current = Head(e.queue)]
  <1>4. Port!Serve(e) = Port!Result(f, Head(e.queue), TRUE)
    BY DEF Port!Serve
  <1>5. f.queue = Tail(e.queue)
    <2> HIDE DEF e
    <2>1. DOMAIN e = {"queue", "machine", "current", "crashed"}
      BY <1>2 DEF Port!State
    <2> QED  BY <2>1
  <1> HIDE DEF e, f
  <1>6. CASE Port!Send(d, p) = Port!Result(d, NoPacket, FALSE)
    BY <1>6 DEF Port!Result
  <1>7. CASE Port!Send(d, p) = Port!Serve(e)
    BY <1>1, <1>2, <1>4, <1>5, <1>7 DEF Port!Result
  <1>8. CASE Port!Send(d, p) = Port!Result(e, NoPacket, TRUE)
    BY <1>2, <1>8 DEF Port!Result
  <1> QED  BY <1>3, <1>6, <1>7, <1>8

(* An event that is no arrival is taken from the list.                     *)
LEMMA RestLine ==
    ASSUME FInv, InOrder, HasDue(events),
           NextEvent(events).kind \notin {"ArriveAtSwitch", "ArriveAtTor"}
    PROVE  LET rest == RemoveNext(events) IN
           /\ rest \in List(What)
           /\ Line(rest, dev, port) /\ Transit(rest, dev, port) = Carried
  <1> DEFINE n == NextEvent(events)
             rest == RemoveNext(events)
  <1>1. /\ events \in List(What) /\ rest \in List(What) /\ n \in What
    BY PlacesAre, NextIn, RemoveNextDoes
  <1>2. n \notin ToSwitch /\ n \notin ToTor
    BY <1>1, ArrivalIn
  <1>3. \A W \in {ToSwitch, ToTor} :
           /\ Flying(rest, W) = Flying(events, W)
           /\ Rising(rest, W) /\ Punctual(rest, W)
    <2> SUFFICES ASSUME NEW W \in {ToSwitch, ToTor}
                 PROVE  /\ Flying(rest, W) = Flying(events, W)
                        /\ Rising(rest, W) /\ Punctual(rest, W)
      OBVIOUS
    <2>1. Rising(events, W) /\ Punctual(events, W) /\ \A e \in W : e.packet \in Packet
      BY <1>1, FlyingType DEF InOrder, Line
    <2>2. Flying(rest, W) = Flying(events, W) /\ Rising(rest, W)
      BY <1>1, <1>2, <2>1, RemoveFlying
    <2>3. Punctual(rest, W)
      BY <1>1, <2>1, KeepPunctual
    <2> QED  BY <2>2, <2>3
  <1>4. Line(rest, dev, port)
    BY <1>3 DEF InOrder, Line
  <1>5. Transit(rest, dev, port) = Carried
    BY <1>3 DEF Transit, Carried
  <1> QED  BY <1>1, <1>4, <1>5

(* Nothing is lost if nothing changes.                                     *)
LEMMA NothingLost ==
    ASSUME Carried' = Carried, UNCHANGED <<sends, fate>>
    PROVE  Moves
  BY DEF Moves, Loses

(* Time passes.                                                            *)
LEMMA TickMoves ==
    ASSUME FInv, InOrder, Tick
    PROVE  InOrder' /\ Moves
  <1>1. /\ events' = Elapse(events) /\ ~HasDue(events) /\ events \in List(What)
        /\ UNCHANGED <<dev, port, sends, fate>>
    BY PlacesAre DEF Tick
  <1>2. \A W \in {ToSwitch, ToTor} :
           /\ Flying(events', W) = Flying(events, W)
           /\ Rising(events', W) /\ Punctual(events', W)
    BY <1>1, ElapseFlying DEF InOrder, Line
  <1>3. InOrder'
    BY <1>1, <1>2 DEF InOrder, Line
  <1>4. Carried' = Carried
    BY <1>1, <1>2 DEF Carried, Transit
  <1> QED  BY <1>1, <1>3, <1>4, NothingLost

(* A completion at an uplink, which may go on with the next packet.        *)
LEMMA UplinkCompleteMoves ==
    ASSUME FInv, InOrder, UplinkComplete
    PROVE  InOrder' /\ Moves
  <1> DEFINE n == NextEvent(events)
             i == n.at
             r == TransmitComplete(dev[i])
             rest == RemoveNext(events)
  <1>1. /\ HasDue(events) /\ n.kind = "UplinkComplete"
        /\ dev' = [dev EXCEPT ![i] = r.device]
        /\ events' = FromUplink(rest, i, r.sent)
        /\ UNCHANGED <<port, sends, fate>>
    BY DEF UplinkComplete, NextIs
  <1>2. n \in What
    BY <1>1, NextIn
  <1>3. i \in Tor /\ n = DevEvent("UplinkComplete", i)
    BY <1>1, <1>2, KindMeans
  <1>4. /\ rest \in List(What)
        /\ Line(rest, dev, port) /\ Transit(rest, dev, port) = Carried
    BY <1>1, RestLine
  <1> HIDE DEF n, i, r, rest
  <1>5. n \in UpDone(i)
    BY <1>3, UplinkCompleteIn
  <1>6. UplinkInv(events, i, dev[i]) /\ events \in List(What)
    BY <1>3 DEF FInv, TInv, Uplinks
  <1>7. dev[i].machine = "BUSY" /\ dev[i].current # NoPacket
    BY <1>1, <1>5, <1>6, RestUplink DEF n
  <1>8. dev[i] \in DeviceState(Packet)
    BY <1>3, PlacesAre
  <1>9. Took(dev[i], r)
    BY <1>7, <1>8, CompleteTakes DEF r
  <1>10. PICK w : Pure(dev[i], w) /\ Distinct(w)
    BY <1>3, WindowsDistinct
  <1>11. dev'[i] = r.device /\ \A l \in Tor : l # i => dev'[l] = dev[l]
    <2>1. dev \in [Tor -> DeviceState(Packet)]
      BY DEF FInv, IInv
    <2> QED  BY <1>1, <1>3, <2>1
  <1>12. AtHome(dev) /\ InPorts(port) \subseteq Packet
    BY PlacesAre
  <1>13. /\ Line(events', dev', port)
         /\ Transit(events', dev', port) = Transit(rest, dev, port)
    <2>1. PICK after : after = dev'
      OBVIOUS
    <2>2. /\ Line(FromUplink(rest, i, r.sent), after, port)
          /\ Transit(FromUplink(rest, i, r.sent), after, port)
                = Transit(rest, dev, port)
      BY <1>3, <1>4, <1>9, <1>10, <1>11, <1>12, <2>1, UplinkServes
    <2> QED  BY <1>1, <2>1, <2>2
  <1>14. InOrder' /\ Carried' = Carried
    BY <1>1, <1>4, <1>13 DEF InOrder, Carried
  <1> QED  BY <1>1, <1>14, NothingLost

(* The packets behind the transmitter of a port, none or one.              *)
Behind(d) == {d.queue[n] : n \in DOMAIN d.queue}
LEMMA BehindIs ==
    ASSUME NEW d
    PROVE  /\ d.queue = <<>> => Behind(d) = {}
           /\ \A p : d.queue = <<p>> => Behind(d) = {p}
  <1>1. DOMAIN <<>> = {} /\ \A p : DOMAIN <<p>> = {1} /\ <<p>>[1] = p
    OBVIOUS
  <1> QED  BY <1>1 DEF Behind

(* The queues of the ports when one changes.                               *)
LEMMA PortQueue ==
    ASSUME FInv, NEW j \in Tor, NEW ports,
           \A l \in Tor : l # j => ports[l] = port[l]
    PROVE  /\ InPorts(ports) = (InPorts(port) \ Behind(port[j])) \cup Behind(ports[j])
           /\ \A q \in InPorts(port) : q.dst = j <=> q \in Behind(port[j])
           /\ Behind(port[j]) \subseteq InPorts(port)
  <1>1. \A q : q \in InPorts(port) <=> \E l \in Tor : q \in Behind(port[l])
    BY DEF InPorts, Behind
  <1>2. \A q : q \in InPorts(ports) <=> \E l \in Tor : q \in Behind(ports[l])
    BY DEF InPorts, Behind
  <1>3. \A l \in Tor : \A q \in Behind(port[l]) : q.dst = l
    BY PlacesAre DEF Behind
  <1>4. \A q \in InPorts(port) : q.dst = j <=> q \in Behind(port[j])
    BY <1>1, <1>3
  <1>5. \A q : q \in InPorts(ports) <=>
           q \in Behind(ports[j]) \/ \E l \in Tor \ {j} : q \in Behind(port[l])
    BY <1>2
  <1>6. \A q : q \in InPorts(port) \ Behind(port[j]) <=>
           \E l \in Tor \ {j} : q \in Behind(port[l])
    BY <1>1, <1>3
  <1>7. InPorts(ports) = (InPorts(port) \ Behind(port[j])) \cup Behind(ports[j])
    BY <1>5, <1>6
  <1> QED  BY <1>1, <1>4, <1>7

(* A port has transmitted a packet; it goes on with the one that waits.    *)
LEMMA PortCompleteMoves ==
    ASSUME FInv, InOrder, PortComplete
    PROVE  InOrder' /\ Moves
  <1> DEFINE n == NextEvent(events)
             j == n.at
             d == port[j]
             r == Port!TransmitComplete(d)
             rest == RemoveNext(events)
             more == FromPort(rest, j, r.sent)
             ports == [port EXCEPT ![j] = r.device]
             A == Waiting(dev)
             B == Flying(rest, ToSwitch)
             C == InPorts(port)
             D == Flying(rest, ToTor)
  <1>1. /\ HasDue(events) /\ n.kind = "PortComplete"
        /\ port' = ports /\ events' = more
        /\ UNCHANGED <<dev, sends, fate>>
    BY DEF PortComplete, NextIs
  <1>2. n \in What
    BY <1>1, NextIn
  <1>3. j \in Tor /\ n = DevEvent("PortComplete", j)
    BY <1>1, <1>2, KindMeans
  <1>4. /\ rest \in List(What)
        /\ Line(rest, dev, port) /\ Transit(rest, dev, port) = Carried
    BY <1>1, RestLine
  <1> HIDE DEF n, j, rest, d
  <1>5. n \in PortDone(j)
    BY <1>3, PortCompleteIn
  <1>6. PortInv(events, j, d) /\ events \in List(What)
    BY <1>3 DEF FInv, TInv, Ports, d
  <1>7. /\ d.machine = "BUSY" /\ d.current # NoPacket /\ Len(d.queue) <= 1
        /\ d \in Port!State(To(j)) /\ NoPacket \notin To(j)
    BY <1>1, <1>5, <1>6, RestPort, FabricAssumption DEF n, PortInv, To
  <1>8. /\ r.device.queue = <<>>
        /\ d.queue = <<>> => r.sent = NoPacket
        /\ d.queue # <<>> => r.sent = d.queue[1] /\ r.sent \in To(j)
                             /\ d.queue = <<r.sent>>
    <2>1. d.queue # <<>> => d.queue = <<d.queue[1]>>
      BY <1>7, OneElement DEF Port!State
    <2> QED  BY <1>7, <2>1, PortCompleteDoes
  <1> HIDE DEF r
  <1>9. /\ A \subseteq Packet /\ B \subseteq Packet /\ C \subseteq Packet
        /\ D \subseteq Packet /\ Chain(D, C, B, A)
        /\ \A l \in Tor : Sorted(dev[l])
        /\ \A U \in {ToSwitch, ToTor} : Rising(rest, U) /\ Punctual(rest, U)
    BY <1>4, PlacesAre, FlyingType DEF Line
  <1>0. /\ InPorts(ports) = (C \ Behind(d)) \cup Behind(r.device)
        /\ \A q \in C : q.dst = j <=> q \in Behind(d)
        /\ Behind(d) \subseteq C /\ Behind(r.device) = {}
    <2>1. /\ ports[j] = r.device
          /\ \A l \in Tor : l # j => ports[l] = port[l]
      BY <1>3 DEF FInv, Stock
    <2> HIDE DEF ports
    <2> QED  BY <1>3, <1>8, <2>1, BehindIs, PortQueue DEF d
  <1>10. CASE d.queue = <<>>
    <2>1. more = rest
      BY <1>8, <1>10 DEF FromPort, Transmission
    <2>2. InPorts(ports) = C
      BY <1>0, <1>10, BehindIs
    <2> HIDE DEF more, ports
    <2>3. Line(more, dev, ports) /\ Transit(more, dev, ports) = Carried
      BY <1>4, <2>1, <2>2 DEF Line, Transit
    <2>4. InOrder' /\ Carried' = Carried
      BY <1>1, <2>3 DEF InOrder, Carried
    <2> QED  BY <1>1, <2>4, NothingLost
  <1>11. CASE d.queue # <<>>
    <2> DEFINE p == r.sent
               u == DevEvent("PortComplete", j)
               a == Arrival("ArriveAtTor", j, p)
    <2>1. p \in To(j) /\ p \in Packet /\ p.dst = j /\ p # NoPacket
      BY <1>7, <1>8, <1>11 DEF To
    <2>2. /\ u \in What /\ u \notin ToSwitch /\ u \notin ToTor
          /\ a \in What /\ a \in ToTor /\ a \notin ToSwitch
          /\ a.packet = p
      <3>1. u \in What /\ a \in What
        BY <1>3, <2>1, PortCompleteIn, ArriveAtTorIn
      <3>2. u.kind = "PortComplete" /\ a.kind = "ArriveAtTor" /\ a.packet = p
        BY DEF DevEvent, Arrival
      <3> QED  BY <3>1, <3>2 DEF ToSwitch, ToTor
    <2>3. more = Schedule(Schedule(rest, TxTime, u), TxTime + Delay, a)
      BY <2>1 DEF FromPort, Transmission
    <2> HIDE DEF p, u, a, more
    <2>4. /\ p \in C /\ InPorts(ports) = C \ {p}
          /\ \A q \in C : q.dst = j => q = p
      <3>1. Behind(d) = {p}
        BY <1>8, <1>11, BehindIs DEF p
      <3> HIDE DEF C, ports
      <3> QED  BY <1>0, <3>1
    <2> HIDE DEF A, B, C, D
    <2>5. Below({p}, C \ {p})
      BY <2>1, <2>4 DEF Below, Channel!SamePair
    <2>6. Chain(D \cup {p}, C \ {p}, B, A) /\ Below(D, {p})
      <3>1. /\ A \in SUBSET Packet /\ B \in SUBSET Packet
            /\ C \in SUBSET Packet /\ D \in SUBSET Packet
        BY <1>9
      <3> QED  BY ONLY <1>9, <2>1, <2>4, <2>5, <3>1, ChainMoves
    <2>7. \A q \in Flying(rest, ToTor) : Channel!SamePair(q, a.packet) => q.id < a.packet.id
      BY <2>2, <2>6 DEF Below, D
    <2>8. /\ more \in List(What)
          /\ Flying(more, ToTor) = D \cup {p}
          /\ Flying(more, ToSwitch) = B
          /\ \A U \in {ToTor, ToSwitch} : Rising(more, U) /\ Punctual(more, U)
      BY <1>4, <1>9, <2>2, <2>3, <2>7, TransmissionFlies DEF B, D
    <2> HIDE DEF ports
    <2>9. Line(more, dev, ports)
      BY <1>9, <2>4, <2>6, <2>8 DEF Line, A
    <2>10. Transit(more, dev, ports) = Carried
      BY <1>4, <2>4, <2>8 DEF Transit, A, B, C, D
    <2>11. InOrder' /\ Carried' = Carried
      BY <1>1, <2>9, <2>10 DEF InOrder, Carried, more
    <2> QED  BY <1>1, <2>11, NothingLost
  <1> QED  BY <1>10, <1>11

(* The first arrival of a class is taken from the list.                    *)
LEMMA RestArrival ==
    ASSUME FInv, InOrder, HasDue(events), NEW W \in {ToSwitch, ToTor},
           NEW V \in {ToSwitch, ToTor} \ {W}, NextEvent(events) \in W
    PROVE  LET rest == RemoveNext(events)
               p == NextEvent(events).packet IN
           /\ rest \in List(What) /\ p \in Packet
           /\ \A U \in {ToSwitch, ToTor} : Rising(rest, U) /\ Punctual(rest, U)
           /\ Flying(rest, V) = Flying(events, V)
           /\ p \in Flying(events, W) /\ Flying(rest, W) = Flying(events, W) \ {p}
           /\ Below({p}, Flying(events, W) \ {p})
  <1> DEFINE n == NextEvent(events)
             p == n.packet
             rest == RemoveNext(events)
  <1>1. /\ events \in List(What) /\ rest \in List(What) /\ n \in What
    BY PlacesAre, NextIn, RemoveNextDoes
  <1>2. n \notin V /\ p \in Packet
    BY <1>1, ArrivalIn
  <1>3. \A U \in {ToSwitch, ToTor} :
           /\ Rising(events, U) /\ Punctual(events, U)
           /\ \A e \in U : e.packet \in Packet
    BY <1>1, FlyingType DEF InOrder, Line
  <1> HIDE DEF rest, n, p
  <1>4. \A U \in {ToSwitch, ToTor} : Rising(rest, U) /\ Punctual(rest, U)
    BY <1>1, <1>3, RemoveFlying, KeepPunctual DEF rest
  <1>5. Flying(rest, V) = Flying(events, V)
    BY <1>1, <1>2, <1>3, RemoveFlying DEF rest, n
  <1>6. Spaced(events, W, 0)
    BY <1>3 DEF Punctual
  <1>7. /\ p \in Flying(events, W) /\ Flying(rest, W) = Flying(events, W) \ {p}
        /\ \A q \in Flying(rest, W) : Channel!SamePair(p, q) => p.id < q.id
    BY <1>1, <1>3, <1>6, RemoveFlying DEF rest, n, p
  <1>8. Below({p}, Flying(events, W) \ {p})
    BY <1>7 DEF Below
  <1> QED  BY <1>1, <1>2, <1>4, <1>5, <1>7, <1>8 DEF rest, n, p

(* A packet reaches its ToR: no older one of its pair is under way.        *)
LEMMA ArriveAtTorMoves ==
    ASSUME FInv, InOrder, ArriveAtTor
    PROVE  InOrder' /\ Moves
  <1> DEFINE n == NextEvent(events)
             p == n.packet
             rest == RemoveNext(events)
             A == Waiting(dev)
             B == Flying(events, ToSwitch)
             C == InPorts(port)
             D == Flying(events, ToTor)
  <1>1. /\ HasDue(events) /\ n.kind = "ArriveAtTor"
        /\ fate' = [fate EXCEPT ![p.id] = "delivered"]
        /\ events' = rest
        /\ UNCHANGED <<dev, port, sends>>
    BY DEF ArriveAtTor, NextIs
  <1>2. n \in ToTor /\ ToSwitch \in {ToSwitch, ToTor} \ {ToTor}
    <2>1. n \in What
      BY <1>1, NextIn
    <2>2. n \in ToTor
      BY <1>1, <2>1 DEF ToTor
    <2>3. n \notin ToSwitch
      BY <2>1, <2>2, ArrivalIn
    <2> QED  BY <2>2, <2>3
  <1>3. /\ rest \in List(What) /\ p \in Packet
        /\ \A U \in {ToSwitch, ToTor} : Rising(rest, U) /\ Punctual(rest, U)
        /\ Flying(rest, ToSwitch) = B
        /\ p \in D /\ Flying(rest, ToTor) = D \ {p}
        /\ Below({p}, D \ {p})
    BY <1>1, <1>2, RestArrival
  <1>4. /\ A \subseteq Packet /\ B \subseteq Packet /\ C \subseteq Packet
        /\ D \subseteq Packet /\ Chain(D, C, B, A)
        /\ \A l \in Tor : Sorted(dev[l])
    BY PlacesAre DEF InOrder, Line
  <1>5. A \cap D = {} /\ B \cap D = {} /\ C \cap D = {}
    BY StagesDisjoint
  <1>6. Carried = A \cup C \cup B \cup D
    BY DEF Carried, Transit
  <1> HIDE DEF n, p, rest
  <1>7. Transit(rest, dev, port) = A \cup C \cup B \cup (D \ {p})
    BY <1>3 DEF Transit
  <1> HIDE DEF A, B, C, D
  <1>8. Chain(D \ {p}, C, B, A)
    <2>1. /\ A \in SUBSET Packet /\ B \in SUBSET Packet
          /\ C \in SUBSET Packet /\ D \in SUBSET Packet
      BY <1>4
    <2> QED  BY ONLY <1>3, <1>4, <2>1, ChainMoves
  <1>9. Line(rest, dev, port)
    BY <1>3, <1>4, <1>8 DEF Line, A, B, C, D
  <1>10. InOrder' /\ Carried' = Carried \ {p}
    BY <1>1, <1>3, <1>5, <1>6, <1>7, <1>9 DEF InOrder, Carried
  <1>11. \A q \in Carried : Channel!SamePair(p, q) => p.id <= q.id
    <2>1. p.id \in Int /\ \A q \in Carried : q.id \in Int
      BY <1>3, PlacesAre DEF Packet
    <2> QED  BY <1>3, <1>4, <1>6, <2>1 DEF Chain, Below
  <1>12. Delivers(p)
    BY <1>1, <1>3, <1>6, <1>10, <1>11 DEF Delivers
  <1> QED  BY <1>3, <1>10, <1>12 DEF Moves

(* One packet is lost.                                                     *)
LEMMA LosesOne ==
    ASSUME FInv, NEW p \in Carried, NEW f, f \notin {"none", "pending", "delivered"},
           Carried' = Carried \ {p}, sends' = sends,
           fate' = [fate EXCEPT ![p.id] = f]
    PROVE  Moves
  <1>1. fate \in [1 .. MaxPackets -> Fates] /\ p.id \in 1 .. MaxPackets
    BY PlacesAre DEF FInv, Stock, Packet
  <1>2. Carried' \subseteq Carried /\ \A q : q \in Carried \ Carried' <=> q = p
    OBVIOUS
  <1>3. \A n \in 1 .. MaxPackets : fate'[n] = IF n = p.id THEN f ELSE fate[n]
    BY <1>1
  <1>4. Loses
    BY <1>2, <1>3 DEF Loses
  <1> QED  BY <1>4 DEF Moves

(* A packet reaches the switch: it is dropped, or goes on to the port of   *)
(* its ToR, where none waits.                                              *)
LEMMA ArriveAtSwitchMoves ==
    ASSUME FInv, InOrder, ArriveAtSwitch
    PROVE  InOrder' /\ Moves
  <1> DEFINE n == NextEvent(events)
             i == n.at
             p == n.packet
             j == p.dst
             r == Port!Send(port[j], p)
             rest == RemoveNext(events)
             more == FromPort(rest, j, r.sent)
             e == r.device
             ports == [port EXCEPT ![j] = e]
             A == Waiting(dev)
             B == Flying(events, ToSwitch)
             C == InPorts(port)
             D == Flying(events, ToTor)
  <1>1. /\ HasDue(events) /\ n.kind = "ArriveAtSwitch"
        /\ \/ /\ Forwards(i, p)
              /\ port' = ports /\ events' = more
              /\ fate' = IF r.ok THEN fate
                         ELSE [fate EXCEPT ![p.id] = "dropped at port"]
           \/ /\ ~Forwards(i, p)
              /\ fate' = [fate EXCEPT
                            ![p.id] = IF atnight THEN "dropped at night"
                                      ELSE "dropped: no circuit"]
              /\ events' = rest /\ UNCHANGED port
        /\ UNCHANGED <<dev, sends>>
    BY DEF ArriveAtSwitch, NextIs
  <1>2. n \in ToSwitch /\ ToTor \in {ToSwitch, ToTor} \ {ToSwitch}
    <2>1. n \in What
      BY <1>1, NextIn
    <2>2. n \in ToSwitch
      BY <1>1, <2>1 DEF ToSwitch
    <2>3. n \notin ToTor
      BY <2>1, <2>2, ArrivalIn
    <2> QED  BY <2>2, <2>3
  <1>3. /\ rest \in List(What) /\ p \in Packet
        /\ \A U \in {ToSwitch, ToTor} : Rising(rest, U) /\ Punctual(rest, U)
        /\ Flying(rest, ToTor) = D
        /\ p \in B /\ Flying(rest, ToSwitch) = B \ {p}
        /\ Below({p}, B \ {p})
    BY <1>1, <1>2, RestArrival
  <1>4. /\ A \subseteq Packet /\ B \subseteq Packet /\ C \subseteq Packet
        /\ D \subseteq Packet /\ Chain(D, C, B, A)
        /\ \A l \in Tor : Sorted(dev[l])
    BY PlacesAre DEF InOrder, Line
  <1>5. A \cap B = {} /\ B \cap C = {} /\ B \cap D = {}
    BY StagesDisjoint
  <1>6. Carried = A \cup C \cup B \cup D /\ p \in Carried
    BY <1>3 DEF Carried, Transit
  <1>7. j \in Tor /\ p \in To(j) /\ p # NoPacket
    BY <1>3, FabricAssumption DEF Packet, To
  <1>8. Forwards(i, p) => port[j].queue = <<>>
    BY <1>1, PortIsFree
  <1> HIDE DEF n, i, p, j, rest
  <1>9. /\ A \in SUBSET Packet /\ B \in SUBSET Packet
        /\ C \in SUBSET Packet /\ D \in SUBSET Packet
    BY <1>4
  <1>10. Chain(D, C \cup {p}, B \ {p}, A) /\ Chain(D, C, B \ {p}, A)
    <2> HIDE DEF A, B, C, D
    <2> QED  BY ONLY <1>3, <1>4, <1>9, ChainMoves
  <1>11. /\ Line(rest, dev, port)
         /\ Transit(rest, dev, port) = Carried \ {p}
    BY <1>3, <1>4, <1>5, <1>6, <1>10 DEF Line, Transit
  <1>12. CASE ~Forwards(i, p)
    <2> DEFINE f == IF atnight THEN "dropped at night" ELSE "dropped: no circuit"
    <2>1. InOrder' /\ Carried' = Carried \ {p}
      BY <1>1, <1>11, <1>12 DEF InOrder, Carried
    <2>2. /\ f \notin {"none", "pending", "delivered"} /\ sends' = sends
          /\ fate' = [fate EXCEPT ![p.id] = f]
      BY <1>1, <1>12
    <2> HIDE DEF f
    <2> QED  BY <1>6, <2>1, <2>2, LosesOne
  <1>13. CASE Forwards(i, p)
    <2>1. /\ port' = ports /\ events' = more
          /\ fate' = IF r.ok THEN fate ELSE [fate EXCEPT ![p.id] = "dropped at port"]
          /\ dev' = dev /\ sends' = sends
      BY <1>1, <1>13
    <2>2. port[j].queue = <<>> /\ port[j] \in Port!State(To(j))
      BY <1>7, <1>8, <1>13, PlacesAre
    <2>3. \/ ~r.ok /\ e = port[j] /\ r.sent = NoPacket
          \/ r.ok /\ r.sent = p /\ e.queue = <<>>
          \/ r.ok /\ r.sent = NoPacket /\ e.queue = <<p>>
      BY <1>7, <2>2, PortSendAnswers
    <2>4. /\ ports = [port EXCEPT ![j] = e] /\ port \in [Tor -> Port!State(Packet)]
          /\ ports[j] = e /\ \A l \in Tor : l # j => ports[l] = port[l]
      BY <1>7 DEF FInv, Stock
    <2> HIDE DEF r, e, more, ports
    <2>8. InPorts(ports) = C \cup Behind(e) /\ \A q \in C : q.dst # j
      <3>1. Behind(port[j]) = {}
        BY <2>2, BehindIs
      <3> HIDE DEF A, B, C, D
      <3>2. /\ InPorts(ports) = (InPorts(port) \ Behind(port[j])) \cup Behind(ports[j])
            /\ \A q \in InPorts(port) : q.dst = j <=> q \in Behind(port[j])
        BY <1>7, <2>4, PortQueue
      <3> QED  BY <2>4, <3>1, <3>2 DEF C
    <2>5. CASE ~r.ok /\ e = port[j] /\ r.sent = NoPacket
      <3>1. ports = port /\ more = rest
        BY <2>4, <2>5 DEF FromPort, Transmission, more
      <3>2. InOrder' /\ Carried' = Carried \ {p}
        BY <1>11, <2>1, <3>1 DEF InOrder, Carried
      <3> DEFINE f == "dropped at port"
      <3>3. /\ f \notin {"none", "pending", "delivered"} /\ sends' = sends
            /\ fate' = [fate EXCEPT ![p.id] = f]
        BY <2>1, <2>5
      <3> HIDE DEF f
      <3> QED  BY <1>6, <3>2, <3>3, LosesOne
    <2>6. CASE r.ok /\ r.sent = p /\ e.queue = <<>>
      <3> DEFINE u == DevEvent("PortComplete", j)
                 a == Arrival("ArriveAtTor", j, p)
      <3>1. /\ u \in What /\ u \notin ToSwitch /\ u \notin ToTor
            /\ a \in What /\ a \in ToTor /\ a \notin ToSwitch
            /\ a.packet = p
        <4>1. u \in What /\ a \in What
          BY <1>7, PortCompleteIn, ArriveAtTorIn
        <4>2. u.kind = "PortComplete" /\ a.kind = "ArriveAtTor" /\ a.packet = p
          BY DEF DevEvent, Arrival
        <4> QED  BY <4>1, <4>2 DEF ToSwitch, ToTor
      <3>2. more = Schedule(Schedule(rest, TxTime, u), TxTime + Delay, a)
        BY <1>7, <2>6 DEF FromPort, Transmission, more
      <3> HIDE DEF u, a
      <3>3. InPorts(ports) = C /\ \A q \in C : q.dst # j
        BY <2>6, <2>8, BehindIs
      <3> HIDE DEF A, B, C, D
      <3>4. Below({p}, C)
        BY <1>7, <3>3 DEF Below, Channel!SamePair, To, j
      <3>5. Chain(D \cup {p}, C, B \ {p}, A) /\ Below(D, {p})
        BY ONLY <1>3, <1>4, <1>9, <3>4, ChainMoves
      <3>6. \A q \in Flying(rest, ToTor) : Channel!SamePair(q, a.packet) => q.id < a.packet.id
        BY <1>3, <3>1, <3>5 DEF Below
      <3>7. /\ more \in List(What)
            /\ Flying(more, ToTor) = D \cup {p}
            /\ Flying(more, ToSwitch) = B \ {p}
            /\ \A U \in {ToTor, ToSwitch} : Rising(more, U) /\ Punctual(more, U)
        BY <1>3, <3>1, <3>2, <3>6, TransmissionFlies
      <3>8. Line(more, dev, ports)
        BY <1>4, <3>3, <3>5, <3>7 DEF Line, A
      <3>9. Transit(more, dev, ports) = Carried
        BY <1>3, <1>6, <3>3, <3>7 DEF Transit, A
      <3>10. InOrder' /\ Carried' = Carried
        BY <2>1, <3>8, <3>9 DEF InOrder, Carried
      <3> QED  BY <2>1, <2>6, <3>10, NothingLost
    <2>7. CASE r.ok /\ r.sent = NoPacket /\ e.queue = <<p>>
      <3>1. more = rest
        BY <2>7 DEF FromPort, Transmission, more
      <3>2. InPorts(ports) = C \cup {p}
        BY <2>7, <2>8, BehindIs
      <3>3. Line(more, dev, ports)
        BY <1>3, <1>4, <1>10, <3>1, <3>2 DEF Line
      <3>4. Transit(more, dev, ports) = Carried
        BY <1>3, <1>6, <3>1, <3>2 DEF Transit
      <3>5. InOrder' /\ Carried' = Carried
        BY <2>1, <3>3, <3>4 DEF InOrder, Carried
      <3> QED  BY <2>1, <2>7, <3>5, NothingLost
    <2> QED  BY <2>3, <2>5, <2>6, <2>7
  <1> QED  BY <1>12, <1>13

(* A packet is put where the window has its destination.                   *)
LEMMA PutPure ==
    ASSUME NEW d \in DeviceState(Packet), NEW p \in Packet, NEW k \in Slot,
           NEW e, Put(d, p, k, e), NEW w, Pure(d, w), w[k] = p.dst
    PROVE  Pure(e, w)
  <1> DEFINE q == d.queues[k]
  <1>1. q \in Seq(Packet) /\ d.queues \in [Slot -> Seq(Packet)]
    BY DEF DeviceState
  <1>2. \A l \in Slot : e.queues[l] = IF l = k THEN Append(q, p) ELSE d.queues[l]
    BY <1>1 DEF Put
  <1> HIDE DEF q
  <1>3. \A n \in DOMAIN Append(q, p) :
           IF n \in DOMAIN q THEN Append(q, p)[n] = q[n] ELSE Append(q, p)[n] = p
    BY <1>1
  <1> SUFFICES ASSUME NEW l \in Slot, NEW n \in DOMAIN e.queues[l]
               PROVE  e.queues[l][n].dst = w[l]
    BY DEF Pure
  <1>4. CASE l # k
    BY <1>2, <1>4 DEF Pure
  <1>5. CASE l = k
    <2>1. e.queues[l] = Append(q, p) /\ n \in DOMAIN Append(q, p)
      BY <1>2, <1>5
    <2>2. n \in DOMAIN q => q[n].dst = w[k]
      BY DEF Pure, q
    <2> QED  BY <1>3, <1>5, <2>1, <2>2
  <1> QED  BY <1>4, <1>5

(* The hosts send a packet, the newest of all: it goes behind the others,  *)
(* or is refused.                                                          *)
LEMMA SendOpticalMoves ==
    ASSUME FInv, InOrder, Account,
           NEW i \in Senders, NEW j \in Tor, SendOptical(i, j)
    PROVE  InOrder' /\ Moves
  <1>1. PICK k \in GetQueueIdx(i, j) :
          LET p == [src |-> i, dst |-> j, id |-> sends + 1]
              result == Send(dev[i], p, k)
              kept == p \in Queued(result.device) \/ result.sent = p IN
          /\ dev' = [dev EXCEPT ![i] = result.device]
          /\ events' = FromUplink(events, i, result.sent)
          /\ fate' = [fate EXCEPT
                        ![p.id] = IF kept THEN "pending" ELSE "refused"]
    BY DEF SendOptical
  <1> DEFINE p == [src |-> i, dst |-> j, id |-> sends + 1]
             d == dev[i]
             r == Send(d, p, k)
             kept == p \in Queued(r.device) \/ r.sent = p
             more == FromUplink(events, i, r.sent)
             w == ocs_dest_addr[i]
  <1>2. /\ dev' = [dev EXCEPT ![i] = r.device] /\ events' = more
        /\ fate' = [fate EXCEPT ![p.id] = IF kept THEN "pending" ELSE "refused"]
        /\ sends' = sends + 1 /\ port' = port /\ rounds # 0
    <2>1. /\ sends' = sends + 1 /\ port' = port /\ rounds # 0
      BY DEF SendOptical, FInv, IInv
    <2> QED  BY <1>1, <2>1
  <1>3. /\ i \in Tor /\ p \in Packet /\ k \in Slot /\ w[k] = p.dst
        /\ p.src = i /\ p.id = sends + 1
    <2>1. sends \in Nat /\ sends < MaxPackets /\ i \in Tor
      BY FabricAssumption DEF SendOptical, FInv, IInv
    <2>2. sends + 1 \in 1 .. MaxPackets
      BY <2>1, FabricAssumption
    <2>3. p \in Packet
      BY <2>1, <2>2 DEF Packet
    <2>4. k \in Slot /\ w[k] = j
      BY DEF GetQueueIdx
    <2> QED  BY <2>1, <2>3, <2>4
  <1>4. sends \in Int /\ \A q \in Carried : q.id \in Int /\ q.id < p.id
    <2>1. sends \in Int
      BY DEF FInv, IInv
    <2>2. \A q \in Carried : q.id \in Int
      BY PlacesAre DEF Packet
    <2>3. \A q \in Carried : q.id <= sends
      BY DEF Account
    <2> HIDE DEF p
    <2> QED  BY <1>3, <2>1, <2>2, <2>3
  <1> HIDE DEF p
  <1>5. p \notin Carried /\ p # NoPacket
    BY <1>3, <1>4, FabricAssumption
  <1>6. /\ d \in DeviceState(Packet) /\ Pure(d, w) /\ Distinct(w)
        /\ Sorted(d) /\ Queued(d) \subseteq Waiting(dev)
        /\ Waiting(dev) \subseteq Carried
    <2>1. Pure(d, w) /\ Sorted(d) /\ Queued(d) \subseteq Waiting(dev)
      BY <1>3 DEF FInv, IInv, InOrder, Line, Waiting
    <2> QED  BY <1>2, <1>3, <2>1, PlacesAre, WindowsDistinct DEF Carried, Transit
  <1>7. dev \in [Tor -> DeviceState(Packet)]
    BY DEF FInv, IInv
  <1>8. /\ AtHome(dev) /\ InPorts(port) \subseteq Packet
        /\ events \in List(What)
    BY PlacesAre
  <1>9. \/ r.sent = NoPacket /\ r.device = d
        \/ \E e : Put(d, p, k, e) /\ Took(e, r)
    BY <1>3, <1>6, SendPuts
  <1> HIDE DEF r, d, more, w
  <1>10. CASE r.sent = NoPacket /\ r.device = d
    <2>1. ~kept
      BY <1>5, <1>6, <1>10
    <2>2. dev' = dev /\ events' = events
      BY <1>2, <1>3, <1>7, <1>10 DEF d, more, FromUplink, Transmission
    <2>3. InOrder' /\ Carried' = Carried
      BY <1>2, <2>2 DEF InOrder, Carried
    <2>4. Accepts(p)
      BY <1>2, <1>3, <2>1, <2>3 DEF Accepts
    <2> QED  BY <1>3, <2>3, <2>4 DEF Moves
  <1>11. CASE \E e : Put(d, p, k, e) /\ Took(e, r)
    <2>1. PICK e : Put(d, p, k, e) /\ Took(e, r)
      BY <1>11
    <2> DEFINE devices == [dev EXCEPT ![i] = e]
               A == Waiting(dev)
               B == Flying(events, ToSwitch)
               C == InPorts(port)
               D == Flying(events, ToTor)
    <2>2. /\ Sorted(e) /\ Queued(e) = Queued(d) \cup {p} /\ Pure(e, w)
          /\ e \in DeviceState(Packet)
      <3>1. \A q \in Queued(d) : q.id < p.id
        BY <1>4, <1>6
      <3>2. Sorted(e) /\ Queued(e) = Queued(d) \cup {p}
        BY <1>3, <1>6, <2>1, <3>1, PutLast
      <3>3. Pure(e, w)
        BY <1>3, <1>6, <2>1, PutPure
      <3> QED  BY <2>1, <3>2, <3>3 DEF Put
    <2>3. /\ devices[i] = e /\ \A l \in Tor : l # i => devices[l] = dev[l]
          /\ dev'[i] = r.device /\ \A l \in Tor : l # i => dev'[l] = devices[l]
      BY <1>2, <1>3, <1>7
    <2> HIDE DEF devices
    <2>4. AtHome(devices)
      <3>1. ASSUME NEW l \in Tor
            PROVE  /\ devices[l] \in DeviceState(Packet)
                   /\ \A q \in Queued(devices[l]) : q.src = l
        BY <1>3, <1>8, <2>2, <2>3 DEF AtHome, d
      <3> QED  BY <3>1 DEF AtHome
    <2>5. Waiting(devices) = A \cup {p}
      <3>1. \A l \in Tor : Queued(devices[l]) =
               IF l = i THEN Queued(dev[l]) \cup {p} ELSE Queued(dev[l])
        BY <2>2, <2>3 DEF d
      <3> QED  BY <1>3, <3>1 DEF Waiting
    <2>6. Carried = A \cup C \cup B \cup D
      BY DEF Carried, Transit
    <2>7. /\ A \in SUBSET Packet /\ B \in SUBSET Packet
          /\ C \in SUBSET Packet /\ D \in SUBSET Packet
      BY PlacesAre
    <2>8. Chain(D, C, B, A)
      BY DEF InOrder, Line
    <2>9. \A l \in Tor : Sorted(devices[l])
      BY <2>2, <2>3 DEF InOrder, Line
    <2>10. Line(events, devices, port)
      <3> HIDE DEF A, B, C, D
      <3>1. Below(D \cup C \cup B \cup A, {p})
        BY <1>4, <2>6 DEF Below
      <3>2. Chain(D, C, B, A \cup {p})
        BY ONLY <1>3, <2>7, <2>8, <3>1, ChainMoves
      <3> QED  BY <2>5, <2>9, <3>2 DEF Line, InOrder, A, B, C, D
    <2>11. Transit(events, devices, port) = Carried \cup {p}
      BY <2>5, <2>6 DEF Transit
    <2>12. PICK after : after = dev'
      OBVIOUS
    <2>13. /\ Line(more, after, port)
           /\ Transit(more, after, port) = Carried \cup {p}
           /\ \A q \in Queued(e) : q # r.sent => q \in Queued(r.device)
      <3> HIDE DEF A, B, C, D, kept
      <3> QED  BY <1>3, <1>6, <1>8, <2>1, <2>2, <2>3, <2>4, <2>10, <2>11, <2>12,
                  UplinkServes DEF more
    <2>14. kept
      BY <2>2, <2>13
    <2>15. InOrder' /\ Carried' = Carried \cup {p}
      BY <1>2, <2>12, <2>13 DEF InOrder, Carried
    <2>16. Accepts(p)
      BY <1>2, <1>3, <2>14, <2>15 DEF Accepts
    <2> QED  BY <1>3, <2>15, <2>16 DEF Moves
  <1> QED  BY <1>9, <1>10, <1>11

(* An event that is no arrival is added to the list.                       *)
LEMMA CtlLine ==
    ASSUME NEW list \in List(What), NEW devices, NEW ports,
           Line(list, devices, ports), NEW t \in Nat, NEW kind \in CtlKinds
    PROVE  LET more == Schedule(list, t, CtlEvent(kind)) IN
           /\ more \in List(What)
           /\ Line(more, devices, ports)
           /\ Transit(more, devices, ports) = Transit(list, devices, ports)
  <1> DEFINE c == CtlEvent(kind)
             more == Schedule(list, t, c)
  <1>1. c \in What /\ c \notin ToSwitch /\ c \notin ToTor
    <2>1. c \in What
      BY CtlIn
    <2>2. c.kind \notin {"ArriveAtSwitch", "ArriveAtTor"}
      BY DEF CtlEvent, CtlKinds
    <2> QED  BY <2>1, <2>2, ArrivalIn
  <1> HIDE DEF c
  <1>2. more \in List(What)
    BY <1>1, ScheduleDoes
  <1>3. \A W \in {ToSwitch, ToTor} :
           /\ Flying(more, W) = Flying(list, W)
           /\ Rising(more, W) /\ Punctual(more, W)
    <2> SUFFICES ASSUME NEW W \in {ToSwitch, ToTor}
                 PROVE  /\ Flying(more, W) = Flying(list, W)
                        /\ Rising(more, W) /\ Punctual(more, W)
      OBVIOUS
    <2>1. Rising(list, W) /\ Punctual(list, W) /\ c \notin W
      BY <1>1 DEF Line
    <2>2. Flying(more, W) = Flying(list, W) /\ Rising(more, W)
      BY <1>1, <2>1, ScheduleFlying
    <2>3. Punctual(more, W)
      BY <1>1, <2>1, KeepPunctual
    <2> QED  BY <2>2, <2>3
  <1> HIDE DEF more
  <1>4. Line(more, devices, ports)
    BY <1>3 DEF Line
  <1>5. Transit(more, devices, ports) = Transit(list, devices, ports)
    BY <1>3 DEF Transit
  <1> QED  BY <1>2, <1>4, <1>5 DEF more, c

(* Night falls: what IntoNight empties is lost, the rest keeps its place.  *)
LEMMA SetNightMoves ==
    ASSUME FInv, InOrder, SetNight
    PROVE  InOrder' /\ Moves
  <1> DEFINE k(i) == Ctl!NextQueue(i)
             rest == RemoveNext(events)
             more == Schedule(rest, ReConfigurable, CtlEvent("SetRoutings"))
             A == Waiting(dev)
             B == Flying(events, ToSwitch)
             C == InPorts(port)
             D == Flying(events, ToTor)
  <1>1. /\ HasDue(events) /\ NextEvent(events).kind = "SetNight"
        /\ dev' = [i \in Tor |-> IntoNight(SetWorkingQueue(dev[i], k(i)))]
        /\ events' = more
        /\ fate' = [n \in DOMAIN fate |->
                      IF \E i \in Tor :
                            \E p \in Queued(dev[i]) \ Queued(dev'[i]) : p.id = n
                      THEN "flushed" ELSE fate[n]]
        /\ UNCHANGED <<port, sends>>
    BY DEF SetNight, NextIs
  <1>2. /\ rest \in List(What) /\ Line(rest, dev, port)
        /\ Transit(rest, dev, port) = Carried
    BY <1>1, RestLine
  <1>3. /\ more \in List(What) /\ Line(more, dev, port)
        /\ Transit(more, dev, port) = Carried
    <2> HIDE DEF rest
    <2>1. "SetRoutings" \in CtlKinds /\ ReConfigurable \in Nat
      BY FabricAssumption DEF CtlKinds
    <2> QED  BY <1>2, <2>1, CtlLine
  <1> HIDE DEF more, rest
  <1>4. ASSUME NEW i \in Tor
        PROVE  Sorted(dev'[i]) /\ Queued(dev'[i]) \subseteq Queued(dev[i])
    <2>1. /\ k(i) \in Slot /\ k(i) = (dev[i].queue + 1) % Q
          /\ dev[i] \in DeviceState(Packet)
      BY DeviceAssumption DEF FInv, IInv, Ctl!NextQueue, Slot
    <2>2. dev'[i] = IntoNight(SetWorkingQueue(dev[i], k(i)))
      BY <1>1
    <2> HIDE DEF k
    <2>3. dev'[i] \in DeviceState(Packet) /\ Shrunk(dev[i], dev'[i])
      BY ONLY <2>1, <2>2, DuskShrinks
    <2>4. Sorted(dev[i])
      BY DEF InOrder, Line
    <2> QED  BY <2>1, <2>3, <2>4, ShrunkSorted
  <1>5. PICK after : after = dev'
    OBVIOUS
  <1>6. Waiting(after) \subseteq A
    BY <1>4, <1>5 DEF Waiting
  <1>7. Line(more, after, port)
    <2> DEFINE X == Flying(more, ToSwitch)
               Y == Flying(more, ToTor)
    <2>1. /\ A \in SUBSET Packet /\ X \in SUBSET Packet
          /\ C \in SUBSET Packet /\ Y \in SUBSET Packet
      BY <1>3, PlacesAre, FlyingType
    <2>2. Chain(Y, C, X, A)
      BY <1>3 DEF Line
    <2>3. Chain(Y, C, X, Waiting(after))
      BY <1>6, <2>2 DEF Chain, Below
    <2>4. \A i \in Tor : Sorted(after[i])
      BY <1>4, <1>5
    <2> QED  BY <1>3, <2>3, <2>4 DEF Line
  <1>8. /\ InOrder' /\ Carried' = Transit(more, after, port)
    BY <1>1, <1>5, <1>7 DEF InOrder, Carried
  <1>9. \A p : p \in Carried \ Carried' <=>
           \E i \in Tor : p \in Queued(dev[i]) \ Queued(after[i])
    <2> SUFFICES ASSUME NEW p
                 PROVE  p \in Carried \ Carried' <=>
                           \E i \in Tor : p \in Queued(dev[i]) \ Queued(after[i])
      OBVIOUS
    <2> DEFINE X == Flying(more, ToSwitch)
               Y == Flying(more, ToTor)
    <2>1. /\ A \cup C \cup X \cup Y = Carried
          /\ Carried' = Waiting(after) \cup C \cup X \cup Y
      BY <1>3, <1>8 DEF Transit
    <2>2. A \cap C = {} /\ A \cap X = {} /\ A \cap Y = {}
      <3>1. \A q \in Packet : ~(q.id < q.id) /\ Channel!SamePair(q, q)
        BY DEF Packet, Channel!SamePair
      <3>2. A \subseteq Packet
        BY PlacesAre
      <3> QED  BY <1>3, <3>1, <3>2 DEF Line, Chain, Below
    <2>3. p \in Carried \ Carried' <=> p \in A \ Waiting(after)
      <3> HIDE DEF A, C, X, Y
      <3> QED  BY <1>6, <2>1, <2>2
    <2>4. p \in A <=> \E i \in Tor : p \in Queued(dev[i])
      BY DEF Waiting
    <2>5. p \in Waiting(after) <=> \E i \in Tor : p \in Queued(after[i])
      BY DEF Waiting
    <2>6. \A i \in Tor : /\ p \in Queued(dev[i]) => p.src = i
                         /\ p \in Queued(after[i]) => p \in Queued(dev[i])
      BY <1>4, <1>5, PlacesAre DEF AtHome
    <2> QED  BY <2>3, <2>4, <2>5, <2>6
  <1>10. Carried' \subseteq Carried
    <2>1. Carried = A \cup C \cup Flying(more, ToSwitch) \cup Flying(more, ToTor)
      BY <1>3 DEF Transit
    <2> QED  BY <1>6, <1>8, <2>1 DEF Transit
  <1>11. \A n \in 1 .. MaxPackets :
            fate'[n] = IF \E p \in Carried \ Carried' : p.id = n
                       THEN "flushed" ELSE fate[n]
    <2>1. DOMAIN fate = 1 .. MaxPackets
      BY DEF FInv, Stock
    <2>2. \A n \in 1 .. MaxPackets :
             fate'[n] = IF \E i \in Tor :
                              \E p \in Queued(dev[i]) \ Queued(after[i]) : p.id = n
                        THEN "flushed" ELSE fate[n]
      BY <1>1, <1>5, <2>1
    <2> HIDE DEF A, B, C, D
    <2> QED  BY <1>9, <2>2
  <1>12. Loses
    BY <1>1, <1>10, <1>11 DEF Loses
  <1> QED  BY <1>8, <1>12 DEF Moves

(* The uplinks when those below n have begun their work.                   *)
Half(result, n) == [l \in Tor |-> IF l < n THEN result[l].device ELSE dev[l]]

(* BeginWork on every uplink, port by port: the packets go on from the     *)
(* queues to the fibres, and none is lost.                                 *)
LEMMA DawnLine ==
    ASSUME FInv, NEW list \in List(What), Line(list, dev, port),
           NEW result, \A i \in Tor : result[i] = BeginWork(dev[i])
    PROVE  LET last == DawnEvents(list, result) IN
           /\ last \in List(What)
           /\ Line(last, Half(result, N), port)
           /\ Transit(last, Half(result, N), port) = Transit(list, dev, port)
  <1> DEFINE T == Transit(list, dev, port)
  <1>0. N \in Nat /\ Tor = 0 .. N - 1 /\ NoPacket \notin Packet
    BY FabricAssumption DEF Tor
  <1>1. ASSUME NEW i \in Tor
        PROVE  /\ result[i].sent \in From(i) \cup {NoPacket}
               /\ result[i].device \in DeviceState(Packet)
               /\ Took(dev[i], result[i])
    <2>1. dev[i] \in DeviceState(From(i)) /\ dev[i] \in DeviceState(Packet)
      BY PlacesAre
    <2>2. NoPacket \notin From(i) /\ result[i] = BeginWork(dev[i])
      BY <1>0 DEF From
    <2>3. result[i].sent \in From(i) \cup {NoPacket}
      BY <2>1, <2>2, BeginWorkSends
    <2> QED  BY <2>1, <2>2, <2>3, BeginWorkShrinks, BeginWorkTakes
  <1>2. PICK f : /\ f[0] = list /\ f[N] = DawnEvents(list, result)
                 /\ \A n \in Tor : f[n + 1] = FromUplink(f[n], n, result[n].sent)
    BY <1>1, DawnEventsDo
  <1> DEFINE J(n) == /\ f[n] \in List(What) /\ AtHome(Half(result, n))
                     /\ Line(f[n], Half(result, n), port)
                     /\ Transit(f[n], Half(result, n), port) = T
             S == {n \in 0 .. N : J(n)}
  <1>3. J(0)
    <2>1. \A l \in Tor : Half(result, 0)[l] = dev[l]
      BY <1>0 DEF Half
    <2>2. AtHome(Half(result, 0))
      BY <2>1, PlacesAre DEF AtHome
    <2>3. Waiting(Half(result, 0)) = Waiting(dev)
      BY <2>1 DEF Waiting
    <2>4. Line(list, Half(result, 0), port)
      BY <2>1, <2>3 DEF Line
    <2>5. Transit(list, Half(result, 0), port) = T
      BY <2>3 DEF Transit
    <2> QED  BY <1>2, <2>2, <2>4, <2>5
  <1>4. ASSUME NEW n \in 0 .. N - 1, J(n)
        PROVE  J(n + 1)
    <2> DEFINE r == result[n]
               devices == Half(result, n)
               after == Half(result, n + 1)
    <2>1. n \in Tor /\ f[n + 1] = FromUplink(f[n], n, r.sent)
      BY <1>0, <1>2
    <2>2. devices[n] = dev[n] /\ after[n] = r.device
      BY <1>0, <2>1 DEF Half
    <2>3. \A l \in Tor : l # n => after[l] = devices[l]
      BY <1>0, <2>1 DEF Half
    <2> HIDE DEF T, devices, after, r
    <2>4. PICK w : Pure(devices[n], w) /\ Distinct(w)
      BY <2>1, <2>2, WindowsDistinct
    <2>5. Took(devices[n], r) /\ r.device \in DeviceState(Packet)
      BY <1>1, <2>1, <2>2 DEF r
    <2>6. InPorts(port) \subseteq Packet
      BY PlacesAre
    <2>7. /\ f[n] \in List(What) /\ AtHome(devices)
          /\ Line(f[n], devices, port) /\ Transit(f[n], devices, port) = T
      BY <1>4 DEF devices
    <2>8. PICK more : more = FromUplink(f[n], n, r.sent)
      OBVIOUS
    <2>9. /\ more \in List(What) /\ AtHome(after) /\ Line(more, after, port)
          /\ Transit(more, after, port) = Transit(f[n], devices, port)
      BY <2>1, <2>2, <2>3, <2>4, <2>5, <2>6, <2>7, <2>8, UplinkServes
    <2>10. f[n + 1] = more
      BY <2>1, <2>8
    <2> QED  BY <2>7, <2>9, <2>10 DEF after
  <1>5. J(N)
    <2>1. 0 \in S /\ \A n \in 0 .. N - 1 : n \in S => n + 1 \in S
      <3> HIDE DEF J
      <3>1. \A n \in 0 .. N - 1 : n + 1 \in 0 .. N
        BY <1>0
      <3>2. 0 \in 0 .. N
        BY <1>0
      <3> QED  BY <1>3, <1>4, <3>1, <3>2
    <2> HIDE DEF S
    <2>2. 0 .. N \subseteq S
      BY <1>0, <2>1, SetInduction
    <2>3. N \in 0 .. N
      BY <1>0
    <2> QED  BY <2>2, <2>3 DEF S
  <1> QED  BY <1>2, <1>5

(* Dawn, or after finishtime the end of the last night.                    *)
LEMMA StartDayMoves ==
    ASSUME FInv, InOrder, StartDay, HasDue(events),
           NextEvent(events).kind \in CtlKinds, UNCHANGED <<port, sends, fate>>
    PROVE  InOrder' /\ Moves
  <1> DEFINE rest == RemoveNext(events)
             result == [i \in Tor |-> BeginWork(dev[i])]
             last == DawnEvents(rest, result)
  <1>1. /\ rest \in List(What) /\ Line(rest, dev, port)
        /\ Transit(rest, dev, port) = Carried
    <2>1. NextEvent(events).kind \notin {"ArriveAtSwitch", "ArriveAtTor"}
      BY DEF CtlKinds
    <2> QED  BY <2>1, RestLine
  <1>2. CASE Ctl!Now(rounds) >= FinishTime
    <2>1. events' = rest /\ dev' = dev
      BY <1>2 DEF StartDay
    <2>2. InOrder' /\ Carried' = Carried
      BY <1>1, <2>1 DEF InOrder, Carried
    <2> QED  BY <2>2, NothingLost
  <1>3. CASE ~(Ctl!Now(rounds) >= FinishTime)
    <2>1. /\ dev' = [i \in Tor |-> result[i].device]
          /\ events' = Schedule(last, Interval, CtlEvent("SetNight"))
      BY <1>3 DEF StartDay
    <2>2. \A i \in Tor : result[i] = BeginWork(dev[i])
      OBVIOUS
    <2> HIDE DEF rest, result
    <2>3. PICK devices : devices = Half(result, N)
      OBVIOUS
    <2>4. /\ last \in List(What) /\ Line(last, devices, port)
          /\ Transit(last, devices, port) = Carried
      BY <1>1, <2>2, <2>3, DawnLine
    <2>5. dev' = devices
      <3>1. \A l \in Tor : l < N
        BY FabricAssumption DEF Tor
      <3> QED  BY <2>1, <2>3, <3>1 DEF Half
    <2> HIDE DEF last
    <2>6. PICK more : more = Schedule(last, Interval, CtlEvent("SetNight"))
      OBVIOUS
    <2>7. /\ Line(more, devices, port)
          /\ Transit(more, devices, port) = Carried
      <3>1. Interval \in Nat /\ "SetNight" \in CtlKinds
        BY FabricAssumption DEF CtlKinds
      <3> QED  BY <2>4, <2>6, <3>1, CtlLine
    <2>8. InOrder' /\ Carried' = Carried
      BY <2>1, <2>5, <2>6, <2>7 DEF InOrder, Carried
    <2> QED  BY <2>8, NothingLost
  <1> QED  BY <1>2, <1>3

(* Every step moves packets along, and none past another of its pair.      *)
LEMMA MovesStep ==
    ASSUME FInv, InOrder, Account, [Next]_vars
    PROVE  InOrder' /\ Moves
  <1>1. CASE Initialize
    <2>1. /\ StartDay /\ HasDue(events) /\ UNCHANGED <<port, sends, fate>>
          /\ NextEvent(events).kind = "Initialize"
      BY <1>1 DEF Initialize, NextIs
    <2>2. "Initialize" \in CtlKinds
      BY DEF CtlKinds
    <2> QED  BY <2>1, <2>2, StartDayMoves
  <1>2. CASE SetRoutings
    <2>1. /\ StartDay /\ HasDue(events) /\ UNCHANGED <<port, sends, fate>>
          /\ NextEvent(events).kind = "SetRoutings"
      BY <1>2 DEF SetRoutings, NextIs
    <2>2. "SetRoutings" \in CtlKinds
      BY DEF CtlKinds
    <2> QED  BY <2>1, <2>2, StartDayMoves
  <1>3. CASE SetNight
    BY <1>3, SetNightMoves
  <1>4. CASE UplinkComplete
    BY <1>4, UplinkCompleteMoves
  <1>5. CASE ArriveAtSwitch
    BY <1>5, ArriveAtSwitchMoves
  <1>6. CASE PortComplete
    BY <1>6, PortCompleteMoves
  <1>7. CASE ArriveAtTor
    BY <1>7, ArriveAtTorMoves
  <1>8. CASE Tick
    BY <1>8, TickMoves
  <1>9. CASE \E i \in Senders, j \in Tor : SendOptical(i, j)
    BY <1>9, SendOpticalMoves
  <1>10. CASE UNCHANGED vars
    <2>1. UNCHANGED <<dev, port, events, sends, fate>>
      BY <1>10 DEF vars
    <2>2. InOrder' /\ Carried' = Carried
      BY <2>1 DEF InOrder, Carried
    <2> QED  BY <2>1, <2>2, NothingLost
  <1> QED  BY <1>1, <1>2, <1>3, <1>4, <1>5, <1>6, <1>7, <1>8, <1>9, <1>10
              DEF Next, Simulator
-------------------------------------------------------------------------------
(* The account of the packets is kept.                                     *)
LEMMA AccountStep ==
    ASSUME FInv, Account, Moves, FInv'
    PROVE  Account'
  <1>1. /\ sends \in Nat /\ sends' \in Nat
        /\ DOMAIN fate = 1 .. MaxPackets /\ DOMAIN fate' = 1 .. MaxPackets
        /\ fate = [n \in 1 .. MaxPackets |-> fate[n]]
    BY DEF FInv, IInv, Stock
  <1>2. \A p \in Packet : p.id \in 1 .. MaxPackets /\ p.id \in Int
    BY DEF Packet
  <1>3. Carried \subseteq Packet
    BY PlacesAre
  <1>4. /\ \A p \in Carried : p.id <= sends /\ fate[p.id] = "pending"
        /\ \A p, q \in Carried : p.id = q.id => p = q
        /\ \A n \in 1 .. MaxPackets : fate[n] = "pending" => \E p \in Carried : p.id = n
        /\ \A n \in 1 .. MaxPackets : n > sends => fate[n] = "none"
    BY DEF Account
  <1> HIDE DEF Packet, Account
  <1> PICK carried : carried = Carried'
    OBVIOUS
  <1> SUFFICES
        /\ \A p \in carried : p.id <= sends' /\ fate'[p.id] = "pending"
        /\ \A p, q \in carried : p.id = q.id => p = q
        /\ \A n \in 1 .. MaxPackets : fate'[n] = "pending" => \E p \in carried : p.id = n
        /\ \A n \in 1 .. MaxPackets : n > sends' => fate'[n] = "none"
    BY DEF Account
  <1>5. CASE Loses
    <2>1. /\ carried \subseteq Carried /\ sends' = sends
          /\ \A n \in 1 .. MaxPackets :
                IF \E p \in Carried \ carried : p.id = n
                THEN fate'[n] \notin {"none", "pending", "delivered"}
                ELSE fate'[n] = fate[n]
      BY <1>5 DEF Loses
    <2>2. \A p \in carried : ~\E q \in Carried \ carried : q.id = p.id
      BY <1>4, <2>1
    <2>3. \A p \in carried : p.id <= sends' /\ fate'[p.id] = "pending"
      BY <1>2, <1>3, <1>4, <2>1, <2>2
    <2>4. ASSUME NEW n \in 1 .. MaxPackets, fate'[n] = "pending"
          PROVE  \E p \in carried : p.id = n
      BY <1>4, <2>1, <2>4
    <2>5. ASSUME NEW n \in 1 .. MaxPackets, n > sends
          PROVE  fate'[n] = "none"
      <3>1. ~\E p \in Carried \ carried : p.id = n
        BY <1>1, <1>2, <1>3, <1>4, <2>5
      <3> QED  BY <1>4, <2>1, <2>5, <3>1
    <2> QED  BY <1>4, <2>1, <2>3, <2>4, <2>5
  <1>6. ASSUME NEW p \in Packet, Delivers(p)
        PROVE  /\ \A q \in carried : q.id <= sends' /\ fate'[q.id] = "pending"
               /\ \A q, r \in carried : q.id = r.id => q = r
               /\ \A n \in 1 .. MaxPackets : fate'[n] = "pending" => \E q \in carried : q.id = n
               /\ \A n \in 1 .. MaxPackets : n > sends' => fate'[n] = "none"
    <2>1. p \in Carried /\ carried = Carried \ {p} /\ sends' = sends
      BY <1>6 DEF Delivers
    <2>2. \A n \in 1 .. MaxPackets : fate'[n] = IF n = p.id THEN "delivered" ELSE fate[n]
      BY <1>1, <1>6 DEF Delivers
    <2>3. \A q \in carried : q.id # p.id /\ q \in Carried
      BY <1>4, <2>1
    <2>4. \A q \in carried : q.id <= sends' /\ fate'[q.id] = "pending"
      BY <1>2, <1>3, <1>4, <2>1, <2>2, <2>3
    <2>5. ASSUME NEW n \in 1 .. MaxPackets, fate'[n] = "pending"
          PROVE  \E q \in carried : q.id = n
      BY <1>4, <2>1, <2>2, <2>5
    <2>6. ASSUME NEW n \in 1 .. MaxPackets, n > sends
          PROVE  fate'[n] = "none"
      <3>1. n # p.id
        BY <1>1, <1>2, <1>4, <2>1, <2>6
      <3> QED  BY <1>4, <2>2, <2>6, <3>1
    <2> QED  BY <1>4, <2>1, <2>3, <2>4, <2>5, <2>6
  <1>7. ASSUME NEW p \in Packet, Accepts(p)
        PROVE  /\ \A q \in carried : q.id <= sends' /\ fate'[q.id] = "pending"
               /\ \A q, r \in carried : q.id = r.id => q = r
               /\ \A n \in 1 .. MaxPackets : fate'[n] = "pending" => \E q \in carried : q.id = n
               /\ \A n \in 1 .. MaxPackets : n > sends' => fate'[n] = "none"
    <2>1. p.id = sends + 1 /\ sends' = sends + 1
      BY <1>7 DEF Accepts
    <2>2. /\ \A q \in Carried : q.id <= sends' /\ q.id # p.id
          /\ \A n \in 1 .. MaxPackets : n > sends' => n > sends /\ n # p.id
      BY <1>1, <1>2, <1>3, <1>4, <2>1
    <2>3. \/ /\ carried = Carried \cup {p}
             /\ \A n \in 1 .. MaxPackets :
                   fate'[n] = IF n = p.id THEN "pending" ELSE fate[n]
          \/ /\ carried = Carried
             /\ \A n \in 1 .. MaxPackets :
                   fate'[n] = IF n = p.id THEN "refused" ELSE fate[n]
      BY <1>1, <1>7 DEF Accepts
    <2>4. p.id \in 1 .. MaxPackets /\ p.id <= sends'
      BY <1>1, <1>2, <2>1
    <2>5. \A q \in carried : q.id <= sends' /\ fate'[q.id] = "pending"
      BY <1>2, <1>3, <1>4, <2>2, <2>3, <2>4
    <2>6. \A q, r \in carried : q.id = r.id => q = r
      BY <1>4, <2>2, <2>3
    <2>7. ASSUME NEW n \in 1 .. MaxPackets, fate'[n] = "pending"
          PROVE  \E q \in carried : q.id = n
      BY <1>4, <2>3, <2>7
    <2>8. ASSUME NEW n \in 1 .. MaxPackets, n > sends'
          PROVE  fate'[n] = "none"
      BY <1>4, <2>2, <2>3, <2>8
    <2> QED  BY <2>5, <2>6, <2>7, <2>8
  <1> QED  BY <1>5, <1>6, <1>7 DEF Moves

(* At the start nothing is under way.                                      *)
LEMMA AccountInit ==
    ASSUME Init
    PROVE  InOrder /\ Account
  <1> DEFINE ports == [j \in Tor |-> Port!New]
             devices == [i \in Tor |-> NewDevice]
  <1>1. /\ events = Schedule(<<>>, 0, CtlEvent("Initialize"))
        /\ dev = devices /\ port = ports
        /\ sends = 0 /\ fate = [n \in 1 .. MaxPackets |-> "none"]
    BY DEF Init
  <1>2. <<>> \in List(What) /\ \A W : At(<<>>, W) = {}
    BY DEF List, At
  <1>3. \A W : Flying(<<>>, W) = {} /\ Rising(<<>>, W) /\ Punctual(<<>>, W)
    BY <1>2 DEF Flying, Rising, Punctual, Within, Spaced
  <1>4. \A i \in Tor : \A k \in Slot : devices[i].queues[k] = <<>>
    BY DEF NewDevice
  <1>5. \A j \in Tor : ports[j].queue = <<>>
    BY DEF Port!New
  <1> HIDE DEF devices, ports
  <1>6. /\ Waiting(devices) = {} /\ InPorts(ports) = {}
        /\ \A i \in Tor : Sorted(devices[i])
    BY <1>4, <1>5 DEF Waiting, Queued, InPorts, Sorted
  <1>7. Line(<<>>, devices, ports) /\ Transit(<<>>, devices, ports) = {}
    BY <1>3, <1>6 DEF Line, Transit, Chain, Below
  <1>8. 0 \in Nat /\ "Initialize" \in CtlKinds
    BY DEF CtlKinds
  <1>9. InOrder /\ Carried = {}
    BY <1>1, <1>2, <1>7, <1>8, CtlLine DEF InOrder, Carried
  <1> QED  BY <1>1, <1>9 DEF Account

(* The places that have packet n, stage by stage: one, or none.            *)
Named(S, n) == \E p \in S : p.id = n

(* The queues of the uplinks.                                              *)
LEMMA UplinkPlace ==
    ASSUME FInv, InOrder, Account, NEW n \in Nat
    PROVE  /\ Named(Waiting(dev), n) => \E x : AtUplinks(n) = {x}
           /\ ~Named(Waiting(dev), n) => AtUplinks(n) = {}
  <1>1. \A x : x \in AtUplinks(n) <=>
           \E i \in Tor : \E k \in Slot : \E m \in DOMAIN dev[i].queues[k] :
              x = <<<<i, k>>, m>> /\ dev[i].queues[k][m].id = n
    BY DEF AtUplinks, Carrying
  <1>2. \A p : p \in Waiting(dev) <=>
           \E i \in Tor : \E k \in Slot : \E m \in DOMAIN dev[i].queues[k] :
              p = dev[i].queues[k][m]
    <2>1. \A i \in Tor : dev[i] \in DeviceState(Packet)
      BY PlacesAre
    <2>2. \A p : p \in Waiting(dev) <=> \E i \in Tor : p \in Queued(dev[i])
      BY DEF Waiting
    <2>3. ASSUME NEW i \in Tor, NEW p
          PROVE  p \in Queued(dev[i]) <=>
                    \E k \in Slot : \E m \in DOMAIN dev[i].queues[k] :
                       p = dev[i].queues[k][m]
      BY <2>1, QueuedIs
    <2> QED  BY <2>2, <2>3
  <1>3. ASSUME NEW i \in Tor, NEW k \in Slot, NEW m \in DOMAIN dev[i].queues[k],
               NEW j \in Tor, NEW l \in Slot, NEW o \in DOMAIN dev[j].queues[l],
               dev[i].queues[k][m].id = n, dev[j].queues[l][o].id = n
        PROVE  i = j /\ k = l /\ m = o
    <2> DEFINE p == dev[i].queues[k][m]
               q == dev[j].queues[l][o]
    <2>1. p \in Queued(dev[i]) /\ q \in Queued(dev[j])
      BY QueuedIs, PlacesAre
    <2>2. p \in Carried /\ q \in Carried
      BY <1>2 DEF Carried, Transit
    <2>3. p = q
      BY <1>3, <2>2 DEF Account
    <2>4. i = j
      BY <2>1, <2>3, PlacesAre DEF AtHome
    <2>5. PICK w : Pure(dev[i], w) /\ Distinct(w)
      BY WindowsDistinct
    <2>6. k = l
      BY <2>3, <2>4, <2>5 DEF Pure, Distinct
    <2>7. m \in Int /\ o \in Int
      <3>1. dev[i].queues[k] \in Seq(Packet)
        BY PlacesAre DEF DeviceState
      <3>2. DOMAIN dev[i].queues[k] \subseteq Int
        BY <3>1
      <3> QED  BY <2>4, <2>6, <3>2
    <2>8. ~(m < o) /\ ~(o < m)
      <3>1. Sorted(dev[i]) /\ ~(n < n)
        BY DEF InOrder, Line
      <3> QED  BY <1>3, <2>4, <2>6, <3>1 DEF Sorted
    <2> QED  BY <2>4, <2>6, <2>7, <2>8
  <1>4. ASSUME Named(Waiting(dev), n)
        PROVE  \E x : AtUplinks(n) = {x}
    <2>0. PICK i \in Tor, k \in Slot :
             \E m \in DOMAIN dev[i].queues[k] : dev[i].queues[k][m].id = n
      BY <1>2, <1>4 DEF Named
    <2>1. PICK m \in DOMAIN dev[i].queues[k] : dev[i].queues[k][m].id = n
      BY <2>0
    <2>2. <<<<i, k>>, m>> \in AtUplinks(n)
      BY <1>1, <2>1
    <2>3. \A x \in AtUplinks(n) : x = <<<<i, k>>, m>>
      BY <1>1, <1>3, <2>1
    <2> QED  BY <2>2, <2>3
  <1>5. ASSUME ~Named(Waiting(dev), n)
        PROVE  AtUplinks(n) = {}
    BY <1>1, <1>2, <1>5 DEF Named
  <1> QED  BY <1>4, <1>5

(* The queues of the ports.                                                *)
LEMMA PortPlace ==
    ASSUME FInv, InOrder, Account, NEW n \in Nat
    PROVE  /\ Named(InPorts(port), n) => \E x : AtPorts(n) = {x}
           /\ ~Named(InPorts(port), n) => AtPorts(n) = {}
  <1>1. \A x : x \in AtPorts(n) <=>
           \E j \in Tor : \E m \in DOMAIN port[j].queue :
              x = <<j, m>> /\ port[j].queue[m].id = n
    BY DEF AtPorts, Carrying
  <1>2. \A p : p \in InPorts(port) <=>
           \E j \in Tor : \E m \in DOMAIN port[j].queue : p = port[j].queue[m]
    BY DEF InPorts
  <1>3. ASSUME NEW i \in Tor, NEW m \in DOMAIN port[i].queue,
               NEW j \in Tor, NEW o \in DOMAIN port[j].queue,
               port[i].queue[m].id = n, port[j].queue[o].id = n
        PROVE  i = j /\ m = o
    <2> DEFINE p == port[i].queue[m]
               q == port[j].queue[o]
    <2>1. p \in Carried /\ q \in Carried
      BY <1>2 DEF Carried, Transit
    <2>2. p = q
      BY <1>3, <2>1 DEF Account
    <2>3. i = j
      BY <2>2, PlacesAre
    <2>4. DOMAIN port[i].queue \subseteq {1}
      <3>1. PortInv(events, i, port[i]) /\ port[i] \in Port!State(To(i))
        BY PlacesAre DEF FInv, TInv, Ports
      <3>2. port[i].queue \in Seq(To(i)) /\ Len(port[i].queue) <= 1
        BY <3>1 DEF PortInv, Port!State
      <3> QED  BY <3>2
    <2> QED  BY <2>3, <2>4
  <1>4. ASSUME Named(InPorts(port), n)
        PROVE  \E x : AtPorts(n) = {x}
    <2>0. PICK j \in Tor : \E m \in DOMAIN port[j].queue : port[j].queue[m].id = n
      BY <1>2, <1>4 DEF Named
    <2>1. PICK m \in DOMAIN port[j].queue : port[j].queue[m].id = n
      BY <2>0
    <2>2. <<j, m>> \in AtPorts(n)
      BY <1>1, <2>1
    <2>3. \A x \in AtPorts(n) : x = <<j, m>>
      BY <1>1, <1>3, <2>1
    <2> QED  BY <2>2, <2>3
  <1>5. ASSUME ~Named(InPorts(port), n)
        PROVE  AtPorts(n) = {}
    BY <1>1, <1>2, <1>5 DEF Named
  <1> QED  BY <1>4, <1>5

(* The fibres.                                                             *)
LEMMA FibrePlace ==
    ASSUME FInv, InOrder, Account, NEW n \in Nat
    PROVE  LET flying == Flying(events, ToSwitch) \cup Flying(events, ToTor) IN
           /\ Named(flying, n) => \E x : OnFibres(n) = {x}
           /\ ~Named(flying, n) => OnFibres(n) = {}
  <1> DEFINE B == Flying(events, ToSwitch)
             D == Flying(events, ToTor)
  <1>1. /\ InFlight("ArriveAtSwitch") = At(events, ToSwitch)
        /\ InFlight("ArriveAtTor") = At(events, ToTor)
        /\ DOMAIN events \subseteq Int
    <2>1. events \in List(What)
      BY PlacesAre
    <2>2. DOMAIN events = 1 .. Len(events) /\ Len(events) \in Nat
      BY <2>1 DEF List
    <2>3. \A m \in DOMAIN events : events[m].what \in What
      BY <2>1, <2>2, ElementDoes
    <2> QED  BY <2>2, <2>3 DEF InFlight, At, ToSwitch, ToTor
  <1>2. \A x : x \in OnFibres(n) <=>
           /\ x \in At(events, ToSwitch) \cup At(events, ToTor)
           /\ events[x].what.packet.id = n
    BY <1>1 DEF OnFibres
  <1>3. \A p : /\ p \in B <=> \E x \in At(events, ToSwitch) : p = events[x].what.packet
               /\ p \in D <=> \E x \in At(events, ToTor) : p = events[x].what.packet
    BY DEF Flying
  <1>4. ASSUME NEW x \in OnFibres(n), NEW y \in OnFibres(n)
        PROVE  x = y
    <2> DEFINE p == events[x].what.packet
               q == events[y].what.packet
    <2>1. p.id = n /\ q.id = n /\ p \in B \cup D /\ q \in B \cup D
      BY <1>2, <1>3
    <2>2. p = q
      BY <2>1 DEF Account, Carried, Transit
    <2>3. B \cap D = {}
      BY StagesDisjoint
    <2>4. PICK W \in {ToSwitch, ToTor} : x \in At(events, W) /\ y \in At(events, W)
      BY <1>2, <1>3, <2>2, <2>3
    <2>5. ~(x < y) /\ ~(y < x)
      <3>1. Rising(events, W) /\ ~(n < n) /\ Channel!SamePair(p, p)
        BY DEF InOrder, Line, Channel!SamePair
      <3> QED  BY <2>1, <2>2, <2>4, <3>1 DEF Rising
    <2>6. x \in Int /\ y \in Int
      BY <1>1, <2>4 DEF At
    <2> QED  BY <2>5, <2>6
  <1>5. ASSUME Named(B \cup D, n)
        PROVE  \E x : OnFibres(n) = {x}
    <2>1. PICK x : x \in OnFibres(n)
      BY <1>2, <1>3, <1>5 DEF Named
    <2>2. \A y \in OnFibres(n) : y = x
      BY <1>4, <2>1
    <2> QED  BY <2>1, <2>2
  <1>6. ASSUME ~Named(B \cup D, n)
        PROVE  OnFibres(n) = {}
    BY <1>2, <1>3, <1>6 DEF Named
  <1> QED  BY <1>5, <1>6

(* Every packet that is under way is in one place.                         *)
LEMMA PlaceIsOne ==
    ASSUME FInv, InOrder, Account
    PROVE  OnePlace
  <1> SUFFICES ASSUME NEW n \in 1 .. sends
               PROVE  Cardinality(AtUplinks(n)) + Cardinality(AtPorts(n))
                         + Cardinality(OnFibres(n))
                      = IF fate[n] = "pending" THEN 1 ELSE 0
    BY DEF OnePlace
  <1> DEFINE A == Waiting(dev)
             C == InPorts(port)
             F == Flying(events, ToSwitch) \cup Flying(events, ToTor)
             Count(S) == IF Named(S, n) THEN 1 ELSE 0
  <1>1. n \in Nat /\ n \in 1 .. MaxPackets
    <2>1. sends \in 0 .. MaxPackets /\ MaxPackets \in Nat
      BY FabricAssumption DEF FInv, Stock
    <2> QED  BY <2>1
  <1>2. Cardinality({}) = 0 /\ \A x : Cardinality({x}) = 1
    BY FS_EmptySet, FS_Singleton
  <1>3. /\ Cardinality(AtUplinks(n)) = Count(A)
        /\ Cardinality(AtPorts(n)) = Count(C)
        /\ Cardinality(OnFibres(n)) = Count(F)
    <2>1. Cardinality(AtUplinks(n)) = Count(A)
      <3>1. /\ Named(A, n) => \E x : AtUplinks(n) = {x}
            /\ ~Named(A, n) => AtUplinks(n) = {}
        BY <1>1, UplinkPlace
      <3> QED  BY <1>2, <3>1
    <2>2. Cardinality(AtPorts(n)) = Count(C)
      <3>1. /\ Named(C, n) => \E x : AtPorts(n) = {x}
            /\ ~Named(C, n) => AtPorts(n) = {}
        BY <1>1, PortPlace
      <3> QED  BY <1>2, <3>1
    <2>3. Cardinality(OnFibres(n)) = Count(F)
      <3>1. /\ Named(F, n) => \E x : OnFibres(n) = {x}
            /\ ~Named(F, n) => OnFibres(n) = {}
        BY <1>1, FibrePlace
      <3> QED  BY <1>2, <3>1
    <2> QED  BY <2>1, <2>2, <2>3
  <1>4. A \cap C = {} /\ A \cap F = {} /\ C \cap F = {}
    BY StagesDisjoint
  <1>5. Carried = A \cup C \cup F
    BY DEF Carried, Transit
  <1> HIDE DEF A, C, F
  <1>6. /\ fate[n] = "pending" <=> Named(Carried, n)
        /\ \A p, q \in Carried : p.id = n /\ q.id = n => p = q
    <2>1. \A p \in Carried : fate[p.id] = "pending"
      BY DEF Account
    <2>2. fate[n] = "pending" => \E p \in Carried : p.id = n
      BY <1>1 DEF Account
    <2>3. \A p, q \in Carried : p.id = q.id => p = q
      BY DEF Account
    <2> QED  BY <2>1, <2>2, <2>3 DEF Named
  <1>7. /\ Named(Carried, n) <=> Named(A, n) \/ Named(C, n) \/ Named(F, n)
        /\ ~(Named(A, n) /\ Named(C, n))
        /\ ~(Named(A, n) /\ Named(F, n))
        /\ ~(Named(C, n) /\ Named(F, n))
    BY <1>4, <1>5, <1>6 DEF Named
  <1> QED  BY <1>3, <1>6, <1>7

(* Every packet that was sent is in one place, in a queue of its uplink,   *)
(* on a fibre or in a port of the switch, or its fate is settled and it is *)
(* in none: no handler loses a packet without a word, and none hands it to *)
(* two.                                                                    *)
THEOREM OnePlaceCorrect ==
    ASSUME Q \in {1, 4} \/ Q = N - 1
    PROVE  Spec => []OnePlace
  <1> DEFINE All == FInv /\ InOrder /\ Account
  <1>1. Init => All
    BY FabricInit, AccountInit
  <1>2. All /\ [Next]_vars => All'
    BY FabricStep, MovesStep, AccountStep
  <1>3. All => OnePlace
    BY PlaceIsOne
  <1> HIDE DEF All
  <1> QED  BY <1>1, <1>2, <1>3, PTL DEF Spec

(* What is under way, for the channel.                                     *)
LEMMA TransitIs ==
    ASSUME FInv
    PROVE  InTransit = Carried
  <1>1. events \in List(What)
    BY PlacesAre
  <1>2. /\ Fibre("ArriveAtSwitch") = Flying(events, ToSwitch)
        /\ Fibre("ArriveAtTor") = Flying(events, ToTor)
    BY <1>1, FlyingType
  <1>3. UNION {Queued(dev[i]) \cup InPort(i) : i \in Tor}
           = Waiting(dev) \cup InPorts(port)
    BY DEF Waiting, InPorts, InPort
  <1> QED  BY <1>2, <1>3 DEF InTransit, Carried, Transit

(* A step of the fabric is a step of the channel.                          *)
LEMMA ChannelStep ==
    ASSUME FInv, Account, Moves, FInv',
           InTransit = Carried, InTransit' = Carried'
    PROVE  Channel!Next
  <1> DEFINE arrived == {n \in DOMAIN fate : fate[n] = "delivered"}
  <1>1. /\ DOMAIN fate = 1 .. MaxPackets /\ DOMAIN fate' = 1 .. MaxPackets
        /\ fate = [n \in 1 .. MaxPackets |-> fate[n]]
    BY DEF FInv, Stock
  <1>2. \A p \in Packet : p.id \in 1 .. MaxPackets
    BY DEF Packet
  <1>3. \A p \in Carried : p \in Packet /\ fate[p.id] = "pending"
    BY PlacesAre DEF Account
  <1>4. CASE Loses
    <2>1. \A n \in 1 .. MaxPackets : fate'[n] = "delivered" <=> fate[n] = "delivered"
      BY <1>2, <1>3, <1>4 DEF Loses
    <2>2. arrived' = arrived
      BY <1>1, <2>1
    <2>3. Carried' = Carried \ (Carried \ Carried') /\ sends' = sends
      BY <1>4 DEF Loses
    <2>4. Channel!Lose
      BY <2>2, <2>3 DEF Channel!Lose
    <2> QED  BY <2>4 DEF Channel!Next
  <1>5. ASSUME NEW p \in Packet, Delivers(p)
        PROVE  Channel!Next
    <2>1. \A n \in 1 .. MaxPackets : fate'[n] = IF n = p.id THEN "delivered" ELSE fate[n]
      BY <1>1, <1>5 DEF Delivers
    <2>2. arrived' = arrived \cup {p.id}
      BY <1>1, <1>2, <2>1
    <2>3. Channel!Deliver(p)
      BY <1>5, <2>2 DEF Channel!Deliver, Delivers
    <2> QED  BY <1>5, <2>3 DEF Channel!Next, Delivers
  <1>6. ASSUME NEW p \in Packet, Accepts(p)
        PROVE  Channel!Next
    <2>1. /\ p.id = sends + 1 /\ sends' = sends + 1
          /\ \/ Carried' = Carried \cup {p} \/ Carried' = Carried
          /\ \/ fate' = [fate EXCEPT ![p.id] = "pending"]
             \/ fate' = [fate EXCEPT ![p.id] = "refused"]
      BY <1>6 DEF Accepts
    <2>2. fate[p.id] = "none"
      <3>1. sends \in Nat /\ sends + 1 > sends
        BY DEF FInv, IInv
      <3> QED  BY <1>2, <2>1, <3>1 DEF Account
    <2>3. \A n \in 1 .. MaxPackets : fate'[n] = "delivered" <=> fate[n] = "delivered"
      BY <1>1, <2>1, <2>2
    <2>4. arrived' = arrived
      BY <1>1, <2>3
    <2>5. Channel!Accept
      BY <2>1, <2>4 DEF Channel!Accept
    <2> QED  BY <2>5 DEF Channel!Next
  <1> QED  BY <1>4, <1>5, <1>6 DEF Moves

(* To the hosts the fabric is a channel per pair of ToRs that may lose     *)
(* packets but neither duplicates nor reorders them: a packet that has     *)
(* arrived was handed over once, and none of its pair that arrives later   *)
(* was sent earlier, however the days, the queues and the two serving      *)
(* machines on its way fall together.                                      *)
THEOREM ChannelCorrect ==
    ASSUME Q \in {1, 4} \/ Q = N - 1
    PROVE  Spec => ImplementsChannel
  <1> DEFINE All == FInv /\ InOrder /\ Account
  <1>1. Init => All
    BY FabricInit, AccountInit
  <1>2. All /\ [Next]_vars => All' /\ Moves
    BY FabricStep, MovesStep, AccountStep
  <1>3. All => InTransit = Carried
    BY TransitIs
  <1>4. Init => Channel!Init
    <2> SUFFICES ASSUME Init PROVE Channel!Init
      OBVIOUS
    <2>1. sends = 0 /\ fate = [n \in 1 .. MaxPackets |-> "none"]
      BY DEF Init
    <2>2. \A p \in Carried : FALSE
      <3>1. Account /\ Carried \subseteq Packet
        BY AccountInit, FabricInit, PlacesAre
      <3>2. \A p \in Packet : p.id \in 1 .. MaxPackets
        BY DEF Packet
      <3> QED  BY <2>1, <3>1, <3>2 DEF Account
    <2>3. InTransit = {}
      BY <1>1, <1>3, <2>2
    <2>4. {n \in DOMAIN fate : fate[n] = "delivered"} = {}
      BY <2>1
    <2> QED  BY <2>1, <2>3, <2>4 DEF Channel!Init
  <1>5. /\ All /\ All' /\ Moves
        /\ InTransit = Carried /\ (InTransit = Carried)'
        => [Channel!Next]_Channel!vars
    BY ChannelStep
  <1> HIDE DEF All
  <1> QED  BY <1>1, <1>2, <1>3, <1>4, <1>5, PTL
              DEF Spec, ImplementsChannel, Channel!Spec
=============================================================================
