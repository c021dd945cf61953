-------------------------- MODULE OcsSchedule_proofs ---------------------------
(***************************************************************************)
(* Proofs about the rotor controller, for every number of ToRs and queues: *)
(* its invariants, and that it implements RotorService.                    *)
(***************************************************************************)
EXTENDS OcsSchedule, TLAPS

-------------------------------------------------------------------------------
(* Remainders of the sums the controller forms, which stay below 3*n.      *)

(* A number below the modulus is its own remainder.                        *)
LEMMA ModBelow ==
    ASSUME NEW n \in Nat, n >= 1, NEW a \in 0 .. n - 1
    PROVE  a % n = a
  BY SMT

(* One wrap.                                                               *)
LEMMA ModOneWrap ==
    ASSUME NEW n \in Nat, n >= 1, NEW a \in n .. 2 * n - 1
    PROVE  a % n = a - n
  BY SMT

(* Two wraps: LastAddr adds a ToR, an interval and a queue number.         *)
LEMMA ModTwoWraps ==
    ASSUME NEW n \in Nat, n >= 1, NEW a \in 2 * n .. 3 * n - 1
    PROVE  a % n = a - 2 * n
  BY SMT

(* The ToR at a given distance, without the remainder.                     *)
Wrap(a) == IF a < N THEN a ELSE a - N

(* Below twice the modulus, remainder and subtraction agree.               *)
LEMMA WrapRemainder ==
    ASSUME NEW n \in Nat, n >= 1, NEW a \in 0 .. 2 * n - 1
    PROVE  /\ a % n = IF a < n THEN a ELSE a - n
           /\ a % n \in 0 .. n - 1
  <1>1. CASE a < n
    <2>1. a \in 0 .. n - 1  BY <1>1
    <2>2. a % n = a  BY <2>1, ModBelow
    <2> QED  BY <1>1, <2>1, <2>2
  <1>2. CASE a >= n
    <2>1. a \in n .. 2 * n - 1  BY <1>2
    <2>2. a % n = a - n  BY <2>1, ModOneWrap
    <2> QED  BY <1>2, <2>1, <2>2
  <1> QED  BY <1>1, <1>2

(* A ToR at a distance of at most N is a ToR.                              *)
LEMMA TorAt ==
    ASSUME NEW i \in Tor, NEW d \in 0 .. N
    PROVE  (i + d) % N = Wrap(i + d) /\ Wrap(i + d) \in Tor
  <1>1. N \in Nat /\ N >= 1 /\ i + d \in 0 .. 2 * N - 1
    BY ScheduleAssumption DEF Tor
  <1> QED  BY <1>1, WrapRemainder DEF Tor, Wrap

(* Matching(d) connects a ToR to the one at distance d.                    *)
LEMMA MatchingAt ==
    ASSUME NEW i \in Tor, NEW d \in 0 .. N
    PROVE  Matching(d)[i] = Wrap(i + d) /\ Matching(d)[i] \in Tor
  BY TorAt DEF Matching

(* Distances smaller than N lead to different ToRs, none of them i.        *)
LEMMA MatchingDisjoint ==
    ASSUME NEW d \in 1 .. N - 1, NEW i \in Tor, NEW j \in Tor
    PROVE  /\ Matching(d)[i] # i
           /\ Matching(d)[i] = Matching(d)[j] => i = j
  <1>1. d \in 0 .. N  BY ScheduleAssumption
  <1>2. Matching(d)[i] = Wrap(i + d) /\ Matching(d)[j] = Wrap(j + d)
    BY <1>1, MatchingAt
  <1>3. Wrap(i + d) # i /\ (Wrap(i + d) = Wrap(j + d) => i = j)
    BY ScheduleAssumption DEF Wrap, Tor
  <1> QED  BY <1>2, <1>3

(* A matching is a function between ToRs.                                  *)
LEMMA MatchingType ==
    ASSUME NEW d \in 0 .. N
    PROVE  Matching(d) \in [Tor -> Tor]
  BY TorAt DEF Matching

(* The slot k places after w.                                              *)
SlotWrap(a) == IF a < Q THEN a ELSE a - Q

(* The slots after the working one wrap at the number of queues.           *)
LEMMA SlotAfter ==
    ASSUME NEW w \in Slot, NEW k \in 0 .. Q
    PROVE  (w + k) % Q = SlotWrap(w + k) /\ (w + k) % Q \in Slot
  <1>1. Q \in Nat /\ Q >= 1 /\ w + k \in 0 .. 2 * Q - 1
    BY ScheduleAssumption DEF Slot
  <1> QED  BY <1>1, WrapRemainder DEF Slot, SlotWrap

(* set_index runs through 0 .. N-2 and wraps.                              *)
LEMMA NextSetIndexAt ==
    ASSUME NEW s \in 0 .. SetNumbers - 1
    PROVE  /\ NextSetIndex(s) \in 0 .. SetNumbers - 1
           /\ NextSetIndex(s) = IF s + 1 = N - 1 THEN 0 ELSE s + 1
  <1>1. CASE s + 1 < N - 1
    BY <1>1, ScheduleAssumption, ModBelow DEF NextSetIndex, SetNumbers
  <1>2. CASE s + 1 = N - 1
    BY <1>2, ScheduleAssumption, ModOneWrap DEF NextSetIndex, SetNumbers
  <1> QED  BY <1>1, <1>2, ScheduleAssumption DEF SetNumbers

(* The ToR that enters a window is the one reachable Q-1 days later.       *)
LEMMA LastAddrAt ==
    ASSUME NEW i \in Tor, NEW d \in 1 .. N - 1, Q < SetNumbers
    PROVE  LastAddr(i, d) =
             Wrap(i + IF d + Q - 1 <= N - 1 THEN d + Q - 1
                                            ELSE d + Q - 1 - (N - 1))
  <1> USE ScheduleAssumption DEF Tor, SetNumbers
  <1>0. N \in Nat /\ N >= 1  OBVIOUS
  <1>1. CASE d + Q - 1 >= N
    <2>1. i + d + Q \in N .. 3 * N - 1
      BY <1>1
    <2>2. (i + d + Q) % N = Wrap(i + (d + Q - N))
      <3>1. CASE i + d + Q < 2 * N
        <4>1. i + d + Q \in N .. 2 * N - 1  BY <2>1, <3>1
        <4>2. (i + d + Q) % N = i + d + Q - N  BY <1>0, <4>1, ModOneWrap
        <4> QED  BY <3>1, <4>2 DEF Wrap
      <3>2. CASE i + d + Q >= 2 * N
        <4>1. i + d + Q \in 2 * N .. 3 * N - 1  BY <2>1, <3>2
        <4>2. (i + d + Q) % N = i + d + Q - 2 * N  BY <1>0, <4>1, ModTwoWraps
        <4> QED  BY <3>2, <4>2 DEF Wrap
      <3> QED  BY <3>1, <3>2
    <2>3. d + Q - N = d + Q - 1 - (N - 1) /\ ~(d + Q - 1 <= N - 1)
      BY <1>1
    <2> QED  BY <1>1, <2>2, <2>3 DEF LastAddr
  <1>2. CASE d + Q - 1 < N
    <2>1. d + Q - 1 \in 0 .. N /\ d + Q - 1 <= N - 1
      BY <1>2
    <2>2. (i + (d + Q - 1)) % N = Wrap(i + (d + Q - 1))
      BY <2>1, TorAt
    <2>3. i + d + Q - 1 = i + (d + Q - 1) /\ ~(d + Q - 1 >= N)
      BY <1>2
    <2> QED  BY <2>1, <2>2, <2>3 DEF LastAddr
  <1> QED  BY <1>1, <1>2
-------------------------------------------------------------------------------
(* The installed interval is one of 1 .. N-1, and a reconfiguration moves  *)
(* to the next one.                                                        *)
LEMMA CurrentRange ==
    ASSUME set_index \in 0 .. SetNumbers - 1
    PROVE  Current \in 1 .. N - 1
  BY ScheduleAssumption DEF Current, SetNumbers

(* A reconfiguration moves the installed interval to the next one.         *)
LEMMA CurrentStep ==
    ASSUME set_index \in 0 .. SetNumbers - 1,
           set_index' = NextSetIndex(set_index)
    PROVE  /\ Current' = set_index + 1
           /\ Current' = IF Current = N - 1 THEN 1 ELSE Current + 1
           /\ set_index + 1 \in 1 .. N - 1
  BY ScheduleAssumption, NextSetIndexAt DEF Current, SetNumbers

(* Counting days ahead of an interval stays among the intervals.           *)
LEMMA AheadArithmetic ==
    ASSUME NEW c \in 1 .. N - 1, NEW k \in Slot
    PROVE  (IF c + k <= N - 1 THEN c + k ELSE c + k - (N - 1)) \in 1 .. N - 1
  BY ScheduleAssumption DEF Slot

(* The interval k days ahead is one of 1 .. N-1.                           *)
LEMMA AheadRange ==
    ASSUME set_index \in 0 .. SetNumbers - 1, NEW k \in Slot
    PROVE  Ahead(k) \in 1 .. N - 1
  BY CurrentRange, AheadArithmetic DEF Ahead

(* A day's start touches neither the window nor the matching.              *)
LEMMA StartDayType ==
    ASSUME TypeOK, StartDay
    PROVE  /\ rounds' \in Nat
           /\ atnight' \in BOOLEAN
           /\ working' \in [Tor -> BOOLEAN]
           /\ event' \in {"SetNight", "none"}
  <1>1. CASE event' = "none" /\ UNCHANGED <<atnight, working>>
    BY <1>1 DEF TypeOK, StartDay
  <1>2. CASE /\ event' = "SetNight" /\ atnight' = FALSE
             /\ working' = [i \in Tor |-> TRUE]
    <2>1. working' \in [Tor -> BOOLEAN] /\ atnight' \in BOOLEAN
      BY <1>2, Zenon
    <2>2. rounds' \in Nat
      BY DEF TypeOK, StartDay
    <2> QED  BY <1>2, <2>1, <2>2
  <1> QED  BY <1>1, <1>2 DEF StartDay
-------------------------------------------------------------------------------
(* Type correctness: every variable keeps its type, the windows keep their *)
(* length and the working queue stays a queue of the device.               *)
LEMMA TypeInitialize ==
    ASSUME TypeOK, Initialize
    PROVE  TypeOK'
  <1>1. /\ rounds' \in Nat /\ atnight' \in BOOLEAN
        /\ working' \in [Tor -> BOOLEAN] /\ event' \in {"SetNight", "none"}
    BY StartDayType DEF Initialize
  <1>2. set_index' \in 0 .. SetNumbers - 1
    BY NextSetIndexAt DEF Initialize, TypeOK
  <1>3. devicesMap' \in [Tor -> Tor]
    <2>1. set_index + 1 \in 0 .. N
      BY ScheduleAssumption DEF TypeOK, SetNumbers
    <2> QED  BY <2>1, MatchingType DEF Initialize
  <1>4. ocs_dest_addr' \in [Tor -> [Slot -> Tor]]
    <2>1. \A i \in Tor : FirstWindow(i) \in [Slot -> Tor]
      <3> SUFFICES ASSUME NEW i \in Tor, NEW k \in Slot
                   PROVE  (i + 1 + k) % N \in Tor
        BY DEF FirstWindow
      <3>1. k + 1 \in 0 .. N /\ i + (k + 1) = i + 1 + k
        BY ScheduleAssumption DEF Slot, Tor
      <3> QED  BY <3>1, TorAt
    <2> QED  BY <2>1 DEF Initialize
  <1>5. Ready'
    BY <1>1 DEF Ready
  <1> QED  BY <1>1, <1>2, <1>3, <1>4, <1>5 DEF TypeOK, Initialize, Event

(* The end of a night keeps the types.                                     *)
LEMMA TypeSetRoutings ==
    ASSUME TypeOK, SetRoutings
    PROVE  TypeOK'
  <1>1. /\ rounds' \in Nat /\ atnight' \in BOOLEAN
        /\ working' \in [Tor -> BOOLEAN] /\ event' \in {"SetNight", "none"}
    BY StartDayType DEF SetRoutings
  <1>2. Ready /\ Ready'
    BY <1>1 DEF Ready, SetRoutings
  <1> QED  BY <1>1, <1>2 DEF TypeOK, SetRoutings, Event

(* The end of a day keeps the types.                                       *)
LEMMA TypeSetNight ==
    ASSUME TypeOK, SetNight
    PROVE  TypeOK'
  <1>1. set_index' \in 0 .. SetNumbers - 1 /\ set_index + 1 \in 1 .. N - 1
    BY CurrentStep, NextSetIndexAt DEF SetNight, TypeOK
  <1>2. devicesMap' \in [Tor -> Tor]
    <2>1. set_index + 1 \in 0 .. N
      BY <1>1, ScheduleAssumption
    <2> QED  BY <2>1, MatchingType DEF SetNight
  <1>3. Ready /\ Ready'
    BY DEF Ready, SetNight
  <1>4. ocs_dest_addr' \in [Tor -> [Slot -> Tor]]
    <2>1. ASSUME NEW i \in Tor
          PROVE  WindowAfter(i, set_index + 1) \in [Slot -> Tor]
      <3>1. ocs_dest_addr[i] \in [Slot -> Tor]
        BY <1>3 DEF TypeOK
      <3>2. CASE Q < SetNumbers
        <4>1. LastAddr(i, set_index + 1) \in Tor
          <5> DEFINE e == IF set_index + 1 + Q - 1 <= N - 1
                          THEN set_index + 1 + Q - 1
                          ELSE set_index + 1 + Q - 1 - (N - 1)
          <5>1. e \in 0 .. N
            BY <1>1, ScheduleAssumption
          <5>2. LastAddr(i, set_index + 1) = Wrap(i + e)
            BY <1>1, <3>2, LastAddrAt
          <5> HIDE DEF e
          <5> QED  BY <5>1, <5>2, TorAt
        <4> QED  BY <3>1, <3>2, <4>1 DEF WindowAfter
      <3>3. CASE ~(Q < SetNumbers)
        BY <3>1, <3>3 DEF WindowAfter
      <3> QED  BY <3>2, <3>3
    <2> QED  BY <2>1 DEF SetNight
  <1>5. \A i \in Tor : NextQueue(i) \in Slot
    <2> SUFFICES ASSUME NEW i \in Tor
                 PROVE  NextQueue(i) \in Slot
      OBVIOUS
    <2>1. working_queue_index[i] \in Slot /\ 1 \in 0 .. Q
      BY ScheduleAssumption DEF TypeOK
    <2> QED  BY <2>1, SlotAfter DEF NextQueue
  <1> QED  BY <1>1, <1>2, <1>3, <1>4, <1>5 DEF TypeOK, SetNight, Event

(* The constructors leave values of the right types.                       *)
LEMMA TypeInit == Init => TypeOK
  <1> SUFFICES ASSUME Init
               PROVE  TypeOK
    OBVIOUS
  <1>1. working \in [Tor -> BOOLEAN] /\ atnight \in BOOLEAN
    BY Zenon DEF Init
  <1>2. /\ set_index \in 0 .. SetNumbers - 1
        /\ working_queue_index \in [Tor -> Slot]
        /\ working_queue_idx \in [Tor -> Slot]
    BY ScheduleAssumption DEF Init, Slot, SetNumbers
  <1>3. event \in Event /\ ~Ready /\ rounds \in Nat
    BY DEF Init, Event, Ready
  <1>4. devicesMap = NoMatch /\ ocs_dest_addr = [i \in Tor |-> NoWindow]
    BY DEF Init
  <1> QED  BY <1>1, <1>2, <1>3, <1>4 DEF TypeOK

(* Every handler keeps the types.                                          *)
LEMMA TypeStep == TypeOK /\ [Next]_vars => TypeOK'
  <1> SUFFICES ASSUME TypeOK, [Next]_vars
               PROVE  TypeOK'
    OBVIOUS
  <1>1. CASE UNCHANGED vars
    BY <1>1 DEF vars, TypeOK, Ready
  <1> QED  BY <1>1, TypeInitialize, TypeSetRoutings, TypeSetNight DEF Next

(* The variables keep their types, for every number of ToRs and queues.    *)
THEOREM TypeCorrect == Spec => []TypeOK
  BY TypeInit, TypeStep, PTL DEF Spec
-------------------------------------------------------------------------------
(* The window after a reconfiguration, slot by slot: this is where the     *)
(* wrap of the interval and the wrap of the slot meet.                     *)
LEMMA WindowSlides ==
    ASSUME TypeOK, WindowIsNextDays, SetNight, NEW i \in Tor, NEW k \in Slot
    PROVE  ocs_dest_addr'[i][(working_queue_index'[i] + k) % Q]
               = Wrap(i + Ahead(k)')
  <1> DEFINE w == working_queue_index[i]
             old == ocs_dest_addr[i]
             new == WindowAfter(i, set_index + 1)
  <1>1. /\ w \in Slot /\ w \in Nat /\ k \in Nat /\ k < Q
        /\ Q \in Nat /\ 1 <= Q /\ Q <= N - 1 /\ N \in Nat
    BY ScheduleAssumption DEF TypeOK, Slot
  <1>2. old \in [Slot -> Tor]
    BY DEF TypeOK, Ready, SetNight
  <1>3. /\ ocs_dest_addr'[i] = new
        /\ working_queue_index'[i] = (w + 1) % Q
    BY DEF SetNight, NextQueue
  <1>4. (w + 1) % Q = SlotWrap(w + 1) /\ (w + 1) % Q \in Slot
    BY <1>1, SlotAfter, 1 \in 0 .. Q
  <1>5. /\ Current \in 1 .. N - 1
        /\ Current' = set_index + 1
        /\ Current' = IF Current = N - 1 THEN 1 ELSE Current + 1
        /\ set_index + 1 \in 1 .. N - 1
    BY CurrentRange, CurrentStep DEF TypeOK, SetNight
  <1>6. Ahead(k)' = IF Current' + k <= N - 1 THEN Current' + k
                                             ELSE Current' + k - (N - 1)
    BY DEF Ahead
  <1>7. \A j \in Slot : old[(w + j) % Q] = Wrap(i + Ahead(j))
    <2> SUFFICES ASSUME NEW j \in Slot
                 PROVE  old[(w + j) % Q] = Wrap(i + Ahead(j))
      OBVIOUS
    <2>1. old[(w + j) % Q] = Matching(Ahead(j))[i]
      BY DEF WindowIsNextDays, Ready, SetNight
    <2>2. Ahead(j) \in 0 .. N
      <3>1. Ahead(j) \in 1 .. N - 1
        BY AheadRange DEF TypeOK
      <3> QED  BY <3>1, ScheduleAssumption
    <2> QED  BY <2>1, <2>2, MatchingAt
  <1>8. CASE k < Q - 1
    (* A slot that was already in the window moves one day closer.         *)
    <2>1. k + 1 \in Slot /\ k + 1 \in 0 .. Q
      BY <1>1, <1>8 DEF Slot
    <2>2. k \in 0 .. Q
      BY <1>1
    <2>3. /\ (w + (k + 1)) % Q = SlotWrap(w + (k + 1))
          /\ (w + (k + 1)) % Q \in Slot
      BY <1>1, <2>1, SlotAfter
    <2>4. (((w + 1) % Q) + k) % Q = SlotWrap(((w + 1) % Q) + k)
      BY <1>4, <2>2, SlotAfter
    <2>5. /\ (((w + 1) % Q) + k) % Q = (w + (k + 1)) % Q
          /\ (w + (k + 1)) % Q # w
      <3> DEFINE v == (w + 1) % Q
                 u == (w + (k + 1)) % Q
      <3>1. v = SlotWrap(w + 1) /\ u = SlotWrap(w + (k + 1))
        BY <1>4, <2>3
      <3>2. (v + k) % Q = SlotWrap(v + k)
        BY <2>4
      <3> HIDE DEF v, u, w
      <3>3. SlotWrap(v + k) = u /\ u # w
        BY <1>1, <1>8, <3>1 DEF SlotWrap, Slot
      <3> QED  BY <3>2, <3>3 DEF v, u
    <2>6. new[(w + (k + 1)) % Q] = old[(w + (k + 1)) % Q]
      BY <1>2, <2>3, <2>5 DEF WindowAfter
    <2>7. Ahead(k + 1) = Ahead(k)'
      BY <1>1, <1>5, <1>6 DEF Ahead
    <2> QED  BY <1>3, <1>7, <2>1, <2>5, <2>6, <2>7
  <1>9. CASE k = Q - 1
    (* The slot served so far becomes the last one of the window.          *)
    <2>1. (((w + 1) % Q) + k) % Q = SlotWrap(((w + 1) % Q) + k)
      BY <1>1, <1>4, SlotAfter, k \in 0 .. Q
    <2>2. (((w + 1) % Q) + k) % Q = w
      <3> DEFINE v == (w + 1) % Q
      <3>1. v = SlotWrap(w + 1) /\ (v + k) % Q = SlotWrap(v + k)
        BY <1>4, <2>1
      <3> HIDE DEF v, w
      <3>2. SlotWrap(v + k) = w
        BY <1>1, <1>9, <3>1 DEF SlotWrap, Slot
      <3> QED  BY <3>1, <3>2 DEF v
    <2>3. CASE Q < SetNumbers
      <3>1. new[w] = LastAddr(i, set_index + 1)
        BY <1>1, <1>2, <2>3 DEF WindowAfter
      <3>2. LastAddr(i, set_index + 1) = Wrap(i + Ahead(k)')
        <4>1. Ahead(k)' = IF set_index + 1 + Q - 1 <= N - 1
                          THEN set_index + 1 + Q - 1
                          ELSE set_index + 1 + Q - 1 - (N - 1)
          BY <1>1, <1>5, <1>6, <1>9
        <4> QED  BY <1>5, <2>3, <4>1, LastAddrAt
      <3> QED  BY <1>3, <2>2, <3>1, <3>2
    <2>4. CASE ~(Q < SetNumbers)
      <3>1. new[w] = old[w]
        BY <2>4 DEF WindowAfter
      <3>2. 0 \in Slot /\ (w + 0) % Q = w
        BY <1>1, ModBelow DEF Slot
      <3>3. Ahead(0) = Ahead(k)'
        BY <1>1, <1>5, <1>6, <1>9, <2>4 DEF Ahead, SetNumbers
      <3> QED  BY <1>3, <1>7, <2>2, <3>1, <3>2, <3>3
    <2> QED  BY <2>3, <2>4
  <1> QED  BY <1>1, <1>8, <1>9

(* The first window, filled by Initialize.                                 *)
LEMMA WindowFilled ==
    ASSUME TypeOK, FreshUntilInitialize, Initialize, NEW i \in Tor, NEW k \in Slot
    PROVE  ocs_dest_addr'[i][(working_queue_index'[i] + k) % Q]
               = Wrap(i + Ahead(k)')
  <1>1. /\ k \in Nat /\ k < Q /\ i \in Nat
        /\ Q \in Nat /\ 1 <= Q /\ Q <= N - 1 /\ N \in Nat
    BY ScheduleAssumption DEF Slot, Tor
  <1>2. (working_queue_index'[i] + k) % Q = k
    <2>1. working_queue_index'[i] = 0
      BY DEF FreshUntilInitialize, Ready, Initialize
    <2> QED  BY <1>1, <2>1, ModBelow
  <1>3. ocs_dest_addr'[i][k] = Wrap(i + (k + 1))
    <2>1. ocs_dest_addr'[i][k] = (i + 1 + k) % N
      BY DEF Initialize, FirstWindow
    <2>2. k + 1 \in 0 .. N /\ i + 1 + k = i + (k + 1)
      BY <1>1
    <2> QED  BY <2>1, <2>2, TorAt
  <1>4. Current' = 1
    BY CurrentStep
       DEF FreshUntilInitialize, Ready, Initialize, TypeOK
  <1>5. Ahead(k)' = k + 1
    BY <1>1, <1>4 DEF Ahead
  <1> QED  BY <1>2, <1>3, <1>5

(* Both ways to change the window establish WindowIsNextDays.              *)
LEMMA WindowStep ==
    ASSUME TypeOK, TypeOK', FreshUntilInitialize, WindowIsNextDays,
           [Next]_vars
    PROVE  WindowIsNextDays'
  <1>1. ASSUME NEW i \in Tor, NEW k \in Slot, Ready',
               ocs_dest_addr'[i][(working_queue_index'[i] + k) % Q]
                   = Wrap(i + Ahead(k)')
        PROVE  ocs_dest_addr'[i][(working_queue_index'[i] + k) % Q]
                   = Matching(Ahead(k)')[i]
    <2>1. Ahead(k)' \in 1 .. N - 1
      <3>1. set_index' \in 0 .. SetNumbers - 1
        BY DEF TypeOK
      <3>2. Current' \in 1 .. N - 1
        BY <3>1, ScheduleAssumption DEF Current, SetNumbers
      <3>3. Ahead(k)' = IF Current' + k <= N - 1
                        THEN Current' + k ELSE Current' + k - (N - 1)
        BY DEF Ahead
      <3> QED  BY <3>2, <3>3, AheadArithmetic
    <2>2. Ahead(k)' \in 0 .. N
      BY <2>1, ScheduleAssumption
    <2> QED  BY <1>1, <2>2, MatchingAt
  <1>2. CASE Initialize
    BY <1>1, <1>2, WindowFilled DEF WindowIsNextDays, Matching
  <1>3. CASE SetNight
    BY <1>1, <1>3, WindowSlides DEF WindowIsNextDays, Matching
  <1>4. CASE SetRoutings
    BY <1>4 DEF WindowIsNextDays, SetRoutings, Ready, Ahead, Current
  <1>5. CASE UNCHANGED vars
    BY <1>5 DEF WindowIsNextDays, vars, Ready, Ahead, Current
  <1> QED  BY <1>2, <1>3, <1>4, <1>5 DEF Next

(* The installed matching is the one of the installed interval.            *)
LEMMA InstalledStep ==
    ASSUME TypeOK, FreshUntilInitialize, InstalledIsCurrent, [Next]_vars
    PROVE  InstalledIsCurrent'
  <1>1. CASE Initialize \/ SetNight
    <2>1. devicesMap' = Matching(set_index + 1) /\ Current' = set_index + 1
      BY <1>1, CurrentStep DEF Initialize, SetNight, TypeOK
    <2> QED  BY <2>1 DEF InstalledIsCurrent, Matching
  <1>2. CASE SetRoutings
    BY <1>2 DEF InstalledIsCurrent, SetRoutings, Ready, Current, Matching
  <1>3. CASE UNCHANGED vars
    BY <1>3 DEF InstalledIsCurrent, vars, Ready, Current, Matching
  <1> QED  BY <1>1, <1>2, <1>3 DEF Next

(* Switch and uplinks change between day and night in the same step.       *)
LEMMA DayAgreedStep ==
    ASSUME DayAgreed, [Next]_vars
    PROVE  DayAgreed'
  <1>1. CASE Initialize \/ SetRoutings
    <2>1. StartDay
      BY <1>1 DEF Initialize, SetRoutings
    <2> QED  BY <2>1 DEF StartDay, DayAgreed
  <1>2. CASE SetNight
    BY <1>2 DEF SetNight, DayAgreed
  <1>3. CASE UNCHANGED vars
    BY <1>3 DEF vars, DayAgreed
  <1> QED  BY <1>1, <1>2, <1>3 DEF Next

(* The inductive invariant holds before Initialize.                        *)
LEMMA InvInit == Init => IInv
  <1> SUFFICES ASSUME Init
               PROVE  IInv
    OBVIOUS
  <1>1. ~Ready /\ event = "Initialize"
    BY DEF Init, Ready
  <1>2. FreshUntilInitialize /\ QueuesInStep
    BY DEF Init, FreshUntilInitialize, QueuesInStep
  <1> QED  BY TypeInit, <1>1, <1>2
           DEF IInv, InstalledIsCurrent, WindowIsNextDays, DayAgreed, LitByDay,
               Lit

(* Every handler keeps the inductive invariant.                            *)
LEMMA InvStep == IInv /\ [Next]_vars => IInv'
  <1> SUFFICES ASSUME IInv, [Next]_vars
               PROVE  IInv'
    OBVIOUS
  <1> USE DEF IInv
  <1>1. TypeOK'
    BY TypeStep
  <1>2. FreshUntilInitialize'
    <2>1. CASE Initialize \/ SetRoutings
      <3>1. Ready'
        BY <2>1 DEF Initialize, SetRoutings, StartDay, Ready
      <3> QED  BY <3>1 DEF FreshUntilInitialize
    <2>2. CASE SetNight
      BY <2>2 DEF SetNight, Ready, FreshUntilInitialize
    <2>3. CASE UNCHANGED vars
      BY <2>3 DEF vars, Ready, FreshUntilInitialize
    <2> QED  BY <2>1, <2>2, <2>3 DEF Next
  <1>3. InstalledIsCurrent'
    BY InstalledStep
  <1>4. QueuesInStep'
    BY DEF QueuesInStep, Next, vars, Initialize, SetRoutings, SetNight
  <1>5. WindowIsNextDays'
    BY <1>1, WindowStep
  <1>6. DayAgreed'
    BY DayAgreedStep
  <1>7. LitByDay'
    BY DEF LitByDay, Lit, Next, vars, Initialize, SetRoutings, SetNight,
           StartDay
  <1> QED  BY <1>1, <1>2, <1>3, <1>4, <1>5, <1>6, <1>7

(* The inductive invariant holds in every reachable state.                 *)
THEOREM InvCorrect == Spec => []IInv
  BY InvInit, InvStep, PTL DEF Spec

(* Every slot of every window names the ToR that is reachable that many    *)
(* days from now (SetNight, BeginConfig), whatever N and Q are.            *)
THEOREM WindowCorrect == Spec => []WindowIsNextDays
  <1>1. IInv => WindowIsNextDays
    BY DEF IInv
  <1> QED  BY <1>1, InvCorrect, PTL

(* What the invariant says of the slot that is served.                     *)
LEMMA InvAligned == IInv => Aligned
  <1>1. ASSUME IInv, Ready, NEW i \in Tor
        PROVE  ocs_dest_addr[i][working_queue_idx[i]] = devicesMap[i]
    <2>1. working_queue_index[i] \in Slot /\ 0 \in Slot
      BY <1>1, ScheduleAssumption DEF IInv, TypeOK, Slot
    <2>2. (working_queue_index[i] + 0) % Q = working_queue_index[i]
      BY <2>1, ScheduleAssumption, ModBelow DEF Slot
    <2>3. Ahead(0) = Current
      BY <1>1, ScheduleAssumption, CurrentRange DEF Ahead, IInv, TypeOK
    <2>4. ocs_dest_addr[i][working_queue_index[i]] = Matching(Current)[i]
      BY <1>1, <2>1, <2>2, <2>3 DEF IInv, WindowIsNextDays
    <2> QED  BY <1>1, <2>4 DEF IInv, InstalledIsCurrent, QueuesInStep
  <1> QED  BY <1>1 DEF Aligned

(* The queue the device serves holds the traffic of the ToR it is          *)
(* connected to (SetNight, BeginConfig, SetWorkingQueue, AddDeviceMatch).  *)
THEOREM AlignmentCorrect == Spec => []Aligned
  BY InvAligned, InvCorrect, PTL

(* What the invariant says of the circuits.                                *)
LEMMA InvCircuits == IInv => CircuitsDisjoint
  <1>1. ASSUME IInv, Ready, NEW i \in Tor, NEW j \in Tor
        PROVE  /\ devicesMap[i] # i
               /\ devicesMap[i] = devicesMap[j] => i = j
    <2>1. devicesMap = Matching(Current) /\ Current \in 1 .. N - 1
      BY <1>1, CurrentRange DEF IInv, InstalledIsCurrent, TypeOK
    <2> QED  BY <2>1, MatchingDisjoint
  <1> QED  BY <1>1 DEF CircuitsDisjoint

(* The switch always carries a fixed-point-free permutation of the ToRs    *)
(* (AddDeviceMatch for every port of SetNight and Initialize).             *)
THEOREM CircuitsCorrect == Spec => []CircuitsDisjoint
  BY InvCircuits, InvCorrect, PTL

(* The switch and the uplinks of all ToRs agree on day and night (SetNight *)
(* and IntoNight, SetRoutings and BeginWork).                              *)
THEOREM DayAgreedCorrect == Spec => []DayAgreed
  <1>1. IInv => DayAgreed
    BY DEF IInv
  <1> QED  BY <1>1, InvCorrect, PTL

(* Circuits, windows and queues change only in the step in which night     *)
(* falls on all uplinks that were working (SetNight and no other handler). *)
THEOREM DarknessCorrect == Spec => ReconfiguredInTheDark
  <1>1. ASSUME IInv, [Next]_vars, Ready,
               <<devicesMap, ocs_dest_addr, working_queue_idx>>' #
                   <<devicesMap, ocs_dest_addr, working_queue_idx>>
        PROVE  atnight' /\ \A i \in Tor : working[i] /\ ~working'[i]
    <2>1. SetNight
      BY <1>1 DEF Next, vars, Initialize, SetRoutings, Ready
    <2>2. ~atnight
      BY <1>1, <2>1 DEF SetNight, IInv, LitByDay, Lit
    <2>3. \A i \in Tor : working[i]
      BY <1>1, <2>1, <2>2 DEF SetNight, IInv, DayAgreed
    <2>4. atnight' /\ \A i \in Tor : ~working'[i]
      BY <2>1 DEF SetNight
    <2> QED  BY <2>3, <2>4
  <1>2. IInv /\ [Next]_vars =>
          [Ready /\ <<devicesMap, ocs_dest_addr, working_queue_idx>>' #
                        <<devicesMap, ocs_dest_addr, working_queue_idx>>
             => atnight' /\ \A i \in Tor : working[i] /\ ~working'[i]]_vars
    BY <1>1
  <1> QED  BY <1>2, InvCorrect, PTL DEF Spec, ReconfiguredInTheDark
-------------------------------------------------------------------------------
(* The rotor service.  What is left to connect in a round is the set of    *)
(* pairs at the distances not yet installed; a day takes the graph of one  *)
(* matching out of it.                                                     *)
Graph(d) == {<<i, Matching(d)[i]>> : i \in Tor}
Rest(d) == PairsWithOffset(d .. N - 1)
-------------------------------------------------------------------------------
(* Different ToRs are at exactly one distance of 1 .. N-1.                 *)
LEMMA DistanceExists ==
    ASSUME NEW i \in Tor, NEW j \in Tor, i # j
    PROVE  \E k \in 1 .. N - 1 : j = (i + k) % N
  <1>1. CASE i < j
    <2>1. j - i \in 1 .. N - 1  BY <1>1, ScheduleAssumption DEF Tor
    <2>2. j = Wrap(i + (j - i))  BY ScheduleAssumption DEF Wrap, Tor
    <2>3. j = (i + (j - i)) % N  BY <2>1, <2>2, TorAt, ScheduleAssumption
    <2> QED  BY <2>1, <2>3
  <1>2. CASE j < i
    <2>1. j - i + N \in 1 .. N - 1  BY <1>2, ScheduleAssumption DEF Tor
    <2>2. j = Wrap(i + (j - i + N))
      BY <1>2, ScheduleAssumption DEF Wrap, Tor
    <2>3. j = (i + (j - i + N)) % N  BY <2>1, <2>2, TorAt, ScheduleAssumption
    <2> QED  BY <2>1, <2>3
  <1> QED  BY <1>1, <1>2, ScheduleAssumption DEF Tor

(* Equal ToRs are at no distance, and distances are unique.                *)
LEMMA DistanceUnique ==
    ASSUME NEW i \in Tor, NEW k \in 1 .. N - 1, NEW l \in 1 .. N - 1
    PROVE  /\ (i + k) % N \in Tor
           /\ (i + k) % N # i
           /\ (i + k) % N = (i + l) % N => k = l
  <1>1. /\ (i + k) % N = Wrap(i + k) /\ Wrap(i + k) \in Tor
        /\ (i + l) % N = Wrap(i + l)
    BY TorAt, ScheduleAssumption
  <1>2. Wrap(i + k) # i /\ (Wrap(i + k) = Wrap(i + l) => k = l)
    BY ScheduleAssumption DEF Wrap, Tor
  <1> QED  BY <1>1, <1>2

(* A window never names a ToR twice, so that the slot GetQueueIdx finds    *)
(* for a destination is the only one it could find.                        *)
LEMMA InvDistinct ==
    ASSUME IInv, Ready, NEW i \in Tor, NEW k \in Slot, NEW l \in Slot,
           ocs_dest_addr[i][k] = ocs_dest_addr[i][l]
    PROVE  k = l
  <1> DEFINE w == working_queue_index[i]
             Days(s) == IF w <= s THEN s - w ELSE s - w + Q
  <1>1. w \in Slot /\ set_index \in 0 .. SetNumbers - 1
    BY DEF IInv, TypeOK
  <1> HIDE DEF w
  <1>2. ASSUME NEW s \in Slot
        PROVE  /\ Days(s) \in Slot
               /\ ocs_dest_addr[i][s] = (i + Ahead(Days(s))) % N
    <2>1. Days(s) \in Slot /\ Days(s) \in 0 .. Q
      BY <1>1, ScheduleAssumption DEF Slot
    <2>2. (w + Days(s)) % Q = SlotWrap(w + Days(s))
      BY <1>1, <2>1, SlotAfter
    <2>3. SlotWrap(w + Days(s)) = s
      BY <1>1, ScheduleAssumption DEF SlotWrap, Slot
    <2> HIDE DEF Days
    <2>4. ocs_dest_addr[i][s] = Matching(Ahead(Days(s)))[i]
      BY <2>1, <2>2, <2>3 DEF IInv, WindowIsNextDays, w
    <2> QED  BY <2>1, <2>4 DEF Matching
  <1>3. \A s \in Slot : Ahead(Days(s)) \in 1 .. N - 1
    BY <1>1, <1>2, AheadRange
  <1>4. Ahead(Days(k)) = Ahead(Days(l))
    BY <1>2, <1>3, DistanceUnique
  <1>5. Current \in 1 .. N - 1
    BY <1>1, CurrentRange
  <1>6. Days(k) = Days(l)
    <2> HIDE DEF Days
    <2> QED  BY <1>2, <1>4, <1>5, ScheduleAssumption DEF Ahead, Slot
  <1> QED  BY <1>1, <1>6, ScheduleAssumption DEF Slot

(* All pairs are the pairs at any distance.                                *)
LEMMA AllPairs == Service!Pairs = Rest(1)
  <1>1. ASSUME NEW p \in Service!Pairs PROVE p \in Rest(1)
    <2>1. p \in Tor \X Tor /\ p[1] # p[2]
      BY <1>1 DEF Service!Pairs, Service!Port, Tor
    <2>2. \E k \in 1 .. N - 1 : p[2] = (p[1] + k) % N
      BY <2>1, DistanceExists
    <2> QED  BY <2>1, <2>2 DEF Rest, PairsWithOffset
  <1>2. ASSUME NEW p \in Rest(1) PROVE p \in Service!Pairs
    <2>1. p \in Tor \X Tor /\ \E k \in 1 .. N - 1 : p[2] = (p[1] + k) % N
      BY <1>2 DEF Rest, PairsWithOffset
    <2>2. p[1] # p[2]
      BY <2>1, DistanceUnique
    <2> QED  BY <2>1, <2>2 DEF Service!Pairs, Service!Port, Tor
  <1> QED  BY <1>1, <1>2

(* The graph of the matching at distance d is a perfect matching of what   *)
(* is left before that day.                                                *)
LEMMA GraphIsMatching ==
    ASSUME NEW d \in 1 .. N - 1
    PROVE  Graph(d) \in Service!MatchingsOf(Rest(d))
  <1> USE ScheduleAssumption
  <1>0. \A i \in Tor : /\ Matching(d)[i] = (i + d) % N
                       /\ Matching(d)[i] = Wrap(i + d)
                       /\ Matching(d)[i] \in Tor
    BY MatchingAt DEF Matching
  <1>1. Graph(d) \in SUBSET Rest(d)
    BY <1>0 DEF Graph, Rest, PairsWithOffset
  <1>2. \A i \in Tor : \E j \in Tor : <<i, j>> \in Graph(d)
    BY <1>0 DEF Graph
  <1>3. ASSUME NEW j \in Tor PROVE \E i \in Tor : <<i, j>> \in Graph(d)
    <2>1. Wrap(j + (N - d)) \in Tor
      BY TorAt
    <2>2. Wrap(Wrap(j + (N - d)) + d) = j
      BY DEF Wrap, Tor
    <2> QED  BY <1>0, <2>1, <2>2 DEF Graph
  <1>4. ASSUME NEW p \in Graph(d), NEW q \in Graph(d),
               p[1] = q[1] \/ p[2] = q[2]
        PROVE  p = q
    <2>1. PICK i \in Tor : p = <<i, Matching(d)[i]>>
      BY DEF Graph
    <2>2. PICK j \in Tor : q = <<j, Matching(d)[j]>>
      BY DEF Graph
    <2>3. i = j
      BY <1>4, <2>1, <2>2, MatchingDisjoint
    <2> QED  BY <2>1, <2>2, <2>3
  <1> QED  BY <1>1, <1>2, <1>3, <1>4
           DEF Service!MatchingsOf, Service!Port, Tor

(* A day leaves the pairs at greater distances.                            *)
LEMMA GraphTaken ==
    ASSUME NEW d \in 1 .. N - 1
    PROVE  /\ Rest(d) \ Graph(d) = PairsWithOffset(d + 1 .. N - 1)
           /\ Graph(d) # {} /\ Rest(d) # {}
  <1> USE ScheduleAssumption
  <1>0. \A i \in Tor : /\ Matching(d)[i] = (i + d) % N
                       /\ Matching(d)[i] \in Tor
    BY MatchingAt DEF Matching
  <1>1. ASSUME NEW p \in Rest(d), p \notin Graph(d)
        PROVE  p \in PairsWithOffset(d + 1 .. N - 1)
    <2>1. PICK k \in d .. N - 1 : p \in Tor \X Tor /\ p[2] = (p[1] + k) % N
      BY DEF Rest, PairsWithOffset
    <2>2. k # d
      BY <1>0, <1>1, <2>1 DEF Graph
    <2>3. k \in d + 1 .. N - 1
      BY <2>2
    <2> QED  BY <2>1, <2>3 DEF PairsWithOffset
  <1>2. ASSUME NEW p \in PairsWithOffset(d + 1 .. N - 1)
        PROVE  p \in Rest(d) /\ p \notin Graph(d)
    <2>1. PICK k \in d + 1 .. N - 1 : p \in Tor \X Tor /\ p[2] = (p[1] + k) % N
      BY DEF PairsWithOffset
    <2>2. k \in d .. N - 1 /\ k \in 1 .. N - 1 /\ k # d
      BY <2>1
    <2>3. p \in Rest(d)
      BY <2>1, <2>2 DEF Rest, PairsWithOffset
    <2>4. (p[1] + k) % N # (p[1] + d) % N
      BY <2>1, <2>2, DistanceUnique
    <2>5. p \notin Graph(d)
      BY <1>0, <2>1, <2>4 DEF Graph
    <2> QED  BY <2>3, <2>5
  <1>3. 0 \in Tor
    BY DEF Tor
  <1>4. Graph(d) # {}
    BY <1>3 DEF Graph
  <1>5. Rest(d) # {}
    BY <1>4, GraphIsMatching DEF Service!MatchingsOf
  <1> QED  BY <1>1, <1>2, <1>4, <1>5
-------------------------------------------------------------------------------
(* Dawn at distance d, with nothing but the pairs from d on left or, at    *)
(* the start of a round, nothing.                                          *)
LEMMA DawnMaps ==
    ASSUME NEW d \in 1 .. N - 1,
           Links = {}, Due = IF d = 1 THEN {} ELSE Rest(d),
           Links' = Graph(d), Due' = PairsWithOffset(d + 1 .. N - 1)
    PROVE  Service!LightUp
  <1>1. Service!RoundPairs = Rest(d)
    <2>1. CASE d = 1
      BY <2>1, AllPairs DEF Service!RoundPairs
    <2>2. CASE d # 1
      BY <2>2, GraphTaken DEF Service!RoundPairs
    <2> QED  BY <2>1, <2>2
  <1> QED  BY <1>1, GraphIsMatching, GraphTaken DEF Service!LightUp

(* What the mapping gives by day and by night.                             *)
LEMMA MappedState ==
    ASSUME IInv
    PROVE  /\ Lit => /\ Links = Graph(Current)
                     /\ Due = PairsWithOffset(Current + 1 .. N - 1)
           /\ ~Lit => Links = {}
           /\ ~Lit /\ Ready => Due = IF Current = 1 THEN {} ELSE Rest(Current)
           /\ ~Ready => Due = {}
           /\ Ready => Current \in 1 .. N - 1
  <1>1. Lit => Ready
    BY DEF Lit, Ready
  <1>2. Ready => devicesMap = Matching(Current) /\ Current \in 1 .. N - 1
    BY CurrentRange DEF IInv, InstalledIsCurrent, TypeOK
  <1> QED  BY <1>1, <1>2 DEF Links, Due, Graph, Rest

(* The same of the next state.                                             *)
LEMMA MappedNext ==
    ASSUME IInv'
    PROVE  /\ Lit' => /\ Links' = Graph(Current')
                      /\ Due' = PairsWithOffset(Current' + 1 .. N - 1)
           /\ ~Lit' => Links' = {}
           /\ ~Lit' /\ Ready' =>
                Due' = IF Current' = 1 THEN {} ELSE Rest(Current')
           /\ ~Ready' => Due' = {}
           /\ Ready' => Current' \in 1 .. N - 1
  <1>1. Lit' => Ready'
    BY DEF Lit, Ready
  <1>2. Ready' => devicesMap' = Matching(Current') /\ Current' \in 1 .. N - 1
    BY ScheduleAssumption
       DEF IInv, InstalledIsCurrent, TypeOK, Current, SetNumbers, Matching
  <1> QED  BY <1>1, <1>2 DEF Links, Due, Graph, Rest

(* Initialize lights the first matching, or ends the run at once.          *)
LEMMA InitializeMaps ==
    ASSUME IInv, IInv', Initialize
    PROVE  Service!Next \/ UNCHANGED <<Links, Due>>
  <1>1. ~Ready /\ ~Lit /\ Ready' /\ set_index = 0
    BY DEF Initialize, StartDay, Ready, Lit, IInv, FreshUntilInitialize
  <1>2. Current' = 1 /\ 1 \in 1 .. N - 1
    <2>1. set_index' = NextSetIndex(set_index)
      BY DEF Initialize
    <2> QED  BY <1>1, <2>1, CurrentStep, ScheduleAssumption
             DEF IInv, TypeOK
  <1>3. Links = {} /\ Due = {}
    BY <1>1, MappedState
  <1>4. CASE Lit'
    BY <1>2, <1>3, <1>4, MappedNext, DawnMaps DEF Service!Next
  <1>5. CASE ~Lit'
    BY <1>1, <1>2, <1>3, <1>5, MappedNext
  <1> QED  BY <1>4, <1>5

(* Dawn lights the matching installed in the night, or the run is over.    *)
LEMMA SetRoutingsMaps ==
    ASSUME IInv, IInv', SetRoutings
    PROVE  Service!Next \/ UNCHANGED <<Links, Due>>
  <1>1. Ready /\ ~Lit /\ Ready' /\ Current' = Current
    BY DEF SetRoutings, StartDay, Ready, Lit, Current
  <1>2. Current \in 1 .. N - 1
    BY <1>1, MappedState
  <1>3. Links = {} /\ Due = IF Current = 1 THEN {} ELSE Rest(Current)
    BY <1>1, MappedState
  <1>4. CASE Lit'
    <2>1. /\ Links' = Graph(Current)
          /\ Due' = PairsWithOffset(Current + 1 .. N - 1)
      BY <1>1, <1>4, MappedNext
    <2> QED  BY <1>2, <1>3, <2>1, DawnMaps DEF Service!Next
  <1>5. CASE ~Lit'
    BY <1>1, <1>3, <1>5, MappedNext
  <1> QED  BY <1>4, <1>5

(* Dusk turns all circuits off; nothing is left of a round that has come   *)
(* to distance N-1.                                                        *)
LEMMA SetNightMaps ==
    ASSUME IInv, IInv', SetNight
    PROVE  Service!Next
  <1>1. Lit /\ ~Lit' /\ Ready /\ Ready'
    BY DEF SetNight, Ready, Lit
  <1>2. /\ Current \in 1 .. N - 1
        /\ Links = Graph(Current)
        /\ Due = PairsWithOffset(Current + 1 .. N - 1)
    BY <1>1, MappedState
  <1>3. Current' = IF Current = N - 1 THEN 1 ELSE Current + 1
    BY CurrentStep DEF IInv, TypeOK, SetNight
  <1>4. Links # {} /\ Links' = {}
    BY <1>1, <1>2, GraphTaken, MappedNext
  <1>5. Due' = Due
    <2>1. Due' = IF Current' = 1 THEN {} ELSE Rest(Current')
      BY <1>1, MappedNext
    <2>2. CASE Current = N - 1
      <3>1. Current + 1 .. N - 1 = {}
        BY <2>2, ScheduleAssumption
      <3> QED  BY <1>2, <1>3, <2>1, <2>2, <3>1 DEF PairsWithOffset
    <2>3. CASE Current # N - 1
      <3>1. Current' = Current + 1 /\ Current' # 1
        BY <1>2, <1>3, <2>3, ScheduleAssumption
      <3> QED  BY <1>2, <2>1, <3>1 DEF Rest
    <2> QED  BY <2>2, <2>3
  <1> QED  BY <1>4, <1>5 DEF Service!Next, Service!GoDark

(* Every step of the controller is a step of the service, or none.         *)
LEMMA StepMaps ==
    IInv /\ IInv' /\ [Next]_vars => [Service!Next]_(Service!vars)
  <1> SUFFICES ASSUME IInv, IInv', [Next]_vars
               PROVE  Service!Next \/ UNCHANGED <<Links, Due>>
    BY DEF Service!vars
  <1>1. CASE UNCHANGED vars
    BY <1>1 DEF vars, Links, Due, Lit, Ready, Current
  <1> QED  BY <1>1, InitializeMaps, SetRoutingsMaps, SetNightMaps DEF Next

(* The controller (Initialize, SetRoutings, SetNight) implements the rotor *)
(* service: in every round each ordered pair of ToRs is connected in       *)
(* exactly one day, by perfect matchings with dark periods between them.   *)
THEOREM ServiceCorrect == Spec => ImplementsService
  <1>1. Init => Service!Init
    BY DEF Init, Service!Init, Links, Due, Lit, Ready
  <1> QED  BY <1>1, StepMaps, InvCorrect, PTL
           DEF Spec, ImplementsService, Service!Spec
===============================================================================
