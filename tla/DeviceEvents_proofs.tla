--------------------------- MODULE DeviceEvents_proofs ---------------------------
(***************************************************************************)
(* Facts that the proofs about uplinks and the fabric cite.  About the     *)
(* event list: how many events of a class are scheduled, by when they are  *)
(* due, and in which order those of two classes will run.  About the       *)
(* transmitter of an uplink: which packet a handler sends, and in what     *)
(* state it leaves the machine.  P is the set of packets.                  *)
(***************************************************************************)
EXTENDS EventList, MultiChannelDevice, FiniteSetsExt, SequenceTheorems,
        FiniteSetTheorems, NaturalsInduction, WellFoundedInduction, TLAPS

(* A non-empty set of naturals has a least element, which Min picks.       *)
LEMMA MinIn ==
    ASSUME NEW S \in SUBSET Nat, S # {}
    PROVE  Min(S) \in S /\ \A x \in S : Min(S) <= x
  <1>1. PICK x \in S : \A y \in S : ~(<<y, x>> \in OpToRel(<, Nat))
    BY NatLessThanWellFounded, WFMin
  <1>2. \A y \in S : ~(y < x)
    BY <1>1 DEF OpToRel
  <1>3. \A y \in S : x <= y
    BY <1>2
  <1> QED  BY <1>3 DEF Min

(* Induction up to M, over a set.                                          *)
LEMMA SetInduction ==
    ASSUME NEW M \in Nat, NEW S, 0 \in S,
           \A n \in 0 .. M - 1 : n \in S => n + 1 \in S
    PROVE  0 .. M \subseteq S
  <1> DEFINE C == {n \in 0 .. M : n \notin S}
  <1> SUFFICES ASSUME C # {} PROVE FALSE
    OBVIOUS
  <1>1. C \in SUBSET Nat
    OBVIOUS
  <1> DEFINE m == Min(C)
  <1>2. m \in C /\ \A x \in C : m <= x
    BY <1>1, MinIn
  <1> HIDE DEF m
  <1>3. m \in 1 .. M
    BY <1>2
  <1>4. m - 1 \in 0 .. M - 1 /\ m - 1 \notin C /\ (m - 1) + 1 = m
    BY <1>2, <1>3
  <1>5. m - 1 \in S
    BY <1>4
  <1> QED  BY <1>2, <1>4, <1>5

(* A function that is defined by recursion up to M, with values in L.       *)
Recursion(f, M, L, base, step) ==
    /\ f \in [0 .. M -> L] /\ f[0] = base
    /\ \A n \in 1 .. M : f[n] = step[n][f[n - 1]]

(* There is one.                                                           *)
LEMMA RecursionExists ==
    ASSUME NEW M \in Nat, NEW L, NEW base \in L,
           NEW step \in [1 .. M -> [L -> L]]
    PROVE  \E f : Recursion(f, M, L, base, step)
  <1> DEFINE Upto(m, f) == Recursion(f, m, L, base, step)
             S == {m \in 0 .. M : \E f : Upto(m, f)}
  <1>1. 0 \in S
    <2>1. Upto(0, [n \in 0 .. 0 |-> base])
      BY DEF Recursion
    <2>2. 0 \in 0 .. M
      OBVIOUS
    <2> HIDE DEF Upto
    <2> QED  BY <2>1, <2>2
  <1>2. ASSUME NEW m \in 0 .. M - 1, m \in S
        PROVE  m + 1 \in S
    <2>1. PICK f : Upto(m, f)
      BY <1>2
    <2> DEFINE x == step[m + 1][f[m]]
               g == [n \in 0 .. m + 1 |-> IF n = m + 1 THEN x ELSE f[n]]
    <2>2. f[m] \in L /\ m + 1 \in 1 .. M /\ m + 1 \in 0 .. M
      BY <2>1 DEF Recursion
    <2>3. x \in L
      BY <2>2
    <2>4. g \in [0 .. m + 1 -> L]
      <3> HIDE DEF x
      <3>1. \A n \in 0 .. m + 1 : n # m + 1 => n \in 0 .. m
        OBVIOUS
      <3> QED  BY <2>1, <2>3, <3>1 DEF Recursion
    <2>5. g[0] = base
      BY <2>1 DEF Recursion
    <2>6. ASSUME NEW n \in 1 .. m + 1
          PROVE  g[n] = step[n][g[n - 1]]
      <3>1. /\ n \in 0 .. m + 1 /\ n - 1 \in 0 .. m + 1
            /\ n - 1 # m + 1
        OBVIOUS
      <3>2. g[n - 1] = f[n - 1]
        BY <3>1
      <3>3. CASE n = m + 1
        <4>1. n - 1 = m
          BY <3>3
        <4> QED  BY <3>1, <3>2, <3>3, <4>1
      <3>4. CASE n # m + 1
        <4>1. n \in 1 .. m
          BY <3>4
        <4> QED  BY <2>1, <3>1, <3>2, <3>4, <4>1 DEF Recursion
      <3> QED  BY <3>3, <3>4
    <2> HIDE DEF g
    <2>7. Upto(m + 1, g)
      BY <2>4, <2>5, <2>6 DEF Recursion
    <2> QED  BY <2>2, <2>7
  <1> HIDE DEF S
  <1>3. 0 .. M \subseteq S
    BY <1>1, <1>2, SetInduction
  <1>4. M \in S
    BY <1>3
  <1> QED  BY <1>4 DEF S

-------------------------------------------------------------------------------
(* Lists of events that carry an element of X.                             *)
List(X) == Seq([left : Nat, what : X])

(* The positions of the events of class W.                                 *)
At(list, W) == {k \in DOMAIN list : list[k].what \in W}

NoneOf(list, W) == At(list, W) = {}
OneOf(list, W) == \E k \in DOMAIN list : At(list, W) = {k}

(* All events of class W are due within d.                                 *)
Within(list, W, d) == \A k \in At(list, W) : list[k].left <= d

(* Every event of class W will run before every one of class V.            *)
Precedes(list, W, V) ==
    \A k \in At(list, W), l \in At(list, V) :
        k < l /\ list[k].left <= list[l].left

(* No event of class W is due before d.                                    *)
NotBefore(list, W, d) == \A k \in At(list, W) : d <= list[k].left

(* Every event of class V is due at least d after every one of class W.    *)
Apart(list, W, V, d) ==
    \A k \in At(list, W), l \in At(list, V) :
        list[k].left + d <= list[l].left

(* The events of class W are due in the order of the list, d apart.        *)
Spaced(list, W, d) ==
    \A k, l \in At(list, W) : k < l => list[k].left + d <= list[l].left

(* The events of class W are the same in both lists, at the same places.   *)
Same(list, more, W) ==
    /\ At(more, W) = At(list, W)
    /\ \A k \in At(list, W) : more[k] = list[k]
-------------------------------------------------------------------------------
(* An entry of the list.                                                   *)
LEMMA ElementDoes ==
    ASSUME NEW X, NEW list \in List(X), NEW k \in 1 .. Len(list)
    PROVE  list[k].left \in Nat /\ list[k].what \in X
  <1> DEFINE E == [left : Nat, what : X]
  <1>1. list \in Seq(E)
    BY DEF List
  <1> HIDE DEF E
  <1>2. list[k] \in E
    BY <1>1
  <1> QED  BY <1>2 DEF E

(* Times are numbers, so that bounds on them can be relaxed.               *)
LEMMA TimesDo ==
    ASSUME NEW X, NEW list \in List(X), NEW W
    PROVE  /\ \A k \in At(list, W) : list[k].left \in Nat
           /\ \A c, d \in Int : Within(list, W, c) /\ c <= d
                                  => Within(list, W, d)
           /\ \A c, d \in Int : NotBefore(list, W, d) /\ c <= d
                                  => NotBefore(list, W, c)
  <1>1. DOMAIN list = 1 .. Len(list)
    BY DEF List
  <1>2. \A k \in At(list, W) : list[k].left \in Nat
    BY <1>1, ElementDoes DEF At
  <1> QED  BY <1>2 DEF Within, NotBefore

(* The event that runs next is due, and none before it in the list is.     *)
LEMMA NextDoes ==
    ASSUME NEW X, NEW list \in List(X), HasDue(list)
    PROVE  /\ NextIndex(list) \in 1 .. Len(list)
           /\ list[NextIndex(list)].left = 0
           /\ NextEvent(list) = list[NextIndex(list)].what
           /\ NextEvent(list) \in X
           /\ \A k \in 1 .. NextIndex(list) - 1 : list[k].left > 0
  <1> DEFINE I == {k \in 1 .. Len(list) : IsDue(list[k])}
  <1>0. DOMAIN list = 1 .. Len(list) /\ Len(list) \in Nat
    BY DEF List
  <1>1. /\ DOMAIN list = 1 .. Len(list) /\ Len(list) \in Nat
        /\ \A k \in 1 .. Len(list) : list[k].left \in Nat /\ list[k].what \in X
    BY <1>0, ElementDoes
  <1>2. I # {} /\ I \in SUBSET Nat
    BY <1>1 DEF HasDue
  <1>3. Min(I) \in I /\ \A x \in I : Min(I) <= x
    BY <1>2, MinIn
  <1>4. NextIndex(list) = Min(I)
    BY <1>2 DEF NextIndex, SelectInSeq
  <1> HIDE DEF I
  <1>5. NextIndex(list) \in I /\ \A x \in I : NextIndex(list) <= x
    BY <1>3, <1>4
  <1>6. /\ NextIndex(list) \in 1 .. Len(list)
        /\ list[NextIndex(list)].left = 0
        /\ NextEvent(list) = list[NextIndex(list)].what
    BY <1>5 DEF I, IsDue, NextEvent
  <1>7. ASSUME NEW k \in 1 .. NextIndex(list) - 1 PROVE list[k].left > 0
    <2>1. k \in DOMAIN list /\ k \notin I
      BY <1>1, <1>5, <1>6
    <2>2. list[k].left # 0
      BY <1>1, <2>1 DEF I, IsDue
    <2>3. list[k].left \in Nat
      BY <1>1, <2>1
    <2> QED  BY <2>2, <2>3
  <1>8. NextEvent(list) \in X
    BY <1>1, <1>6
  <1> QED  BY <1>6, <1>7, <1>8

(* What is left of the list.                                               *)
LEMMA RemoveNextDoes ==
    ASSUME NEW X, NEW list \in List(X), HasDue(list)
    PROVE  /\ RemoveNext(list) \in List(X)
           /\ Len(list) >= 1
           /\ DOMAIN RemoveNext(list) = 1 .. Len(list) - 1
           /\ \A k \in 1 .. Len(list) - 1 :
                 RemoveNext(list)[k] =
                     list[IF k < NextIndex(list) THEN k ELSE k + 1]
  <1> DEFINE n == NextIndex(list)
             a == SubSeq(list, 1, n - 1)
             b == SubSeq(list, n + 1, Len(list))
             E == [left : Nat, what : X]
  <1>1. list \in Seq(E) /\ Len(list) \in Nat
    BY DEF List
  <1>2. n \in 1 .. Len(list)
    BY NextDoes
  <1>3. RemoveNext(list) = a \o b
    BY DEF RemoveNext, RemoveAt
  <1> HIDE DEF n, E
  <1>4. /\ a \in Seq(E) /\ Len(a) = n - 1
        /\ \A k \in 1 .. n - 1 : a[k] = list[k]
    BY <1>1, <1>2
  <1>5. /\ b \in Seq(E) /\ Len(b) = Len(list) - n
        /\ \A k \in 1 .. Len(list) - n : b[k] = list[n + k]
    BY <1>1, <1>2
  <1> HIDE DEF a, b
  <1>6. a \o b \in Seq(E) /\ Len(a \o b) = Len(list) - 1
    <2>1. a \o b \in Seq(E) /\ Len(a \o b) = Len(a) + Len(b)
      BY <1>4, <1>5, ConcatProperties
    <2> QED  BY <1>1, <1>2, <1>4, <1>5, <2>1
  <1>7. ASSUME NEW k \in 1 .. Len(list) - 1
        PROVE  (a \o b)[k] = list[IF k < n THEN k ELSE k + 1]
    <2>1. (a \o b)[k] = IF k <= Len(a) THEN a[k] ELSE b[k - Len(a)]
      BY <1>1, <1>2, <1>4, <1>5, ConcatProperties
    <2>2. CASE k < n
      BY <1>1, <1>2, <1>4, <2>1, <2>2
    <2>3. CASE ~(k < n)
      <3>1. k - (n - 1) \in 1 .. Len(list) - n /\ n + (k - (n - 1)) = k + 1
        BY <1>1, <1>2, <2>3
      <3> QED  BY <1>2, <1>4, <1>5, <2>1, <2>3, <3>1
    <2> QED  BY <2>2, <2>3
  <1>8. DOMAIN (a \o b) = 1 .. Len(list) - 1
    BY <1>6
  <1>9. a \o b \in List(X)
    BY <1>6 DEF List, E
  <1>10. Len(list) >= 1
    BY <1>1, <1>2
  <1>11. \A k \in 1 .. Len(list) - 1 :
            RemoveNext(list)[k] =
                list[IF k < NextIndex(list) THEN k ELSE k + 1]
    BY <1>3, <1>7 DEF n
  <1> QED  BY <1>3, <1>8, <1>9, <1>10, <1>11

(* An event that is added comes last.                                      *)
LEMMA ScheduleDoes ==
    ASSUME NEW X, NEW list \in List(X), NEW d \in Nat, NEW w \in X
    PROVE  /\ Schedule(list, d, w) \in List(X)
           /\ Len(list) \in Nat
           /\ DOMAIN list = 1 .. Len(list)
           /\ DOMAIN Schedule(list, d, w) = 1 .. Len(list) + 1
           /\ \A k \in 1 .. Len(list) : Schedule(list, d, w)[k] = list[k]
           /\ Schedule(list, d, w)[Len(list) + 1] = [left |-> d, what |-> w]
  <1> DEFINE E == [left : Nat, what : X]
             e == [left |-> d, what |-> w]
  <1>1. list \in Seq(E) /\ e \in E
    BY DEF List
  <1>2. Schedule(list, d, w) = Append(list, e)
    BY DEF Schedule
  <1>3. List(X) = Seq(E)
    BY DEF List
  <1> HIDE DEF E, e
  <1>4. /\ Append(list, e) \in Seq(E)
        /\ Len(Append(list, e)) = Len(list) + 1
        /\ \A k \in 1 .. Len(list) : Append(list, e)[k] = list[k]
        /\ Append(list, e)[Len(list) + 1] = e
    BY <1>1, AppendProperties
  <1> QED  BY <1>1, <1>2, <1>3, <1>4 DEF e

(* Time passes for all events alike, and none becomes overdue.             *)
LEMMA ElapseDoes ==
    ASSUME NEW X, NEW list \in List(X), ~HasDue(list)
    PROVE  /\ Elapse(list) \in List(X)
           /\ DOMAIN Elapse(list) = DOMAIN list
           /\ \A k \in DOMAIN list :
                 /\ list[k].left >= 1
                 /\ Elapse(list)[k].left = list[k].left - 1
                 /\ Elapse(list)[k].what = list[k].what
  <1> DEFINE E == [left : Nat, what : X]
  <1>1. DOMAIN list = 1 .. Len(list) /\ Len(list) \in Nat /\ List(X) = Seq(E)
    BY DEF List
  <1>2. ASSUME NEW k \in 1 .. Len(list)
        PROVE  /\ list[k] \in E /\ list[k].left >= 1
               /\ [list[k] EXCEPT !.left = @ - 1] \in E
               /\ [list[k] EXCEPT !.left = @ - 1].left = list[k].left - 1
               /\ [list[k] EXCEPT !.left = @ - 1].what = list[k].what
    <2>1. list[k] \in E
      <3> HIDE DEF E
      <3> QED  BY <1>1
    <2>2. list[k].left \in Nat /\ list[k].left # 0
      BY <1>1, <2>1 DEF HasDue, IsDue
    <2> QED  BY <2>1, <2>2
  <1> HIDE DEF E
  <1>3. Elapse(list) = [k \in 1 .. Len(list) |-> [list[k] EXCEPT !.left = @ - 1]]
    BY <1>1 DEF Elapse
  <1>4. Elapse(list) \in [1 .. Len(list) -> E]
    BY <1>2, <1>3
  <1>5. Elapse(list) \in Seq(E)
    BY <1>1, <1>4
  <1> QED  BY <1>1, <1>2, <1>3, <1>5
-------------------------------------------------------------------------------
(* Classes of events, when one of them is run.                             *)
LEMMA RemoveClass ==
    ASSUME NEW X, NEW list \in List(X), HasDue(list), NEW W
    PROVE  LET rest == RemoveNext(list) IN
           /\ NoneOf(list, W) => NoneOf(rest, W)
           /\ OneOf(list, W) /\ NextEvent(list) \in W => NoneOf(rest, W)
           /\ OneOf(list, W) /\ NextEvent(list) \notin W => OneOf(rest, W)
           /\ \A d : Within(list, W, d) => Within(rest, W, d)
           /\ \A V : Precedes(list, W, V) => Precedes(rest, W, V)
  <1> DEFINE rest == RemoveNext(list)
             n == NextIndex(list)
             Old(k) == IF k < n THEN k ELSE k + 1
  <1>1. /\ Len(list) \in Nat /\ DOMAIN list = 1 .. Len(list)
        /\ DOMAIN rest = 1 .. Len(list) - 1
        /\ \A k \in 1 .. Len(list) - 1 : rest[k] = list[Old(k)]
        /\ n \in 1 .. Len(list) /\ NextEvent(list) = list[n].what
    <2>1. Len(list) \in Nat /\ DOMAIN list = 1 .. Len(list)
      BY DEF List
    <2>2. /\ DOMAIN rest = 1 .. Len(list) - 1
          /\ \A k \in 1 .. Len(list) - 1 : rest[k] = list[Old(k)]
      BY RemoveNextDoes
    <2>3. n \in 1 .. Len(list) /\ NextEvent(list) = list[n].what
      BY NextDoes
    <2> QED  BY <2>1, <2>2, <2>3
  <1> HIDE DEF rest, n
  <1>2. \A k \in DOMAIN rest : Old(k) \in DOMAIN list /\ Old(k) # n
    BY <1>1
  <1>3. \A k, l \in DOMAIN rest : k < l => Old(k) < Old(l)
    BY <1>1
  <1>4. \A k \in DOMAIN rest, l \in DOMAIN rest : Old(k) < Old(l) => k < l
    BY <1>1
  <1>5. \A m \in DOMAIN list : m # n => \E k \in DOMAIN rest : Old(k) = m
    <2> SUFFICES ASSUME NEW m \in DOMAIN list, m # n
                 PROVE  \E k \in DOMAIN rest : Old(k) = m
      OBVIOUS
    <2>1. CASE m < n
      BY <1>1, <2>1
    <2>2. CASE m > n
      <3>1. m - 1 \in DOMAIN rest /\ Old(m - 1) = m
        BY <1>1, <2>2
      <3> QED  BY <3>1
    <2> QED  BY <1>1, <2>1, <2>2
  <1>6. \A k \in DOMAIN rest : rest[k] = list[Old(k)]
    BY <1>1
  <1>7. \A k, l \in DOMAIN rest : Old(k) = Old(l) => k = l
    BY <1>1
  <1> HIDE DEF Old
  <1>8. \A U : \A k : k \in At(rest, U)
                        <=> k \in DOMAIN rest /\ Old(k) \in At(list, U)
    BY <1>2, <1>6 DEF At
  <1>9. NoneOf(list, W) => NoneOf(rest, W)
    BY <1>8 DEF NoneOf
  <1>10. ASSUME OneOf(list, W), NextEvent(list) \in W PROVE NoneOf(rest, W)
    <2>1. At(list, W) = {n}
      BY <1>1, <1>10 DEF OneOf, At
    <2> QED  BY <1>2, <1>8, <2>1 DEF NoneOf
  <1>11. ASSUME OneOf(list, W), NextEvent(list) \notin W PROVE OneOf(rest, W)
    <2>1. PICK m \in DOMAIN list : At(list, W) = {m}
      BY <1>11 DEF OneOf
    <2>2. m # n
      BY <1>1, <1>11, <2>1 DEF At
    <2>3. PICK k \in DOMAIN rest : Old(k) = m
      BY <1>5, <2>2
    <2>4. At(rest, W) = {k}
      BY <1>7, <1>8, <2>1, <2>3
    <2> QED  BY <2>4 DEF OneOf
  <1>12. \A d : Within(list, W, d) => Within(rest, W, d)
    BY <1>6, <1>8 DEF Within
  <1>13. ASSUME NEW V, Precedes(list, W, V) PROVE Precedes(rest, W, V)
    <2>1. SUFFICES ASSUME NEW k \in At(rest, W), NEW l \in At(rest, V)
                   PROVE  k < l /\ rest[k].left <= rest[l].left
      BY DEF Precedes
    <2>2. /\ k \in DOMAIN rest /\ l \in DOMAIN rest
          /\ Old(k) \in At(list, W) /\ Old(l) \in At(list, V)
      BY <1>8
    <2>3. Old(k) < Old(l) /\ list[Old(k)].left <= list[Old(l)].left
      BY <1>13, <2>2 DEF Precedes
    <2> QED  BY <1>4, <1>6, <2>2, <2>3
  <1> QED  BY <1>9, <1>10, <1>11, <1>12, <1>13 DEF rest

(* Classes of events, when one is added.                                   *)
LEMMA ScheduleClass ==
    ASSUME NEW X, NEW list \in List(X), NEW d \in Nat, NEW w \in X, NEW W
    PROVE  LET more == Schedule(list, d, w) IN
           /\ w \notin W /\ NoneOf(list, W) => NoneOf(more, W)
           /\ w \notin W /\ OneOf(list, W) => OneOf(more, W)
           /\ w \in W /\ NoneOf(list, W) => OneOf(more, W)
           /\ \A c : Within(list, W, c) /\ (w \in W => d <= c)
                        => Within(more, W, c)
           /\ \A V : /\ Precedes(list, W, V)
                     /\ w \notin W
                     /\ w \in V => Within(list, W, d)
                     => Precedes(more, W, V)
  <1> DEFINE more == Schedule(list, d, w)
             n == Len(list) + 1
  <1>1. /\ Len(list) \in Nat /\ DOMAIN list = 1 .. Len(list)
        /\ DOMAIN more = 1 .. Len(list) + 1
        /\ \A k \in 1 .. Len(list) : more[k] = list[k]
        /\ more[n] = [left |-> d, what |-> w]
    BY ScheduleDoes
  <1> HIDE DEF more
  <1>2. more[n].left = d /\ more[n].what = w
    BY <1>1
  <1>3. /\ n \in DOMAIN more /\ n \notin DOMAIN list
        /\ \A k \in DOMAIN list : k < n /\ k \in DOMAIN more
        /\ \A k \in DOMAIN more : k # n => k \in DOMAIN list
        /\ \A k \in DOMAIN list : more[k] = list[k]
    BY <1>1
  <1> HIDE DEF n
  <1>4. \A U : At(more, U) = IF w \in U THEN At(list, U) \cup {n}
                             ELSE At(list, U)
    BY <1>2, <1>3 DEF At
  <1>5. \A U : At(list, U) \subseteq DOMAIN list
    BY DEF At
  <1>6. w \notin W /\ NoneOf(list, W) => NoneOf(more, W)
    BY <1>4 DEF NoneOf
  <1>7. w \notin W /\ OneOf(list, W) => OneOf(more, W)
    BY <1>3, <1>4 DEF OneOf
  <1>8. w \in W /\ NoneOf(list, W) => OneOf(more, W)
    BY <1>3, <1>4 DEF NoneOf, OneOf
  <1>9. ASSUME NEW c, Within(list, W, c), w \in W => d <= c
        PROVE  Within(more, W, c)
    BY <1>2, <1>3, <1>4, <1>5, <1>9 DEF Within
  <1>10. ASSUME NEW V, Precedes(list, W, V), w \notin W,
                w \in V => Within(list, W, d)
         PROVE  Precedes(more, W, V)
    <2>1. SUFFICES ASSUME NEW k \in At(more, W), NEW l \in At(more, V)
                   PROVE  k < l /\ more[k].left <= more[l].left
      BY DEF Precedes
    <2>2. k \in At(list, W) /\ k \in DOMAIN list
      BY <1>4, <1>5, <1>10
    <2>3. CASE l \in At(list, V)
      BY <1>3, <1>5, <1>10, <2>2, <2>3 DEF Precedes
    <2>4. CASE l = n /\ w \in V
      BY <1>2, <1>3, <1>10, <2>2, <2>4 DEF Within
    <2> QED  BY <1>4, <2>3, <2>4
  <1> QED  BY <1>6, <1>7, <1>8, <1>9, <1>10 DEF more

(* Classes of events, when time passes.                                    *)
LEMMA ElapseClass ==
    ASSUME NEW X, NEW list \in List(X), ~HasDue(list), NEW W
    PROVE  LET later == Elapse(list) IN
           /\ At(later, W) = At(list, W)
           /\ NoneOf(list, W) => NoneOf(later, W)
           /\ OneOf(list, W) => OneOf(later, W)
           /\ \A d \in Nat : Within(list, W, d) => Within(later, W, d)
           /\ \A V : Precedes(list, W, V) => Precedes(later, W, V)
  <1> DEFINE later == Elapse(list)
  <1>1. /\ DOMAIN later = DOMAIN list
        /\ \A k \in DOMAIN list : /\ later[k].left = list[k].left - 1
                                  /\ later[k].what = list[k].what
    BY ElapseDoes
  <1>2. \A k \in DOMAIN list : list[k].left \in Nat
    <2>1. DOMAIN list = 1 .. Len(list)
      BY DEF List
    <2> QED  BY <2>1, ElementDoes
  <1> HIDE DEF later
  <1>3. \A U : At(later, U) = At(list, U) /\ At(list, U) \subseteq DOMAIN list
    BY <1>1 DEF At
  <1>4. \A d \in Nat : Within(list, W, d) => Within(later, W, d)
    BY <1>1, <1>2, <1>3 DEF Within
  <1>5. \A V : Precedes(list, W, V) => Precedes(later, W, V)
    BY <1>1, <1>2, <1>3 DEF Precedes
  <1> QED  BY <1>1, <1>3, <1>4, <1>5 DEF NoneOf, OneOf, later

(* When an event of class V is next, those that precede V have run.        *)
LEMMA PrecedesNext ==
    ASSUME NEW X, NEW list \in List(X), HasDue(list), NEW W, NEW V,
           Precedes(list, W, V), NextEvent(list) \in V
    PROVE  NoneOf(list, W)
  <1> DEFINE n == NextIndex(list)
  <1>1. /\ n \in 1 .. Len(list) /\ list[n].left = 0 /\ list[n].what \in V
        /\ \A k \in 1 .. n - 1 : list[k].left > 0
        /\ Len(list) \in Nat /\ DOMAIN list = 1 .. Len(list)
    BY NextDoes DEF List
  <1> HIDE DEF n
  <1>2. SUFFICES ASSUME NEW k \in At(list, W) PROVE FALSE
    BY DEF NoneOf
  <1>3. n \in At(list, V) /\ k \in 1 .. Len(list)
    BY <1>1 DEF At
  <1>4. k < n /\ list[k].left <= 0
    BY <1>1, <1>3 DEF Precedes
  <1>5. k \in 1 .. n - 1 /\ list[k].left \in Nat
    BY <1>1, <1>3, <1>4, ElementDoes
  <1> QED  BY <1>1, <1>4, <1>5

(* The next event is one of its class.                                     *)
LEMMA NextNotNone ==
    ASSUME NEW X, NEW list \in List(X), HasDue(list), NEW W,
           NextEvent(list) \in W
    PROVE  ~NoneOf(list, W)
  <1>1. NextIndex(list) \in At(list, W)
    <2>1. DOMAIN list = 1 .. Len(list)
      BY DEF List
    <2>2. /\ NextIndex(list) \in 1 .. Len(list)
          /\ NextEvent(list) = list[NextIndex(list)].what
      BY NextDoes
    <2> QED  BY <2>1, <2>2 DEF At
  <1> QED  BY <1>1 DEF NoneOf
-------------------------------------------------------------------------------
(* What depends on the events of a class only.                             *)
LEMMA SameClass ==
    ASSUME NEW list, NEW more, NEW W, Same(list, more, W)
    PROVE  /\ NoneOf(list, W) => NoneOf(more, W)
           /\ OneOf(list, W) => OneOf(more, W)
           /\ \A d : Within(list, W, d) => Within(more, W, d)
           /\ \A d : NotBefore(list, W, d) => NotBefore(more, W, d)
           /\ \A d : Spaced(list, W, d) => Spaced(more, W, d)
           /\ \A V : Same(list, more, V) =>
                 /\ Precedes(list, W, V) => Precedes(more, W, V)
                 /\ \A d : Apart(list, W, V, d) => Apart(more, W, V, d)
  <1>1. At(more, W) = At(list, W) /\ \A k \in At(list, W) : more[k] = list[k]
    BY DEF Same
  <1>2. NoneOf(list, W) => NoneOf(more, W)
    BY <1>1 DEF NoneOf
  <1>3. OneOf(list, W) => OneOf(more, W)
    <2>1. At(more, W) \subseteq DOMAIN more
      BY DEF At
    <2> QED  BY <1>1, <2>1 DEF OneOf
  <1>4. \A d : Within(list, W, d) => Within(more, W, d)
    BY <1>1 DEF Within
  <1>5. \A d : NotBefore(list, W, d) => NotBefore(more, W, d)
    BY <1>1 DEF NotBefore
  <1>6. \A d : Spaced(list, W, d) => Spaced(more, W, d)
    BY <1>1 DEF Spaced
  <1>7. \A V : Same(list, more, V) =>
           /\ Precedes(list, W, V) => Precedes(more, W, V)
           /\ \A d : Apart(list, W, V, d) => Apart(more, W, V, d)
    BY <1>1 DEF Same, Precedes, Apart
  <1> QED  BY <1>2, <1>3, <1>4, <1>5, <1>6, <1>7

(* A class of which no event is scheduled.                                 *)
LEMMA NoneMeans ==
    ASSUME NEW list, NEW W, NoneOf(list, W)
    PROVE  /\ \A d : Within(list, W, d) /\ NotBefore(list, W, d)
                     /\ Spaced(list, W, d)
           /\ \A V : Precedes(list, W, V) /\ Precedes(list, V, W)
           /\ \A V, d : Apart(list, W, V, d) /\ Apart(list, V, W, d)
           /\ \A V : V \subseteq W => NoneOf(list, V)
  BY DEF NoneOf, Within, NotBefore, Spaced, Precedes, Apart, At

(* An event that is added leaves the other classes alone.                  *)
LEMMA ScheduleSame ==
    ASSUME NEW X, NEW list \in List(X), NEW d \in Nat, NEW w \in X,
           NEW W, w \notin W
    PROVE  Same(list, Schedule(list, d, w), W)
  <1> DEFINE more == Schedule(list, d, w)
             n == Len(list) + 1
  <1>1. /\ Len(list) \in Nat /\ DOMAIN list = 1 .. Len(list)
        /\ DOMAIN more = 1 .. Len(list) + 1
        /\ \A k \in 1 .. Len(list) : more[k] = list[k]
        /\ more[n] = [left |-> d, what |-> w]
    BY ScheduleDoes
  <1> HIDE DEF more
  <1>2. more[n].what = w /\ n \notin DOMAIN list
    BY <1>1
  <1>3. /\ \A k \in DOMAIN list : k \in DOMAIN more /\ more[k] = list[k]
        /\ \A k \in DOMAIN more : k \in DOMAIN list \/ k = n
    BY <1>1
  <1> HIDE DEF n
  <1>4. At(more, W) = At(list, W)
    BY <1>2, <1>3 DEF At
  <1>5. \A k \in At(list, W) : more[k] = list[k]
    BY <1>3 DEF At
  <1> QED  BY <1>4, <1>5 DEF Same, more

(* The times of a class to which an event is added.                        *)
LEMMA ScheduleTimes ==
    ASSUME NEW X, NEW list \in List(X), NEW d \in Nat, NEW w \in X, NEW W
    PROVE  LET more == Schedule(list, d, w) IN
           /\ \A c : NotBefore(list, W, c) /\ (w \in W => c <= d)
                        => NotBefore(more, W, c)
           /\ \A c \in Int : Spaced(list, W, c) /\ Within(list, W, d - c)
                        => Spaced(more, W, c)
           /\ \A V, c : /\ Apart(list, W, V, c)
                        /\ c \in Int
                        /\ w \in W => NotBefore(list, V, d + c)
                        /\ w \in V => Within(list, W, d - c)
                        /\ w \in W /\ w \in V => c <= 0
                        => Apart(more, W, V, c)
  <1> DEFINE more == Schedule(list, d, w)
             n == Len(list) + 1
  <1>1. /\ Len(list) \in Nat /\ DOMAIN list = 1 .. Len(list)
        /\ DOMAIN more = 1 .. Len(list) + 1
        /\ \A k \in 1 .. Len(list) : more[k] = list[k]
        /\ more[n] = [left |-> d, what |-> w]
    BY ScheduleDoes
  <1> HIDE DEF more
  <1>2. more[n].left = d /\ more[n].what = w
    BY <1>1
  <1>3. /\ n \in DOMAIN more /\ n \notin DOMAIN list
        /\ \A k \in DOMAIN list : k < n /\ k \in DOMAIN more
        /\ \A k \in DOMAIN more : k # n => k \in DOMAIN list
        /\ \A k \in DOMAIN list : more[k] = list[k]
        /\ \A k \in DOMAIN list : ~(n < k)
        /\ ~(n < n)
    BY <1>1
  <1>4. \A k \in DOMAIN list : list[k].left \in Nat
    BY <1>1, ElementDoes
  <1> HIDE DEF n
  <1>5. \A U : At(more, U) = IF w \in U THEN At(list, U) \cup {n}
                             ELSE At(list, U)
    BY <1>2, <1>3 DEF At
  <1>6. \A U : At(list, U) \subseteq DOMAIN list
    BY DEF At
  <1>7. \A c : NotBefore(list, W, c) /\ (w \in W => c <= d)
                 => NotBefore(more, W, c)
    BY <1>2, <1>3, <1>5, <1>6 DEF NotBefore
  <1>8. ASSUME NEW c \in Int, Spaced(list, W, c), Within(list, W, d - c)
        PROVE  Spaced(more, W, c)
    <2> SUFFICES ASSUME NEW k \in At(more, W), NEW l \in At(more, W), k < l
                 PROVE  more[k].left + c <= more[l].left
      BY DEF Spaced
    <2>1. k \in At(list, W)
      BY <1>3, <1>5, <1>6
    <2>2. CASE l \in At(list, W)
      BY <1>3, <1>6, <1>8, <2>1, <2>2 DEF Spaced
    <2>3. CASE l = n
      <3>1. list[k].left <= d - c /\ list[k].left \in Nat
        BY <1>4, <1>6, <1>8, <2>1 DEF Within
      <3> QED  BY <1>2, <1>3, <1>6, <2>1, <2>3, <3>1
    <2> QED  BY <1>5, <2>2, <2>3
  <1>9. ASSUME NEW V, NEW c \in Int, Apart(list, W, V, c),
               w \in W => NotBefore(list, V, d + c),
               w \in V => Within(list, W, d - c),
               w \in W /\ w \in V => c <= 0
        PROVE  Apart(more, W, V, c)
    <2> SUFFICES ASSUME NEW k \in At(more, W), NEW l \in At(more, V)
                 PROVE  more[k].left + c <= more[l].left
      BY DEF Apart
    <2>1. CASE k \in At(list, W) /\ l \in At(list, V)
      BY <1>3, <1>6, <1>9, <2>1 DEF Apart
    <2>2. CASE k = n /\ w \in W /\ l \in At(list, V)
      BY <1>2, <1>3, <1>6, <1>9, <2>2 DEF NotBefore
    <2>3. CASE k \in At(list, W) /\ l = n /\ w \in V
      <3>1. list[k].left <= d - c /\ list[k].left \in Nat
        BY <1>4, <1>6, <1>9, <2>3 DEF Within
      <3> QED  BY <1>2, <1>3, <1>6, <2>3, <3>1
    <2>4. CASE k = n /\ l = n /\ w \in W /\ w \in V
      BY <1>2, <1>9, <2>4
    <2> QED  BY <1>5, <2>1, <2>2, <2>3, <2>4
  <1> QED  BY <1>7, <1>8, <1>9 DEF more

(* The times of a class when the next event is run: it is the first of a   *)
(* spaced class, and nothing that is due later can be next.                *)
LEMMA RemoveTimes ==
    ASSUME NEW X, NEW list \in List(X), HasDue(list), NEW W
    PROVE  LET rest == RemoveNext(list) IN
           /\ \A d : NotBefore(list, W, d) => NotBefore(rest, W, d)
           /\ \A d : Spaced(list, W, d) => Spaced(rest, W, d)
           /\ \A V, d : Apart(list, W, V, d) => Apart(rest, W, V, d)
           /\ \A d \in Nat : Spaced(list, W, d) /\ NextEvent(list) \in W
                 => NotBefore(rest, W, d)
  <1> DEFINE rest == RemoveNext(list)
             n == NextIndex(list)
             Old(k) == IF k < n THEN k ELSE k + 1
  <1>1. /\ Len(list) \in Nat /\ DOMAIN list = 1 .. Len(list)
        /\ DOMAIN rest = 1 .. Len(list) - 1
        /\ \A k \in 1 .. Len(list) - 1 : rest[k] = list[Old(k)]
        /\ n \in 1 .. Len(list) /\ NextEvent(list) = list[n].what
        /\ list[n].left = 0 /\ \A k \in 1 .. n - 1 : list[k].left > 0
    <2>1. Len(list) \in Nat /\ DOMAIN list = 1 .. Len(list)
      BY DEF List
    <2>2. /\ DOMAIN rest = 1 .. Len(list) - 1
          /\ \A k \in 1 .. Len(list) - 1 : rest[k] = list[Old(k)]
      BY RemoveNextDoes
    <2>3. /\ n \in 1 .. Len(list) /\ NextEvent(list) = list[n].what
          /\ list[n].left = 0 /\ \A k \in 1 .. n - 1 : list[k].left > 0
      BY NextDoes
    <2> QED  BY <2>1, <2>2, <2>3
  <1> HIDE DEF rest, n
  <1>2. \A k \in DOMAIN rest : Old(k) \in DOMAIN list /\ Old(k) # n
    BY <1>1
  <1>3. \A k, l \in DOMAIN rest : k < l => Old(k) < Old(l)
    BY <1>1
  <1>4. \A k \in DOMAIN rest : rest[k] = list[Old(k)]
    BY <1>1
  <1> HIDE DEF Old
  <1>5. \A U : \A k \in At(rest, U) : k \in DOMAIN rest /\ Old(k) \in At(list, U)
    BY <1>2, <1>4 DEF At
  <1>6. \A d : NotBefore(list, W, d) => NotBefore(rest, W, d)
    BY <1>4, <1>5 DEF NotBefore
  <1>7. \A d : Spaced(list, W, d) => Spaced(rest, W, d)
    BY <1>3, <1>4, <1>5 DEF Spaced
  <1>8. \A V, d : Apart(list, W, V, d) => Apart(rest, W, V, d)
    BY <1>4, <1>5 DEF Apart
  <1>9. ASSUME NEW d \in Nat, Spaced(list, W, d), NextEvent(list) \in W
        PROVE  NotBefore(rest, W, d)
    <2> SUFFICES ASSUME NEW k \in At(rest, W)
                 PROVE  d <= rest[k].left
      BY DEF NotBefore
    <2>1. /\ Old(k) \in At(list, W) /\ Old(k) # n /\ Old(k) \in 1 .. Len(list)
          /\ rest[k] = list[Old(k)] /\ n \in At(list, W)
          /\ list[Old(k)].left \in Nat
      BY <1>1, <1>2, <1>4, <1>5, <1>9, ElementDoes DEF At
    <2>2. CASE Old(k) < n
      <3>1. list[Old(k)].left + d <= 0 /\ list[Old(k)].left > 0
        BY <1>1, <1>9, <2>1, <2>2 DEF Spaced
      <3> QED  BY <2>1, <3>1
    <2>3. CASE n < Old(k)
      <3>1. 0 + d <= list[Old(k)].left
        BY <1>1, <1>9, <2>1, <2>3 DEF Spaced
      <3> QED  BY <2>1, <3>1
    <2> QED  BY <1>1, <2>1, <2>2, <2>3
  <1> QED  BY <1>6, <1>7, <1>8, <1>9 DEF rest

(* What the next event says of the times of others.                        *)
LEMMA NextTimes ==
    ASSUME NEW X, NEW list \in List(X), HasDue(list), NEW W
    PROVE  /\ \A d \in Nat \ {0} : NotBefore(list, W, d)
                 => NextEvent(list) \notin W
           /\ \A V, d : Apart(list, W, V, d) /\ d \in Int =>
                 /\ NextEvent(list) \in W => NotBefore(list, V, d)
                 /\ NextEvent(list) \in V => Within(list, W, 0 - d)
  <1> DEFINE n == NextIndex(list)
  <1>1. /\ Len(list) \in Nat /\ DOMAIN list = 1 .. Len(list)
        /\ n \in DOMAIN list /\ NextEvent(list) = list[n].what
        /\ list[n].left = 0
    <2>1. Len(list) \in Nat /\ DOMAIN list = 1 .. Len(list)
      BY DEF List
    <2> QED  BY <2>1, NextDoes
  <1>2. \A k \in DOMAIN list : list[k].left \in Nat
    BY <1>1, ElementDoes
  <1> HIDE DEF n
  <1>3. \A U : At(list, U) \subseteq DOMAIN list
    BY DEF At
  <1>4. \A U : NextEvent(list) \in U => n \in At(list, U)
    BY <1>1 DEF At
  <1>5. \A d \in Nat \ {0} : NotBefore(list, W, d) => NextEvent(list) \notin W
    BY <1>1, <1>4 DEF NotBefore
  <1>6. ASSUME NEW V, NEW d \in Int, Apart(list, W, V, d),
               NextEvent(list) \in W
        PROVE  NotBefore(list, V, d)
    BY <1>1, <1>4, <1>6 DEF NotBefore, Apart
  <1>7. ASSUME NEW V, NEW d \in Int, Apart(list, W, V, d),
               NextEvent(list) \in V
        PROVE  Within(list, W, 0 - d)
    <2> SUFFICES ASSUME NEW k \in At(list, W) PROVE list[k].left <= 0 - d
      BY DEF Within
    <2>1. list[k].left \in Nat /\ list[k].left + d <= 0
      BY <1>1, <1>2, <1>3, <1>4, <1>7 DEF Apart
    <2> QED  BY <2>1
  <1> QED  BY <1>5, <1>6, <1>7

(* The times of a class when time passes.                                  *)
LEMMA ElapseTimes ==
    ASSUME NEW X, NEW list \in List(X), ~HasDue(list), NEW W
    PROVE  LET later == Elapse(list) IN
           /\ \A d \in Int : Spaced(list, W, d) => Spaced(later, W, d)
           /\ \A V : \A d \in Int :
                 Apart(list, W, V, d) => Apart(later, W, V, d)
           /\ Within(list, W, 0) => NoneOf(list, W)
           /\ \A d \in Int : Within(list, W, d) => Within(later, W, d - 1)
  <1> DEFINE later == Elapse(list)
  <1>1. /\ DOMAIN later = DOMAIN list
        /\ \A k \in DOMAIN list : /\ later[k].left = list[k].left - 1
                                  /\ later[k].what = list[k].what
                                  /\ list[k].left >= 1
    BY ElapseDoes
  <1>2. \A k \in DOMAIN list : list[k].left \in Nat
    <2>1. DOMAIN list = 1 .. Len(list)
      BY DEF List
    <2> QED  BY <2>1, ElementDoes
  <1> HIDE DEF later
  <1>3. \A U : At(later, U) = At(list, U) /\ At(list, U) \subseteq DOMAIN list
    BY <1>1 DEF At
  <1>4. \A d \in Int : Spaced(list, W, d) => Spaced(later, W, d)
    BY <1>1, <1>2, <1>3 DEF Spaced
  <1>5. \A V : \A d \in Int : Apart(list, W, V, d) => Apart(later, W, V, d)
    BY <1>1, <1>2, <1>3 DEF Apart
  <1>6. Within(list, W, 0) => NoneOf(list, W)
    <2> SUFFICES ASSUME Within(list, W, 0), NEW k \in At(list, W) PROVE FALSE
      BY DEF NoneOf
    <2>1. list[k].left <= 0 /\ list[k].left >= 1 /\ list[k].left \in Nat
      BY <1>1, <1>2, <1>3 DEF Within
    <2> QED  BY <2>1
  <1>7. \A d \in Int : Within(list, W, d) => Within(later, W, d - 1)
    BY <1>1, <1>2, <1>3 DEF Within
  <1> QED  BY <1>4, <1>5, <1>6, <1>7 DEF later
-------------------------------------------------------------------------------
Idle(d) == d.machine = "READY" /\ d.current = NoPacket
Sending(d, p) == d.machine = "BUSY" /\ d.current = p

(* A handler leaves the transmitter with the packet it has started, or     *)
(* idle.                                                                   *)
Started(r) ==
    IF r.sent = NoPacket THEN Idle(r.device) ELSE Sending(r.device, r.sent)

(* It leaves alone whether the uplink works, which queue it serves, and    *)
(* whether it has crashed.                                                 *)
SameMode(d, e) ==
    e.working = d.working /\ e.queue = d.queue /\ e.crashed = d.crashed

(* A packet it has started was the oldest of the working queue.            *)
SentHead(d, r) ==
    r.sent # NoPacket =>
        d.queues[d.queue] # <<>> /\ r.sent = Head(d.queues[d.queue])
-------------------------------------------------------------------------------
(* Serving the working queue, with the transmitter idle.                   *)
LEMMA ServeSends ==
    ASSUME NEW P, NoPacket \notin P, NEW d \in DeviceState(P), Idle(d)
    PROVE  LET r == ServeWorkingQueue(d) IN
           /\ r.sent \in P \cup {NoPacket}
           /\ Started(r) /\ SameMode(d, r.device) /\ SentHead(d, r)
  <1> DEFINE q == d.queues[d.queue]
             e == [d EXCEPT !.queues[d.queue] = Tail(q), !.machine = "BUSY",
                            !.current = Head(q)]
  <1>1. d.queue \in Slot /\ q \in Seq(P)
    BY DEF DeviceState
  <1>2. CASE q = <<>>
    <2>1. ServeWorkingQueue(d) = Result(d, NoPacket, FALSE)
      BY <1>2 DEF ServeWorkingQueue
    <2> QED  BY <2>1 DEF Result, Started, SameMode, SentHead
  <1>3. CASE q # <<>>
    <2>1. ServeWorkingQueue(d) = Result(e, Head(q), TRUE)
      BY <1>3 DEF ServeWorkingQueue, TransmitStart, DeviceState
    <2>2. Head(q) \in P
      BY <1>1, <1>3, HeadTailProperties
    <2>3. Sending(e, Head(q)) /\ SameMode(d, e)
      BY DEF Sending, SameMode, DeviceState
    <2> HIDE DEF q, e
    <2> QED  BY <1>3, <2>1, <2>2, <2>3 DEF Result, Started, SentHead, q
  <1> QED  BY <1>2, <1>3

(* Send: the packet it starts is the oldest of the queue it serves, which  *)
(* may be the packet it was called with.                                   *)
LEMMA SendSends ==
    ASSUME NEW P, NoPacket \notin P, NEW d \in DeviceState(P),
           NEW p \in P, NEW k \in Slot,
           Idle(d) \/ d.machine = "BUSY"
    PROVE  LET r == Send(d, p, k) IN
           /\ SameMode(d, r.device) /\ r.sent \in P \cup {NoPacket}
           /\ Idle(d) => Started(r)
           /\ ~Idle(d) => /\ r.sent = NoPacket
                          /\ r.device.machine = d.machine
                          /\ r.device.current = d.current
           /\ r.sent # NoPacket =>
                 /\ d.working
                 /\ SentHead(d, r) \/ (k = d.queue /\ r.sent = p)
  <1> DEFINE e == [d EXCEPT !.queues[k] = Append(@, p)]
             q == d.queues[d.queue]
  <1>1. d.queue \in Slot /\ d.queues \in [Slot -> Seq(P)] /\ q \in Seq(P)
    BY DEF DeviceState
  <1>2. /\ e \in DeviceState(P) /\ SameMode(d, e)
        /\ e.machine = d.machine /\ e.current = d.current
        /\ e.queues[d.queue] = IF k = d.queue THEN Append(q, p) ELSE q
    <2>1. Append(d.queues[k], p) \in Seq(P)
      BY <1>1
    <2> QED  BY <1>1, <2>1 DEF DeviceState, SameMode
  <1>3. CASE Send(d, p, k) = Result(d, NoPacket, FALSE)
    BY <1>3 DEF Result, SameMode, Started
  <1>4. CASE Send(d, p, k) = Result(e, NoPacket, TRUE)
    <2> HIDE DEF e
    <2> QED  BY <1>2, <1>4 DEF Result, SameMode, Started, Idle
  <1>5. CASE /\ d.working /\ d.machine = "READY"
             /\ Send(d, p, k) = ServeWorkingQueue(e)
    <2> HIDE DEF e
    <2> DEFINE r == Send(d, p, k)
    <2>1. Idle(d) /\ Idle(e)
      BY <1>2, <1>5 DEF Idle
    <2>2. /\ r.sent \in P \cup {NoPacket}
          /\ Started(r) /\ SameMode(e, r.device) /\ SentHead(e, r)
      BY <1>2, <1>5, <2>1, ServeSends
    <2> HIDE DEF r
    <2>3. ASSUME r.sent # NoPacket
          PROVE  SentHead(d, r) \/ (k = d.queue /\ r.sent = p)
      <3>1. r.sent = Head(e.queues[d.queue]) /\ e.queues[d.queue] # <<>>
        BY <1>2, <2>2, <2>3 DEF SentHead, SameMode
      <3>2. CASE k # d.queue
        <4>1. e.queues[d.queue] = d.queues[d.queue]
          BY <1>2, <3>2
        <4> QED  BY <3>1, <4>1 DEF SentHead
      <3>3. CASE k = d.queue /\ q = <<>>
        <4>1. Append(q, p) = <<p>>
          BY <3>3
        <4> QED  BY <1>2, <3>1, <3>3, <4>1
      <3>4. CASE k = d.queue /\ q # <<>>
        <4> HIDE DEF q
        <4>1. Head(Append(q, p)) = Head(q)
          BY <1>1, <3>4, HeadTailAppend
        <4> QED  BY <1>2, <3>1, <3>4, <4>1 DEF SentHead, q
      <3> QED  BY <3>2, <3>3, <3>4
    <2>4. SameMode(d, r.device)
      BY <1>2, <2>2 DEF SameMode
    <2> QED  BY <1>5, <2>1, <2>2, <2>3, <2>4 DEF r
  <1>6. \/ Send(d, p, k) = Result(d, NoPacket, FALSE)
        \/ Send(d, p, k) = Result(e, NoPacket, TRUE)
        \/ /\ d.working /\ d.machine = "READY"
           /\ Send(d, p, k) = ServeWorkingQueue(e)
    BY DEF Send
  <1> QED  BY <1>3, <1>4, <1>5, <1>6

(* TransmitComplete, when its assertions hold.                             *)
LEMMA CompleteSends ==
    ASSUME NEW P, NoPacket \notin P, NEW d \in DeviceState(P),
           d.machine = "BUSY", d.current # NoPacket
    PROVE  LET r == TransmitComplete(d) IN
           /\ r.sent \in P \cup {NoPacket}
           /\ Started(r) /\ SameMode(d, r.device) /\ SentHead(d, r)
           /\ r.sent # NoPacket => d.working
  <1> DEFINE e == [d EXCEPT !.machine = "READY", !.current = NoPacket]
             r == TransmitComplete(d)
  <1>1. /\ e \in DeviceState(P) /\ Idle(e) /\ SameMode(d, e)
        /\ e.queues = d.queues
    BY DEF DeviceState, Idle, SameMode
  <1>2. r = IF d.working THEN ServeWorkingQueue(e)
                         ELSE Result(e, NoPacket, TRUE)
    BY DEF TransmitComplete
  <1> HIDE DEF e, r
  <1>3. CASE d.working
    <2>1. /\ r.sent \in P \cup {NoPacket}
          /\ Started(r) /\ SameMode(e, r.device) /\ SentHead(e, r)
      BY <1>1, <1>2, <1>3, ServeSends
    <2> QED  BY <1>1, <1>3, <2>1 DEF SameMode, SentHead, r
  <1>4. CASE ~d.working
    <2>1. r.sent = NoPacket /\ r.device = e
      BY <1>2, <1>4 DEF Result
    <2> QED  BY <1>1, <2>1 DEF Started, SentHead, r
  <1> QED  BY <1>3, <1>4

(* BeginWork.                                                              *)
LEMMA BeginWorkSends ==
    ASSUME NEW P, NoPacket \notin P, NEW d \in DeviceState(P)
    PROVE  LET r == BeginWork(d) IN
           /\ r.sent \in P \cup {NoPacket}
           /\ Started(r) /\ SentHead(d, r)
           /\ r.device.working /\ r.device.queue = d.queue
           /\ r.device.crashed = d.crashed
  <1> DEFINE e == [d EXCEPT !.working = TRUE, !.machine = "READY",
                            !.current = NoPacket]
             r == BeginWork(d)
  <1>1. /\ e \in DeviceState(P) /\ Idle(e) /\ e.working
        /\ e.queue = d.queue /\ e.crashed = d.crashed
        /\ e.queues = d.queues
    BY DEF DeviceState, Idle
  <1>2. r = ServeWorkingQueue(e)
    BY DEF BeginWork
  <1> HIDE DEF e
  <1>3. /\ r.sent \in P \cup {NoPacket}
        /\ Started(r) /\ SameMode(e, r.device) /\ SentHead(e, r)
    BY <1>1, <1>2, ServeSends
  <1> QED  BY <1>1, <1>3 DEF SameMode, SentHead

(* SetWorkingQueue and IntoNight do not touch the transmission under way;  *)
(* with two or three queues IntoNight may fail.                            *)
LEMMA NightSends ==
    ASSUME NEW P, NEW d \in DeviceState(P), NEW k \in Slot
    PROVE  LET e == IntoNight(SetWorkingQueue(d, k)) IN
           /\ ~e.working /\ e.machine = d.machine /\ e.current = d.current
           /\ Q \notin {2, 3} => e.crashed = d.crashed
  <1> DEFINE s == SetWorkingQueue(d, k)
             n == [s EXCEPT !.working = FALSE]
             f == FlushedQueue(s)
  <1>1. /\ ~n.working /\ n.machine = d.machine /\ n.current = d.current
        /\ n.crashed = d.crashed /\ s.queue = k /\ n \in DeviceState(P)
    BY DEF SetWorkingQueue, DeviceState
  <1>2. IntoNight(s) = IF Q > 4 THEN n
                       ELSE IF f \notin Slot THEN [n EXCEPT !.crashed = TRUE]
                       ELSE [n EXCEPT !.queues[f] = <<>>]
    BY DEF IntoNight, Crash, Result
  <1>3. Q \notin {2, 3} => Q > 4 \/ f \in Slot
    <2>1. f = IF Q = 1 THEN 0 ELSE (s.queue + 3) % 4
      BY DEF FlushedQueue
    <2> HIDE DEF s, f
    <2>2. CASE Q = 1
      BY <2>1, <2>2 DEF Slot
    <2>3. CASE Q = 4
      BY <1>1, <2>1, <2>3 DEF Slot
    <2> QED  BY <2>2, <2>3, DeviceAssumption
  <1> HIDE DEF n, f, s
  <1> QED  BY <1>1, <1>2, <1>3 DEF DeviceState, s
===============================================================================
