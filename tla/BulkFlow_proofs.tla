---------------------------- MODULE BulkFlow_proofs ----------------------------
(***************************************************************************)
(* Proofs about the bulk sender over its socket and link, for every size   *)
(* of flow, packet and buffer, all thresholds and capacities, any number   *)
(* of losses.  The first part is about streams of pieces; the second about *)
(* the two links, whatever the packets are and whichever belong to which   *)
(* class; the third about the loop of SendData.  The inductive invariant   *)
(* BulkInv, last, joins them: the classes are those the pieces of the      *)
(* stream belong to.                                                       *)
(***************************************************************************)
EXTENDS BulkFlow, SequenceTheorems, NaturalsInduction, WellFoundedInduction,
        TLAPS

(* A non-empty set of naturals has a least element, which Min picks.       *)
LEMMA MinIn ==
    ASSUME NEW S \in SUBSET Nat, S # {}
    PROVE  Min(S) \in S /\ \A x \in S : Min(S) <= x
  <1>1. PICK x \in S : \A y \in S : ~(<<y, x>> \in OpToRel(<, Nat))
    BY NatLessThanWellFounded, WFMin
  <1>2. \A y \in S : ~(y < x)
    BY <1>1 DEF OpToRel
  <1>3. \A y \in S : x <= y
    BY <1>2
  <1> QED  BY <1>3 DEF Min

(* Induction up to M, over a set.                                          *)
LEMMA SetInduction ==
    ASSUME NEW M \in Nat, NEW S, 0 \in S,
           \A n \in 0 .. M - 1 : n \in S => n + 1 \in S
    PROVE  0 .. M \subseteq S
  <1> DEFINE C == {n \in 0 .. M : n \notin S}
  <1> SUFFICES ASSUME C # {} PROVE FALSE
    OBVIOUS
  <1>1. C \in SUBSET Nat
    OBVIOUS
  <1> DEFINE m == Min(C)
  <1>2. m \in C /\ \A x \in C : m <= x
    BY <1>1, MinIn
  <1> HIDE DEF m
  <1>3. m \in 1 .. M
    BY <1>2
  <1>4. m - 1 \in 0 .. M - 1 /\ m - 1 \notin C /\ (m - 1) + 1 = m
    BY <1>2, <1>3
  <1>5. m - 1 \in S
    BY <1>4
  <1> QED  BY <1>2, <1>4, <1>5

(* A function that is defined by recursion up to M, with values in L.       *)
Recursion(f, M, L, base, step) ==
    /\ f \in [0 .. M -> L] /\ f[0] = base
    /\ \A n \in 1 .. M : f[n] = step[n][f[n - 1]]

(* There is one.                                                           *)
LEMMA RecursionExists ==
    ASSUME NEW M \in Nat, NEW L, NEW base \in L,
           NEW step \in [1 .. M -> [L -> L]]
    PROVE  \E f : Recursion(f, M, L, base, step)
  <1> DEFINE Upto(m, f) == Recursion(f, m, L, base, step)
             S == {m \in 0 .. M : \E f : Upto(m, f)}
  <1>1. 0 \in S
    <2>1. Upto(0, [n \in 0 .. 0 |-> base])
      BY DEF Recursion
    <2>2. 0 \in 0 .. M
      OBVIOUS
    <2> HIDE DEF Upto
    <2> QED  BY <2>1, <2>2
  <1>2. ASSUME NEW m \in 0 .. M - 1, m \in S
        PROVE  m + 1 \in S
    <2>1. PICK f : Upto(m, f)
      BY <1>2
    <2> DEFINE x == step[m + 1][f[m]]
               g == [n \in 0 .. m + 1 |-> IF n = m + 1 THEN x ELSE f[n]]
    <2>2. f[m] \in L /\ m + 1 \in 1 .. M /\ m + 1 \in 0 .. M
      BY <2>1 DEF Recursion
    <2>3. x \in L
      BY <2>2
    <2>4. g \in [0 .. m + 1 -> L]
      <3> HIDE DEF x
      <3>1. \A n \in 0 .. m + 1 : n # m + 1 => n \in 0 .. m
        OBVIOUS
      <3> QED  BY <2>1, <2>3, <3>1 DEF Recursion
    <2>5. g[0] = base
      BY <2>1 DEF Recursion
    <2>6. ASSUME NEW n \in 1 .. m + 1
          PROVE  g[n] = step[n][g[n - 1]]
      <3>1. /\ n \in 0 .. m + 1 /\ n - 1 \in 0 .. m + 1
            /\ n - 1 # m + 1
        OBVIOUS
      <3>2. g[n - 1] = f[n - 1]
        BY <3>1
      <3>3. CASE n = m + 1
        <4>1. n - 1 = m
          BY <3>3
        <4> QED  BY <3>1, <3>2, <3>3, <4>1
      <3>4. CASE n # m + 1
        <4>1. n \in 1 .. m
          BY <3>4
        <4> QED  BY <2>1, <3>1, <3>2, <3>4, <4>1 DEF Recursion
      <3> QED  BY <3>3, <3>4
    <2> HIDE DEF g
    <2>7. Upto(m + 1, g)
      BY <2>4, <2>5, <2>6 DEF Recursion
    <2> QED  BY <2>2, <2>7
  <1> HIDE DEF S
  <1>3. 0 .. M \subseteq S
    BY <1>1, <1>2, SetInduction
  <1>4. M \in S
    BY <1>3
  <1> QED  BY <1>4 DEF S

-------------------------------------------------------------------------------
(* The pieces of a stream, one behind the other, and where it ends.        *)
Pieces == [seq : Number, from : Nat, len : Nat, left : Nat]
Follows(a, k) ==
    a[k].from = IF k = 1 THEN 0 ELSE a[k - 1].from + a[k - 1].len
Joined(a) == \A k \in DOMAIN a : a[k].len > 0 /\ Follows(a, k)
EndOf(a, k) == IF k = 0 THEN 0 ELSE a[k].from + a[k].len

(* What pieces are made of.                                                *)
LEMMA PiecesAre ==
    ASSUME NEW a \in Seq(Pieces)
    PROVE  /\ Len(a) \in Nat /\ DOMAIN a = 1 .. Len(a)
           /\ \A k \in 1 .. Len(a) :
                 /\ a[k] \in Pieces /\ a[k].seq \in Number
                 /\ a[k].from \in Nat /\ a[k].len \in Nat /\ a[k].left \in Nat
  <1>1. Len(a) \in Nat /\ DOMAIN a = 1 .. Len(a)
    BY LenProperties
  <1>2. \A k \in 1 .. Len(a) : a[k] \in Pieces
    BY ElementOfSeq
  <1> QED  BY <1>1, <1>2 DEF Pieces

(* The running sum that BytesOf returns the last value of.                 *)
LEMMA BytesIs ==
    ASSUME NEW s \in Seq(Pieces)
    PROVE  \E f : /\ f[0] = 0 /\ f[Len(s)] = BytesOf(s)
                  /\ \A n \in 1 .. Len(s) : f[n] = f[n - 1] + s[n].len
  <1> DEFINE M == Len(s)
             step == [n \in 1 .. M |-> [x \in Nat |-> x + s[n].len]]
             Body(f) == [n \in 0 .. M |-> IF n = 0 THEN 0
                                          ELSE f[n - 1] + s[n].len]
  <1>1. M \in Nat /\ \A n \in 1 .. M : s[n].len \in Nat
    BY PiecesAre
  <1>2. step \in [1 .. M -> [Nat -> Nat]]
    BY <1>1
  <1> HIDE DEF M
  <1>3. PICK f : Recursion(f, M, Nat, 0, step)
    <2> HIDE DEF step
    <2> QED  BY <1>1, <1>2, RecursionExists
  <1>4. f = Body(f)
    <2>1. ASSUME NEW n \in 0 .. M
          PROVE  f[n] = IF n = 0 THEN 0 ELSE f[n - 1] + s[n].len
      <3>1. CASE n = 0
        BY <1>3, <3>1 DEF Recursion
      <3>2. CASE n # 0
        <4>1. n \in 1 .. M /\ n - 1 \in 0 .. M
          BY <1>1, <3>2
        <4>2. f[n - 1] \in Nat
          BY <1>3, <4>1 DEF Recursion
        <4>3. f[n] = step[n][f[n - 1]]
          BY <1>3, <4>1 DEF Recursion
        <4> QED  BY <3>2, <4>1, <4>2, <4>3
      <3> QED  BY <3>1, <3>2
    <2> QED  BY <1>3, <2>1 DEF Recursion
  <1> DEFINE g == CHOOSE h : h = Body(h)
  <1>5. g = Body(g)
    <2> HIDE DEF Body
    <2> QED  BY <1>4
  <1>6. BytesOf(s) = g[M]
    BY DEF BytesOf, M
  <1> HIDE DEF g
  <1>7. g[0] = 0
    BY <1>1, <1>5
  <1>8. ASSUME NEW n \in 1 .. M
        PROVE  g[n] = g[n - 1] + s[n].len
    BY <1>1, <1>5
  <1> QED  BY <1>6, <1>7, <1>8 DEF M

(* The bytes of pieces that follow one another are those from the first    *)
(* to the end of the last.                                                 *)
LEMMA BytesSpan ==
    ASSUME NEW s \in Seq(Pieces), s # <<>>,
           \A k \in 2 .. Len(s) : s[k].from = s[k - 1].from + s[k - 1].len
    PROVE  BytesOf(s) = s[Len(s)].from + s[Len(s)].len - s[1].from
  <1>1. PICK f : /\ f[0] = 0 /\ f[Len(s)] = BytesOf(s)
                 /\ \A n \in 1 .. Len(s) : f[n] = f[n - 1] + s[n].len
    BY BytesIs
  <1> DEFINE M == Len(s) - 1
             S == {n \in 0 .. M : f[n + 1] = s[n + 1].from + s[n + 1].len
                                                - s[1].from}
  <1>2. M \in Nat /\ Len(s) = M + 1
    BY EmptySeq, LenProperties
  <1>3. \A n \in 1 .. M + 1 : s[n].from \in Nat /\ s[n].len \in Nat
    BY <1>2, PiecesAre
  <1> HIDE DEF M
  <1>4. 0 \in S
    <2>1. 1 \in 1 .. M + 1 /\ 1 - 1 = 0 /\ 0 + 1 = 1
      BY <1>2
    <2>2. f[1] = f[0] + s[1].len
      BY <1>1, <1>2, <2>1
    <2> QED  BY <1>1, <1>2, <1>3, <2>1, <2>2
  <1>5. ASSUME NEW n \in 0 .. M - 1, n \in S
        PROVE  n + 1 \in S
    <2>1. /\ n + 1 \in 1 .. M + 1 /\ n + 2 \in 1 .. M + 1
          /\ n + 2 \in 2 .. M + 1 /\ (n + 2) - 1 = n + 1
          /\ (n + 1) + 1 = n + 2 /\ n + 1 \in 0 .. M /\ 1 \in 1 .. M + 1
      BY <1>2
    <2>2. f[n + 2] = f[n + 1] + s[n + 2].len
      BY <1>1, <1>2, <2>1
    <2>3. s[n + 2].from = s[n + 1].from + s[n + 1].len
      BY <1>2, <2>1
    <2> DEFINE p == s[n + 1].from
               q == s[n + 1].len
               x == s[n + 2].from
               y == s[n + 2].len
               o == s[1].from
    <2>4. p \in Nat /\ q \in Nat /\ x \in Nat /\ y \in Nat /\ o \in Nat
      BY <1>3, <2>1
    <2>5. f[n + 1] = p + q - o
      BY <1>5
    <2>6. f[n + 2] = f[n + 1] + y /\ x = p + q
      BY <2>2, <2>3
    <2> HIDE DEF p, q, x, y, o
    <2>7. f[n + 2] = x + y - o
      BY <2>4, <2>5, <2>6
    <2>8. f[(n + 1) + 1] = s[(n + 1) + 1].from + s[(n + 1) + 1].len - s[1].from
      BY <2>1, <2>7 DEF x, y, o
    <2> QED  BY <2>1, <2>8
  <1>6. 0 .. M \subseteq S
    <2> HIDE DEF S
    <2> QED  BY <1>2, <1>4, <1>5, SetInduction
  <1> QED  BY <1>1, <1>2, <1>6

(* The empty sequence.                                                     *)
LEMMA NoBytes ==
    BytesOf(<<>>) = 0
  <1>1. <<>> \in Seq(Pieces) /\ Len(<<>>) = 0
    BY EmptySeq
  <1> QED  BY <1>1, BytesIs

(* Ends never decrease.                                                    *)
LEMMA EndsGrow ==
    ASSUME NEW a \in Seq(Pieces), Joined(a),
           NEW n \in 0 .. Len(a), NEW m \in n .. Len(a)
    PROVE  EndOf(a, n) <= EndOf(a, m) /\ EndOf(a, m) \in Nat
  <1>1. Len(a) \in Nat /\ DOMAIN a = 1 .. Len(a)
    BY LenProperties
  <1>2. \A k \in 1 .. Len(a) : a[k].from \in Nat /\ a[k].len \in Nat
    BY PiecesAre
  <1>3. \A k \in 0 .. Len(a) : EndOf(a, k) \in Nat
    BY <1>1, <1>2 DEF EndOf
  <1>4. ASSUME NEW k \in 0 .. Len(a) - 1
        PROVE  EndOf(a, k + 1) = EndOf(a, k) + a[k + 1].len
    <2>1. k + 1 \in 1 .. Len(a) /\ (k + 1) - 1 = k
      BY <1>1
    <2>2. a[k + 1].from = IF k + 1 = 1 THEN 0 ELSE EndOf(a, k)
      BY <1>1, <2>1 DEF Joined, Follows, EndOf
    <2> QED  BY <1>2, <2>1, <2>2 DEF EndOf
  <1> DEFINE M == m - n
             S == {k \in 0 .. M : EndOf(a, n) <= EndOf(a, n + k)}
  <1>5. M \in Nat /\ n + M = m /\ n \in Nat /\ m \in Nat /\ m <= Len(a)
    BY <1>1
  <1> HIDE DEF M
  <1>6. 0 \in S
    BY <1>3, <1>5
  <1>7. ASSUME NEW k \in 0 .. M - 1, k \in S
        PROVE  k + 1 \in S
    <2>1. /\ n + k \in 0 .. Len(a) - 1 /\ n + (k + 1) = (n + k) + 1
          /\ n + k \in 0 .. Len(a) /\ (n + k) + 1 \in 1 .. Len(a)
          /\ k + 1 \in 0 .. M
      BY <1>1, <1>5
    <2>2. EndOf(a, n + (k + 1)) = EndOf(a, n + k) + a[(n + k) + 1].len
      BY <1>4, <2>1
    <2> DEFINE x == EndOf(a, n)
               y == EndOf(a, n + k)
               z == EndOf(a, n + (k + 1))
               l == a[(n + k) + 1].len
    <2>3. x \in Nat /\ y \in Nat /\ l \in Nat
      BY <1>2, <1>3, <1>5, <2>1
    <2>4. x <= y /\ z = y + l
      BY <1>7, <2>2
    <2> HIDE DEF x, y, z, l
    <2>5. x <= z
      BY <2>3, <2>4
    <2> QED  BY <2>1, <2>5 DEF x, z
  <1>8. 0 .. M \subseteq S
    <2> HIDE DEF S
    <2> QED  BY <1>5, <1>6, <1>7, SetInduction
  <1>9. EndOf(a, n) <= EndOf(a, n + M)
    <2>1. M \in 0 .. M
      BY <1>5
    <2> QED  BY <1>8, <2>1
  <1>10. m \in 0 .. Len(a)
    BY <1>1, <1>5
  <1> QED  BY <1>3, <1>5, <1>9, <1>10

(* The bytes after the first n pieces.                                     *)
LEMMA BytesAfter ==
    ASSUME NEW a \in Seq(Pieces), Joined(a), NEW n \in 0 .. Len(a)
    PROVE  BytesOf(SubSeq(a, n + 1, Len(a)))
              = EndOf(a, Len(a)) - EndOf(a, n)
  <1>1. Len(a) \in Nat /\ DOMAIN a = 1 .. Len(a)
    BY LenProperties
  <1>2. \A k \in 1 .. Len(a) : a[k].from \in Nat /\ a[k].len \in Nat
    BY PiecesAre
  <1>3. CASE n = Len(a)
    <2>1. SubSeq(a, n + 1, Len(a)) = <<>>
      BY <1>1, <1>3, SubSeqEmpty
    <2>2. EndOf(a, n) \in Nat /\ EndOf(a, n) - EndOf(a, n) = 0
      BY <1>1, <1>2 DEF EndOf
    <2> QED  BY <1>3, <2>1, <2>2, NoBytes
  <1>4. CASE n # Len(a)
    <2> DEFINE l == Len(a)
    <2>0. n \in Nat /\ n < l /\ l - n \in Nat /\ n + 1 <= l
             /\ l - (n + 1) + 1 = l - n /\ n + 1 \in Int
      <3>1. l \in Nat /\ n \in 0 .. l /\ n # l
        BY <1>1, <1>4
      <3> HIDE DEF l
      <3> QED  BY <3>1
    <2> DEFINE t == SubSeq(a, n + 1, Len(a))
    <2>1. \A i \in n + 1 .. Len(a) : a[i] \in Pieces
      BY <1>1, ElementOfSeq
    <2>2. t \in Seq(Pieces) /\ Len(t) = Len(a) - n
      BY <1>1, <2>0, <2>1, SubSeqProperties
    <2>3. \A i \in 1 .. Len(a) - n : t[i] = a[n + i]
      <3>1. /\ Len(a) - (n + 1) + 1 = Len(a) - n
            /\ \A i \in 1 .. Len(a) - n : (n + 1) + i - 1 = n + i
        BY <2>0
      <3>2. \A i \in 1 .. Len(a) - (n + 1) + 1 : t[i] = a[(n + 1) + i - 1]
        BY <2>0, <2>1, SubSeqProperties
      <3> HIDE DEF t
      <3> QED  BY <3>1, <3>2
    <2> HIDE DEF t
    <2>4. \A i \in 2 .. Len(t) : t[i].from = t[i - 1].from + t[i - 1].len
      <3> SUFFICES ASSUME NEW i \in 2 .. Len(t)
                   PROVE  t[i].from = t[i - 1].from + t[i - 1].len
        OBVIOUS
      <3>1. /\ i \in 1 .. Len(a) - n /\ i - 1 \in 1 .. Len(a) - n
            /\ n + i \in 1 .. Len(a) /\ n + i # 1
            /\ n + (i - 1) = (n + i) - 1
        BY <1>1, <2>2
      <3>2. a[n + i].from = a[(n + i) - 1].from + a[(n + i) - 1].len
        BY <1>1, <3>1 DEF Joined, Follows
      <3> QED  BY <2>3, <3>1, <3>2
    <2>5. t # <<>>
      BY <1>1, <2>0, <2>2, EmptySeq
    <2>6. BytesOf(t) = t[Len(t)].from + t[Len(t)].len - t[1].from
      BY <2>2, <2>4, <2>5, BytesSpan
    <2>7. /\ Len(t) \in 1 .. Len(a) - n /\ n + Len(t) = Len(a)
          /\ 1 \in 1 .. Len(a) - n /\ n + 1 \in 1 .. Len(a)
          /\ Len(a) \in 1 .. Len(a)
      BY <1>1, <2>0, <2>2
    <2>8. t[Len(t)] = a[Len(a)] /\ t[1] = a[n + 1]
      BY <2>3, <2>7
    <2>9. a[n + 1].from = EndOf(a, n)
      BY <1>1, <2>7 DEF Joined, Follows, EndOf
    <2> QED  BY <1>1, <1>2, <2>6, <2>7, <2>8, <2>9 DEF t, EndOf
  <1> QED  BY <1>3, <1>4
-------------------------------------------------------------------------------
(* The two links.  A packet of P[0] belongs to the first queue or band, a  *)
(* packet of P[1] to the second.                                           *)
Both(P) == P[0] \cup P[1]
Sorted(q, P) == \A c \in {0, 1} : q[c] \in Seq(P[c])

(* Prio2Device: between two handlers it transmits, or holds nothing.       *)
PrioInv(d, P) ==
    /\ d \in Prio!State(Both(P))
    /\ Sorted(d.queues, P)
    /\ d.machine = "BUSY" => d.current \in Both(P)
    /\ d.machine = "READY" => d.queues[0] = <<>> /\ d.queues[1] = <<>>

(* Serve takes from the second queue only when the first is empty.         *)
LEMMA PrioServes ==
    ASSUME NEW P, NEW d \in Prio!State(Both(P)), Sorted(d.queues, P),
           d.machine = "READY"
    PROVE  /\ PrioInv(Prio!Serve(d), P)
           /\ \/ Prio!Serve(d) = d
              \/ Prio!Serve(d).current \in P[0]
              \/ Prio!Serve(d).queues[0] = <<>>
  <1> DEFINE full == {c \in Prio!Class : d.queues[c] # <<>>}
  <1>1. \A c \in {0, 1} : P[c] \subseteq Both(P)
    BY DEF Both
  <1>2. CASE full = {}
    <2>1. Prio!Serve(d) = d
      BY <1>2 DEF Prio!Serve
    <2>2. d.queues[0] = <<>> /\ d.queues[1] = <<>>
      BY <1>2 DEF Prio!Class
    <2> QED  BY <2>1, <2>2 DEF PrioInv
  <1>3. CASE full # {}
    <2> DEFINE c == CHOOSE c \in full : \A e \in full : c <= e
               e == [d EXCEPT !.queues[c] = Tail(@), !.machine = "BUSY",
                              !.current = Head(d.queues[c])]
    <2>1. c \in full /\ \A x \in full : c <= x
      <3>1. \E x \in full : \A y \in full : x <= y
        <4>1. CASE 0 \in full
          BY <4>1 DEF Prio!Class
        <4>2. CASE 0 \notin full
          <5>1. full = {1}
            BY <1>3, <4>2 DEF Prio!Class
          <5> QED  BY <5>1
        <4> QED  BY <4>1, <4>2
      <3> QED  BY <3>1
    <2>2. Prio!Serve(d) = e
      BY <1>3 DEF Prio!Serve
    <2> HIDE DEF c
    <2>3. c \in {0, 1} /\ d.queues[c] # <<>>
      BY <2>1 DEF Prio!Class
    <2>4. /\ d.queues[c] \in Seq(P[c])
          /\ Head(d.queues[c]) \in P[c] /\ Tail(d.queues[c]) \in Seq(P[c])
      BY <2>3, HeadTailProperties DEF Sorted
    <2>5. Head(d.queues[c]) \in Both(P) /\ Tail(d.queues[c]) \in Seq(Both(P))
      BY <1>1, <2>3, <2>4, SeqMonotonic
    <2>6. /\ e \in Prio!State(Both(P)) /\ e.machine = "BUSY"
          /\ e.current = Head(d.queues[c])
          /\ e.queues = [d.queues EXCEPT ![c] = Tail(d.queues[c])]
      BY <2>3, <2>5 DEF Prio!State, Prio!Class
    <2>7. d.queues \in [{0, 1} -> Seq(Both(P))]
      BY DEF Prio!State, Prio!Class
    <2> HIDE DEF e
    <2>8. Sorted(e.queues, P)
      <3> SUFFICES ASSUME NEW x \in {0, 1} PROVE e.queues[x] \in Seq(P[x])
        BY DEF Sorted
      <3>1. CASE x = c
        BY <2>4, <2>6, <2>7, <3>1
      <3>2. CASE x # c
        BY <2>6, <2>7, <3>2 DEF Sorted
      <3> QED  BY <3>1, <3>2
    <2>9. c = 1 => e.queues[0] = <<>>
      <3> SUFFICES ASSUME c = 1 PROVE e.queues[0] = <<>>
        OBVIOUS
      <3>1. d.queues[0] = <<>>
        BY <2>1 DEF Prio!Class
      <3> QED  BY <2>6, <2>7, <3>1
    <2> QED  BY <2>2, <2>3, <2>4, <2>5, <2>6, <2>8, <2>9 DEF PrioInv
  <1> QED  BY <1>2, <1>3

(* An arrival.                                                             *)
LEMMA PrioSends ==
    ASSUME NEW P, NEW d, PrioInv(d, P), NEW p, p \in P[Prio!GetTargetQueue(p)]
    PROVE  LET e == Prio!Send(d, p).device IN
           /\ PrioInv(e, P)
           /\ e.current = d.current \/ (e.queues[0] = <<>> /\ e.queues[1] = <<>>)
  <1> DEFINE c == Prio!GetTargetQueue(p)
             e == [d EXCEPT !.queues[c] = Append(@, p)]
  <1>1. c \in {0, 1} /\ p \in P[c] /\ p \in Both(P)
    BY DEF Prio!GetTargetQueue, Both
  <1>2. CASE Len(d.queues[c]) >= Capacity
    BY <1>2 DEF Prio!Send, Prio!Result
  <1>3. CASE ~(Len(d.queues[c]) >= Capacity)
    <2>1. Prio!Send(d, p).device = IF d.machine = "READY" THEN Prio!Serve(e) ELSE e
      BY <1>3 DEF Prio!Send, Prio!Result
    <2> HIDE DEF c
    <2>2. /\ d \in Prio!State(Both(P)) /\ d.queues \in [{0, 1} -> Seq(Both(P))]
          /\ Sorted(d.queues, P)
      BY DEF PrioInv, Prio!State, Prio!Class
    <2>3. /\ Append(d.queues[c], p) \in Seq(P[c])
          /\ Append(d.queues[c], p) \in Seq(Both(P))
      <3>1. d.queues[c] \in Seq(P[c]) /\ d.queues[c] \in Seq(Both(P))
        BY <1>1, <2>2 DEF Sorted
      <3> QED  BY <1>1, <3>1, AppendProperties
    <2>4. /\ e \in Prio!State(Both(P)) /\ e.machine = d.machine
          /\ e.current = d.current
          /\ e.queues = [d.queues EXCEPT ![c] = Append(d.queues[c], p)]
      BY <1>1, <2>2, <2>3 DEF Prio!State, Prio!Class
    <2> HIDE DEF e
    <2>5. Sorted(e.queues, P)
      <3> SUFFICES ASSUME NEW x \in {0, 1} PROVE e.queues[x] \in Seq(P[x])
        BY DEF Sorted
      <3>1. CASE x = c
        BY <1>1, <2>2, <2>3, <2>4, <3>1
      <3>2. CASE x # c
        BY <2>2, <2>4, <3>2 DEF Sorted
      <3> QED  BY <3>1, <3>2
    <2>6. CASE d.machine # "READY"
      BY <2>1, <2>4, <2>5, <2>6 DEF PrioInv
    <2>7. CASE d.machine = "READY"
      <3>1. PrioInv(Prio!Serve(e), P)
        BY <2>4, <2>5, <2>7, PrioServes
      <3>2. \A x \in {0, 1} : e.queues[x] = IF x = c THEN <<p>> ELSE <<>>
        BY <1>1, <2>2, <2>4, <2>7 DEF PrioInv
      <3>3. {x \in Prio!Class : e.queues[x] # <<>>} = {c}
        <4>1. <<p>> # <<>>
          OBVIOUS
        <4> QED  BY <1>1, <3>2, <4>1 DEF Prio!Class
      <3>4. (CHOOSE b \in {c} : \A x \in {c} : b <= x) = c
        BY <1>1
      <3>5. Prio!Serve(e) = [e EXCEPT !.queues[c] = Tail(@), !.machine = "BUSY",
                                      !.current = Head(e.queues[c])]
        BY <3>3, <3>4 DEF Prio!Serve
      <3>6. Prio!Serve(e).queues = [e.queues EXCEPT ![c] = Tail(e.queues[c])]
        BY <2>4, <3>5 DEF Prio!State
      <3>7. e.queues \in [{0, 1} -> Seq(Both(P))]
        BY <2>4 DEF Prio!State, Prio!Class
      <3>8. Tail(<<p>>) = <<>>
        OBVIOUS
      <3>9. \A x \in {0, 1} : Prio!Serve(e).queues[x] = <<>>
        BY <1>1, <3>2, <3>6, <3>7, <3>8
      <3> QED  BY <2>1, <2>7, <3>1, <3>9
    <2> QED  BY <2>6, <2>7
  <1> QED  BY <1>2, <1>3

(* The end of a transmission.                                              *)
LEMMA PrioCompletes ==
    ASSUME NEW P, NEW d, PrioInv(d, P)
    PROVE  LET e == Prio!TransmitComplete(d) IN
           /\ PrioInv(e, P)
           /\ \/ e.current = NoPacket
              \/ e.current \in P[0]
              \/ e.queues[0] = <<>>
  <1> DEFINE r == [d EXCEPT !.machine = "READY", !.current = NoPacket]
  <1>1. d \in Prio!State(Both(P))
    BY DEF PrioInv
  <1>2. /\ r \in Prio!State(Both(P)) /\ r.machine = "READY"
        /\ r.current = NoPacket /\ r.queues = d.queues
    BY <1>1 DEF Prio!State
  <1>3. Sorted(r.queues, P)
    BY <1>2 DEF PrioInv
  <1>4. Prio!TransmitComplete(d) = Prio!Serve(r)
    BY DEF Prio!TransmitComplete
  <1> HIDE DEF r
  <1> QED  BY <1>2, <1>3, <1>4, PrioServes
-------------------------------------------------------------------------------
(* The queue disc: what a transmitter that is idle, a queue that is        *)
(* stopped, and packets held back, each presuppose.  A wake-up is due only *)
(* while the packet it comes with is transmitted, and a queue stays        *)
(* stopped as long as it is full, but for the place a due wake-up reports. *)
WakeDue(d) ==
    /\ d.wakes \in {0, 1}
    /\ d.wakes = 1 => d.machine = "BUSY"
    /\ d.stopped => Len(d.queue) + d.wakes >= DeviceQueue
DiscHalf(d, P) ==
    /\ d \in Disc!State(Both(P))
    /\ Sorted(d.bands, P)
    /\ d.machine = "BUSY" => d.current \in Both(P)
    /\ d.machine = "READY" => d.queue = <<>>
    /\ WakeDue(d)
Drained(d) == d.stopped \/ (d.bands[0] = <<>> /\ d.bands[1] = <<>>)
DiscInv(d, P) == DiscHalf(d, P) /\ Drained(d)

(* What the device has, and what it has more of in e than in d.            *)
Down(d) == ({d.current} \ {NoPacket}) \cup Disc!InDevice(d)
Total(d) == Len(d.bands[0]) + Len(d.bands[1])

(* One packet more, and nothing is held back, or the device stops.         *)
Near(d) == Total(d) <= 1 \/ Len(d.queue) + 1 >= DeviceQueue

(* The elements of a sequence after Tail and Append.                       *)
LEMMA ElementsAre ==
    ASSUME NEW S, NEW s \in Seq(S)
    PROVE  LET R(q) == {q[n] : n \in DOMAIN q} IN
           /\ R(s) \subseteq S
           /\ \A x \in S : R(Append(s, x)) = R(s) \cup {x}
           /\ s # <<>> => Head(s) \in R(s) /\ R(Tail(s)) \subseteq R(s)
  <1> DEFINE R(q) == {q[n] : n \in DOMAIN q}
  <1>1. Len(s) \in Nat /\ DOMAIN s = 1 .. Len(s) /\ \A n \in 1 .. Len(s) : s[n] \in S
    BY LenProperties, ElementOfSeq
  <1>2. ASSUME NEW x \in S
        PROVE  R(Append(s, x)) = R(s) \cup {x}
    <2> DEFINE t == Append(s, x)
    <2>1. DOMAIN t = 1 .. Len(s) + 1
      OBVIOUS
    <2>2. t[Len(s) + 1] = x /\ \A n \in 1 .. Len(s) : t[n] = s[n]
      OBVIOUS
    <2>3. 1 .. Len(s) + 1 = (1 .. Len(s)) \cup {Len(s) + 1}
      BY <1>1
    <2> HIDE DEF t
    <2> QED  BY <1>1, <2>1, <2>2, <2>3
  <1>3. ASSUME s # <<>>
        PROVE  Head(s) \in R(s) /\ R(Tail(s)) \subseteq R(s)
    <2>1. Len(s) # 0 /\ Head(s) = s[1]
      BY <1>1, <1>3, EmptySeq
    <2>2. 1 \in 1 .. Len(s)
      BY <1>1, <2>1
    <2>3. ASSUME NEW n \in DOMAIN Tail(s)
          PROVE  Tail(s)[n] = s[n + 1] /\ n + 1 \in 1 .. Len(s)
      <3>1. Len(Tail(s)) = Len(s) - 1 /\ DOMAIN Tail(s) = 1 .. Len(s) - 1
        BY <1>1, <1>3, <2>1, HeadTailProperties
      <3>2. n \in 1 .. Len(s) - 1 /\ n + 1 \in 1 .. Len(s)
        BY <1>1, <2>3, <3>1
      <3> QED  BY <1>1, <1>3, <3>1, <3>2
    <2> QED  BY <1>1, <2>1, <2>2, <2>3
  <1> QED  BY <1>1, <1>2, <1>3

(* The device takes a packet.                                              *)
LEMMA DeviceServes ==
    ASSUME NEW P, NEW d \in Disc!State(Both(P)),
           d.machine = "BUSY" => d.current \in Both(P),
           WakeDue(d)
    PROVE  LET e == Disc!DeviceServe(d) IN
           /\ e \in Disc!State(Both(P)) /\ e.bands = d.bands
           /\ e.machine = "BUSY" => e.current \in Both(P)
           /\ e.machine = "READY" => e.queue = <<>>
           /\ e.stopped = d.stopped
           /\ WakeDue(e)
           /\ Down(e) \subseteq Down(d)
  <1>1. CASE d.machine = "BUSY" \/ d.queue = <<>>
    <2>1. Disc!DeviceServe(d) = d
      BY <1>1 DEF Disc!DeviceServe
    <2> QED  BY <1>1, <2>1
  <1>2. CASE ~(d.machine = "BUSY" \/ d.queue = <<>>)
    <2> DEFINE e == [d EXCEPT !.queue = Tail(@), !.wakes = @ + 1,
                              !.machine = "BUSY", !.current = Head(d.queue)]
    <2>1. Disc!DeviceServe(d) = e
      BY <1>2 DEF Disc!DeviceServe
    <2>2. d.queue \in Seq(Both(P)) /\ d.wakes \in Nat /\ d.queue # <<>>
      BY <1>2 DEF Disc!State
    <2>3. Head(d.queue) \in Both(P) /\ Tail(d.queue) \in Seq(Both(P))
      BY <2>2, HeadTailProperties
    <2>4. /\ e.bands = d.bands /\ e.queue = Tail(d.queue)
          /\ e.stopped = d.stopped /\ e.wakes = d.wakes + 1 /\ e.wakes > 0
          /\ e.machine = "BUSY" /\ e.current = Head(d.queue)
          /\ e \in Disc!State(Both(P))
      <3> DEFINE h == Head(d.queue)
                 t == Tail(d.queue)
      <3>1. h \in Both(P) /\ t \in Seq(Both(P)) /\ d.wakes + 1 \in Nat
               /\ d.wakes + 1 > 0
        BY <2>2, <2>3
      <3>2. e = [d EXCEPT !.queue = t, !.wakes = d.wakes + 1,
                          !.machine = "BUSY", !.current = h]
        OBVIOUS
      <3> HIDE DEF e, h, t
      <3>3. e \in Disc!State(Both(P))
        BY <3>1, <3>2 DEF Disc!State
      <3>4. /\ e.bands = d.bands /\ e.queue = t
            /\ e.stopped = d.stopped /\ e.wakes = d.wakes + 1
            /\ e.machine = "BUSY" /\ e.current = h
        BY <3>2 DEF Disc!State
      <3> QED  BY <3>1, <3>3, <3>4 DEF h, t
    <2> HIDE DEF e
    <2>5. Down(e) \subseteq Down(d)
      BY <2>2, <2>4, ElementsAre DEF Down, Disc!InDevice
    <2>6. WakeDue(e)
      <3>1. d.wakes = 0 /\ e.wakes = 1
        BY <1>2, <2>4 DEF WakeDue
      <3>2. Len(e.queue) = Len(d.queue) - 1 /\ Len(d.queue) \in Nat
        BY <2>2, <2>4, HeadTailProperties, LenProperties
      <3>3. e.stopped => Len(d.queue) + 0 >= DeviceQueue
        BY <2>4, <3>1 DEF WakeDue
      <3>4. DeviceQueue \in Nat
        BY FlowAssumption
      <3>5. e.stopped => Len(e.queue) + e.wakes >= DeviceQueue
        BY <3>1, <3>2, <3>3, <3>4
      <3> QED  BY <2>4, <3>1, <3>5 DEF WakeDue
    <2> QED  BY <2>1, <2>2, <2>3, <2>4, <2>5, <2>6
  <1> QED  BY <1>1, <1>2

(* A packet is handed to the device.                                       *)
LEMMA DeviceSends ==
    ASSUME NEW P, NEW d, DiscHalf(d, P), NEW p \in Both(P)
    PROVE  LET e == Disc!DeviceSend(d, p) IN
           /\ DiscHalf(e, P) /\ e.bands = d.bands
           /\ Down(e) \subseteq Down(d) \cup {p}
           /\ Len(d.queue) + 1 >= DeviceQueue => e.stopped
  <1>1. d \in Disc!State(Both(P)) /\ d.queue \in Seq(Both(P)) /\ Len(d.queue) \in Nat
    BY LenProperties DEF DiscHalf, Disc!State
  <1>4. d.wakes \in {0, 1} /\ DeviceQueue \in Nat /\ WakeDue(d)
    BY FlowAssumption DEF DiscHalf, WakeDue
  <1>2. CASE Len(d.queue) >= DeviceQueue
    <2> DEFINE e == [d EXCEPT !.stopped = TRUE]
    <2>1. Disc!DeviceSend(d, p) = e
      BY <1>2 DEF Disc!DeviceSend
    <2>3. /\ e \in Disc!State(Both(P)) /\ e.bands = d.bands
          /\ e.queue = d.queue /\ e.machine = d.machine /\ e.current = d.current
          /\ e.wakes = d.wakes /\ e.stopped
      BY <1>1 DEF Disc!State
    <2> HIDE DEF e
    <2>4. WakeDue(e)
      <3>1. Len(d.queue) + d.wakes >= DeviceQueue
        BY <1>1, <1>2, <1>4
      <3> QED  BY <1>4, <2>3, <3>1 DEF WakeDue
    <2> QED  BY <2>1, <2>3, <2>4 DEF DiscHalf, Down, Disc!InDevice
  <1>3. CASE ~(Len(d.queue) >= DeviceQueue)
    <2> DEFINE e == [d EXCEPT !.queue = Append(@, p),
                              !.stopped = @ \/ Len(d.queue) + 1 >= DeviceQueue]
    <2>1. Disc!DeviceSend(d, p) = Disc!DeviceServe(e)
      BY <1>3 DEF Disc!DeviceSend
    <2>2. /\ Append(d.queue, p) \in Seq(Both(P))
          /\ Len(Append(d.queue, p)) = Len(d.queue) + 1
      BY <1>1, AppendProperties
    <2>3. /\ e \in Disc!State(Both(P)) /\ e.bands = d.bands
          /\ e.queue = Append(d.queue, p) /\ e.machine = d.machine
          /\ e.current = d.current /\ e.wakes = d.wakes
          /\ e.stopped = (d.stopped \/ Len(d.queue) + 1 >= DeviceQueue)
      BY <1>1, <2>2 DEF Disc!State
    <2> HIDE DEF e
    <2>8. WakeDue(e)
      <3>1. d.stopped => Len(d.queue) + d.wakes >= DeviceQueue
        BY <1>4 DEF WakeDue
      <3> DEFINE x == Len(d.queue)
                 y == Len(e.queue)
      <3>3. x \in Nat /\ y = x + 1 /\ e.wakes \in {0, 1} /\ DeviceQueue \in Nat
        BY <1>1, <1>4, <2>2, <2>3
      <3>4. e.stopped => x + 1 >= DeviceQueue
        <4>1. d.stopped => x + 1 >= DeviceQueue
          BY <1>4, <3>1, <3>3
        <4> QED  BY <2>3, <4>1
      <3> HIDE DEF x, y
      <3>5. x + 1 >= DeviceQueue => y + e.wakes >= DeviceQueue
        BY <3>3
      <3>2. e.stopped => y + e.wakes >= DeviceQueue
        BY <3>4, <3>5
      <3> USE DEF y
      <3> QED  BY <1>4, <2>3, <3>2 DEF WakeDue
    <2>4. Down(e) \subseteq Down(d) \cup {p}
      BY <1>1, <2>3, ElementsAre DEF Down, Disc!InDevice
    <2>5. e.machine = "BUSY" => e.current \in Both(P)
      BY <2>3 DEF DiscHalf
    <2> DEFINE g == Disc!DeviceServe(e)
    <2>6. /\ g \in Disc!State(Both(P)) /\ g.bands = e.bands
          /\ g.machine = "BUSY" => g.current \in Both(P)
          /\ g.machine = "READY" => g.queue = <<>>
          /\ WakeDue(g) /\ g.stopped = e.stopped
          /\ Down(g) \subseteq Down(e)
      BY <2>3, <2>5, <2>8, DeviceServes
    <2> HIDE DEF g
    <2>7. Sorted(g.bands, P)
      BY <2>3, <2>6 DEF DiscHalf
    <2> QED  BY <2>1, <2>3, <2>4, <2>6, <2>7 DEF g, DiscHalf
  <1> QED  BY <1>2, <1>3

(* Bands without packets are empty.                                        *)
LEMMA NoneHeld ==
    ASSUME NEW P, NEW d, Sorted(d.bands, P)
    PROVE  /\ Total(d) \in Nat
           /\ Total(d) <= 0 => d.bands[0] = <<>> /\ d.bands[1] = <<>>
  <1> DEFINE x == Len(d.bands[0])
             y == Len(d.bands[1])
  <1>1. d.bands[0] \in Seq(P[0]) /\ d.bands[1] \in Seq(P[1])
    BY DEF Sorted
  <1>2. x \in Nat /\ y \in Nat /\ Total(d) = x + y
    BY <1>1, LenProperties DEF Total
  <1> HIDE DEF x, y
  <1>3. Total(d) <= 0 => x = 0 /\ y = 0
    BY <1>2
  <1>4. x = 0 => d.bands[0] = <<>>
    BY <1>1, EmptySeq DEF x
  <1>5. y = 0 => d.bands[1] = <<>>
    BY <1>1, EmptySeq DEF y
  <1>6. Total(d) \in Nat
    BY <1>2
  <1> QED  BY <1>3, <1>4, <1>5, <1>6

(* Restart takes from the first band that holds a packet.                  *)
LEMMA Restarts ==
    ASSUME NEW P, NEW d, DiscHalf(d, P)
    PROVE  LET e == Disc!Restart(d) IN
           /\ DiscHalf(e, P)
           /\ Drained(d) => e = d
           /\ Near(d) => Drained(e)
           /\ d.bands[0] = <<>> => e.bands[0] = <<>>
           /\ d.bands[0] # <<>> => Down(e) \subseteq Down(d) \cup P[0]
  <1> DEFINE full == {b \in Disc!Band : d.bands[b] # <<>>}
  <1>0. /\ d \in Disc!State(Both(P)) /\ Sorted(d.bands, P)
        /\ d.bands \in [{0, 1} -> Seq(Both(P))]
    BY DEF DiscHalf, Disc!State, Disc!Band
  <1>1. full = {} <=> d.bands[0] = <<>> /\ d.bands[1] = <<>>
    BY DEF Disc!Band
  <1>2. CASE Drained(d)
    <2>1. Disc!Restart(d) = d
      BY <1>1, <1>2 DEF Disc!Restart, Drained
    <2> QED  BY <1>2, <2>1
  <1>3. CASE ~Drained(d)
    <2> DEFINE b == CHOOSE b \in full : \A c \in full : b <= c
               r == [d EXCEPT !.bands[b] = Tail(@)]
               moved == Head(d.bands[b])
               e == Disc!DeviceSend(r, moved)
    <2>1. b \in full /\ \A x \in full : b <= x
      <3>1. \E x \in full : \A y \in full : x <= y
        <4>1. CASE 0 \in full
          BY <4>1 DEF Disc!Band
        <4>2. CASE 0 \notin full
          <5>1. full = {1}
            BY <1>1, <1>3, <4>2 DEF Drained, Disc!Band
          <5> QED  BY <5>1
        <4> QED  BY <4>1, <4>2
      <3> QED  BY <3>1
    <2>2. Disc!Restart(d) = e
      BY <1>1, <1>3 DEF Disc!Restart, Drained
    <2>3. /\ b \in {0, 1} /\ d.bands[b] # <<>>
          /\ b = 1 => d.bands[0] = <<>>
      BY <2>1 DEF Disc!Band
    <2> HIDE DEF b
    <2>4. /\ d.bands[b] \in Seq(P[b])
          /\ Head(d.bands[b]) \in P[b] /\ Tail(d.bands[b]) \in Seq(P[b])
          /\ Len(Tail(d.bands[b])) = Len(d.bands[b]) - 1
      BY <1>0, <2>3, HeadTailProperties DEF Sorted
    <2>5. P[b] \subseteq Both(P)
      BY <2>3 DEF Both
    <2>6. Head(d.bands[b]) \in Both(P) /\ Tail(d.bands[b]) \in Seq(Both(P))
      BY <2>4, <2>5, SeqMonotonic
    <2>7. /\ r \in Disc!State(Both(P)) /\ r.queue = d.queue
          /\ r.machine = d.machine /\ r.current = d.current
          /\ r.stopped = d.stopped /\ r.wakes = d.wakes
          /\ r.bands = [d.bands EXCEPT ![b] = Tail(d.bands[b])]
      BY <1>0, <2>3, <2>6 DEF Disc!State, Disc!Band
    <2> HIDE DEF r
    <2>8. Sorted(r.bands, P)
      <3> SUFFICES ASSUME NEW x \in {0, 1} PROVE r.bands[x] \in Seq(P[x])
        BY DEF Sorted
      <3>1. CASE x = b
        BY <1>0, <2>4, <2>7, <3>1
      <3>2. CASE x # b
        BY <1>0, <2>7, <3>2 DEF Sorted
      <3> QED  BY <3>1, <3>2
    <2>9. DiscHalf(r, P) /\ Down(r) = Down(d)
      BY <2>7, <2>8 DEF DiscHalf, WakeDue, Down, Disc!InDevice
    <2>10. /\ DiscHalf(e, P) /\ e.bands = r.bands
           /\ Down(e) \subseteq Down(r) \cup {moved}
           /\ Len(r.queue) + 1 >= DeviceQueue => e.stopped
      <3>1. moved \in Both(P)
        BY <2>6
      <3> HIDE DEF moved, full
      <3> QED  BY <2>9, <3>1, DeviceSends
    <2> HIDE DEF e
    <2>11. Total(e) = Total(d) - 1
      <3>1. Len(d.bands[0]) \in Nat /\ Len(d.bands[1]) \in Nat
        BY <1>0, LenProperties
      <3>2. CASE b = 0
        <4>1. r.bands[0] = Tail(d.bands[0]) /\ r.bands[1] = d.bands[1]
          BY <1>0, <2>7, <3>2
        <4>2. Len(e.bands[0]) = Len(d.bands[0]) - 1 /\ e.bands[1] = d.bands[1]
          BY <2>4, <2>10, <3>2, <4>1
        <4> HIDE DEF full
        <4> QED  BY <3>1, <4>2 DEF Total
      <3>3. CASE b = 1
        <4>1. r.bands[1] = Tail(d.bands[1]) /\ r.bands[0] = d.bands[0]
          BY <1>0, <2>7, <3>3
        <4>2. Len(e.bands[1]) = Len(d.bands[1]) - 1 /\ e.bands[0] = d.bands[0]
          BY <2>4, <2>10, <3>3, <4>1
        <4> HIDE DEF full
        <4> QED  BY <3>1, <4>2 DEF Total
      <3> QED  BY <2>3, <3>2, <3>3
    <2>12. d.bands[0] = <<>> => e.bands[0] = <<>>
      <3> SUFFICES ASSUME d.bands[0] = <<>> PROVE e.bands[0] = <<>>
        OBVIOUS
      <3>1. b # 0
        BY <2>3
      <3> QED  BY <1>0, <2>7, <2>10, <3>1
    <2>13. d.bands[0] # <<>> => Down(e) \subseteq Down(d) \cup P[0]
      <3> SUFFICES ASSUME d.bands[0] # <<>>
                   PROVE  Down(e) \subseteq Down(d) \cup P[0]
        OBVIOUS
      <3>1. b = 0
        BY <2>3
      <3> QED  BY <2>4, <2>9, <2>10, <3>1
    <2>14. Near(d) => Drained(e)
      <3>1. CASE Len(d.queue) + 1 >= DeviceQueue
        BY <2>7, <2>10, <3>1 DEF Drained
      <3>2. CASE Total(d) <= 1
        <4>1. Total(d) \in Nat
          BY <1>0, NoneHeld
        <4>2. Total(e) <= 0
          BY <2>11, <3>2, <4>1
        <4>3. Sorted(e.bands, P)
          BY <2>10 DEF DiscHalf
        <4> QED  BY <4>2, <4>3, NoneHeld DEF Drained
      <3> QED  BY <3>1, <3>2 DEF Near
    <2> QED  BY <1>3, <2>2, <2>10, <2>12, <2>13, <2>14
  <1> QED  BY <1>2, <1>3

(* The states Run goes through.                                            *)
LEMMA RunIs ==
    ASSUME NEW P, NEW d, DiscHalf(d, P)
    PROVE  \E f : /\ f[0] = d /\ f[Quota] = Disc!Run(d)
                  /\ \A n \in 1 .. Quota : f[n] = Disc!Restart(f[n - 1])
  <1> DEFINE M == Quota
             L == {e \in Disc!State(Both(P)) : DiscHalf(e, P)}
             step == [n \in 1 .. M |-> [e \in L |-> Disc!Restart(e)]]
             Body(f) == [n \in 0 .. M |-> IF n = 0 THEN d
                                          ELSE Disc!Restart(f[n - 1])]
  <1>1. M \in Nat /\ d \in L
    BY FlowAssumption DEF DiscHalf
  <1>2. \A e \in L : Disc!Restart(e) \in L
    <2> SUFFICES ASSUME NEW e \in L PROVE Disc!Restart(e) \in L
      OBVIOUS
    <2>1. DiscHalf(Disc!Restart(e), P)
      BY Restarts
    <2> QED  BY <2>1 DEF DiscHalf
  <1> HIDE DEF M, L
  <1>3. step \in [1 .. M -> [L -> L]]
    BY <1>2
  <1>4. PICK f : Recursion(f, M, L, d, step)
    <2> HIDE DEF step
    <2> QED  BY <1>1, <1>3, RecursionExists
  <1>5. f = Body(f)
    <2>1. ASSUME NEW n \in 0 .. M
          PROVE  f[n] = IF n = 0 THEN d ELSE Disc!Restart(f[n - 1])
      <3>1. CASE n = 0
        BY <1>4, <3>1 DEF Recursion
      <3>2. CASE n # 0
        <4>1. n \in 1 .. M /\ n - 1 \in 0 .. M
          BY <1>1, <3>2
        <4>2. f[n - 1] \in L
          BY <1>4, <4>1 DEF Recursion
        <4>3. f[n] = step[n][f[n - 1]]
          BY <1>4, <4>1 DEF Recursion
        <4> QED  BY <3>2, <4>1, <4>2, <4>3
      <3> QED  BY <3>1, <3>2
    <2> QED  BY <1>4, <2>1 DEF Recursion
  <1> DEFINE g == CHOOSE h : h = Body(h)
  <1>6. g = Body(g)
    <2> HIDE DEF Body
    <2> QED  BY <1>5
  <1>7. Disc!Run(d) = g[M]
    BY DEF Disc!Run, M
  <1> HIDE DEF g
  <1>8. g[0] = d
    BY <1>1, <1>6
  <1>9. ASSUME NEW n \in 1 .. M
        PROVE  g[n] = Disc!Restart(g[n - 1])
    BY <1>1, <1>6
  <1> QED  BY <1>1, <1>7, <1>8, <1>9 DEF M

(* Run, when nothing is to be done or one packet is enough, ends with the  *)
(* device stopped or nothing held back, whatever the quota; if a packet of *)
(* the second band has moved, the first is empty.                          *)
LEMMA Runs ==
    ASSUME NEW P, NEW d, DiscHalf(d, P), Drained(d) \/ Near(d)
    PROVE  LET e == Disc!Run(d) IN
           /\ DiscInv(e, P)
           /\ e.bands[0] = <<>> \/ Down(e) \subseteq Down(d) \cup P[0]
           /\ Drained(d) => e = d
  <1> DEFINE M == Quota
  <1>1. PICK f : /\ f[0] = d /\ f[M] = Disc!Run(d)
                 /\ \A n \in 1 .. M : f[n] = Disc!Restart(f[n - 1])
    BY RunIs
  <1> DEFINE Fits(n, e) ==
                /\ DiscHalf(e, P)
                /\ Drained(e) \/ (n = 0 /\ e = d)
                /\ e.bands[0] = <<>> \/ Down(e) \subseteq Down(d) \cup P[0]
                /\ Drained(d) => e = d
             S == {n \in 0 .. M : Fits(n, f[n])}
  <1>2. M \in Nat /\ M # 0
    BY FlowAssumption
  <1> HIDE DEF M
  <1>3. 0 \in S
    BY <1>1, <1>2
  <1>4. ASSUME NEW n \in 0 .. M - 1, n \in S
        PROVE  n + 1 \in S
    <2> DEFINE e == f[n]
               r == Disc!Restart(e)
    <2>1. n + 1 \in 1 .. M /\ (n + 1) - 1 = n /\ n + 1 \in 0 .. M
      BY <1>2
    <2>2. f[n + 1] = r
      BY <1>1, <2>1
    <2>3. Fits(n, e)
      BY <1>4
    <2> HIDE DEF e
    <2>4. /\ DiscHalf(r, P)
          /\ Drained(e) => r = e
          /\ Near(e) => Drained(r)
          /\ e.bands[0] = <<>> => r.bands[0] = <<>>
          /\ e.bands[0] # <<>> => Down(r) \subseteq Down(e) \cup P[0]
      BY <2>3, Restarts
    <2> HIDE DEF r
    <2>5. Drained(r)
      BY <2>3, <2>4
    <2>6. Fits(n + 1, r)
      BY <2>3, <2>4, <2>5
    <2> HIDE DEF Fits
    <2> QED  BY <2>1, <2>2, <2>6
  <1>5. M \in S
    <2> HIDE DEF S
    <2>1. 0 .. M \subseteq S
      BY <1>2, <1>3, <1>4, SetInduction
    <2> QED  BY <1>2, <2>1
  <1> QED  BY <1>1, <1>2, <1>5 DEF DiscInv

(* An arrival, of a packet as the application sent it.                     *)
LEMMA DiscSends ==
    ASSUME NEW P, NEW d, DiscInv(d, P),
           NEW p, [p EXCEPT !.left = NoTag] \in P[Disc!BandOf(p)]
    PROVE  LET e == Disc!Send(d, p).device IN
           /\ DiscInv(e, P)
           /\ e.bands[0] = <<>> \/ Down(e) \subseteq Down(d) \cup P[0]
  <1>1. DiscHalf(d, P)
    BY DEF DiscInv
  <1>4. Drained(d)
    BY DEF DiscInv
  <1>2. CASE Len(d.bands[0]) + Len(d.bands[1]) >= MaxSize
    <2>1. Disc!Send(d, p).device = Disc!Run(d)
      BY <1>2 DEF Disc!Send, Disc!Result
    <2> QED  BY <1>1, <1>4, <2>1, Runs
  <1>3. CASE ~(Len(d.bands[0]) + Len(d.bands[1]) >= MaxSize)
    <2> DEFINE b == Disc!BandOf(p)
               q == [p EXCEPT !.left = NoTag]
               e == [d EXCEPT !.bands[b] = Append(@, q)]
    <2>1. Disc!Send(d, p).device = Disc!Run(e)
      BY <1>3 DEF Disc!Send, Disc!Result, Disc!DoEnqueue
    <2>2. b \in {0, 1} /\ q \in P[b] /\ q \in Both(P)
      BY DEF Disc!BandOf, Both
    <2> HIDE DEF b, q
    <2>3. /\ d \in Disc!State(Both(P)) /\ d.bands \in [{0, 1} -> Seq(Both(P))]
          /\ Sorted(d.bands, P)
      BY <1>1 DEF DiscHalf, Disc!State, Disc!Band
    <2>4. /\ Append(d.bands[b], q) \in Seq(P[b])
          /\ Append(d.bands[b], q) \in Seq(Both(P))
          /\ Len(Append(d.bands[b], q)) = Len(d.bands[b]) + 1
      <3>1. d.bands[b] \in Seq(P[b]) /\ d.bands[b] \in Seq(Both(P))
        BY <2>2, <2>3 DEF Sorted
      <3> DEFINE s == d.bands[b]
      <3> HIDE DEF s
      <3>2. s \in Seq(P[b]) /\ s \in Seq(Both(P))
        BY <3>1 DEF s
      <3>3. Append(s, q) \in Seq(P[b]) /\ Len(Append(s, q)) = Len(s) + 1
        BY <2>2, <3>2, AppendProperties
      <3>4. Append(s, q) \in Seq(Both(P))
        BY <2>2, <3>2, AppendProperties
      <3> QED  BY <3>3, <3>4 DEF s
    <2>5. /\ e \in Disc!State(Both(P)) /\ e.queue = d.queue
          /\ e.machine = d.machine /\ e.current = d.current
          /\ e.stopped = d.stopped /\ e.wakes = d.wakes
          /\ e.bands = [d.bands EXCEPT ![b] = Append(d.bands[b], q)]
      BY <2>2, <2>3, <2>4 DEF Disc!State, Disc!Band
    <2> HIDE DEF e
    <2>6. Sorted(e.bands, P)
      <3> SUFFICES ASSUME NEW x \in {0, 1} PROVE e.bands[x] \in Seq(P[x])
        BY DEF Sorted
      <3>1. CASE x = b
        BY <2>2, <2>3, <2>4, <2>5, <3>1
      <3>2. CASE x # b
        BY <2>3, <2>5, <3>2 DEF Sorted
      <3> QED  BY <3>1, <3>2
    <2>7. DiscHalf(e, P) /\ Down(e) = Down(d)
      BY <1>1, <2>5, <2>6 DEF DiscHalf, WakeDue, Down, Disc!InDevice
    <2>8. Drained(e) \/ Near(e)
      <3>1. CASE d.stopped
        BY <2>5, <3>1 DEF Drained
      <3>2. CASE d.bands[0] = <<>> /\ d.bands[1] = <<>>
        <4>1. Len(d.bands[0]) = 0 /\ Len(d.bands[1]) = 0
          BY <3>2
        <4>2. Len(e.bands[b]) = 1
          BY <2>2, <2>3, <2>4, <2>5, <4>1
        <4>3. \A c \in {0, 1} : c # b => Len(e.bands[c]) = 0
          BY <2>3, <2>5, <4>1
        <4>4. Total(e) = 1
          <5> DEFINE x == Len(e.bands[0])
                     y == Len(e.bands[1])
          <5>1. (x = 1 /\ y = 0) \/ (x = 0 /\ y = 1)
            BY <2>2, <4>2, <4>3
          <5>2. Total(e) = x + y
            BY DEF Total
          <5> HIDE DEF x, y
          <5> QED  BY <5>1, <5>2
        <4> QED  BY <4>4 DEF Near
      <3> QED  BY <1>4, <3>1, <3>2 DEF Drained
    <2> QED  BY <2>1, <2>7, <2>8, Runs
  <1> QED  BY <1>2, <1>3

(* The end of a transmission moves nothing out of the bands.               *)
LEMMA DiscCompletes ==
    ASSUME NEW P, NEW d, DiscInv(d, P), d.wakes = 0
    PROVE  LET e == Disc!TransmitComplete(d) IN
           DiscInv(e, P) /\ Down(e) \subseteq Down(d)
  <1> DEFINE r == [d EXCEPT !.machine = "READY", !.current = NoPacket]
             e == Disc!DeviceServe(r)
  <1>1. DiscHalf(d, P) /\ d \in Disc!State(Both(P)) /\ Drained(d)
    BY DEF DiscInv, DiscHalf
  <1>2. Disc!TransmitComplete(d) = e
    BY DEF Disc!TransmitComplete
  <1>3. /\ r \in Disc!State(Both(P)) /\ r.machine = "READY"
        /\ r.current = NoPacket /\ r.bands = d.bands /\ r.queue = d.queue
        /\ r.stopped = d.stopped /\ r.wakes = d.wakes
    BY <1>1 DEF Disc!State
  <1> HIDE DEF r
  <1>4. r.machine # "BUSY" /\ WakeDue(r)
    BY <1>1, <1>3 DEF DiscHalf, WakeDue
  <1>5. /\ e \in Disc!State(Both(P)) /\ e.bands = r.bands
        /\ e.machine = "BUSY" => e.current \in Both(P)
        /\ e.machine = "READY" => e.queue = <<>>
        /\ e.stopped = r.stopped
        /\ WakeDue(e)
        /\ Down(e) \subseteq Down(r)
    BY <1>3, <1>4, DeviceServes
  <1> HIDE DEF e
  <1>6. Down(r) \subseteq Down(d)
    BY <1>3 DEF Down, Disc!InDevice
  <1>7. Sorted(e.bands, P) /\ Drained(e)
    BY <1>1, <1>3, <1>5 DEF DiscHalf, Drained
  <1> QED  BY <1>2, <1>5, <1>6, <1>7 DEF DiscInv, DiscHalf

(* A wake-up.                                                              *)
LEMMA DiscWakes ==
    ASSUME NEW P, NEW d, DiscInv(d, P), d.wakes > 0
    PROVE  LET e == Disc!Wake(d) IN
           /\ DiscInv(e, P)
           /\ e.bands[0] = <<>> \/ Down(e) \subseteq Down(d) \cup P[0]
  <1> DEFINE r == [d EXCEPT !.wakes = @ - 1]
  <1>1. /\ DiscHalf(d, P) /\ d \in Disc!State(Both(P)) /\ Drained(d)
        /\ d.queue \in Seq(Both(P))
    BY DEF DiscInv, DiscHalf, Disc!State
  <1>2. /\ r \in Disc!State(Both(P)) /\ r.machine = d.machine
        /\ r.current = d.current /\ r.bands = d.bands /\ r.queue = d.queue
        /\ r.stopped = d.stopped /\ r.wakes = 0 /\ d.wakes = 1
    <2>1. d.wakes = 1
      BY <1>1 DEF DiscHalf, WakeDue
    <2>2. r = [d EXCEPT !.wakes = 0]
      BY <2>1
    <2> HIDE DEF r
    <2> QED  BY <1>1, <2>1, <2>2 DEF Disc!State
  <1> HIDE DEF r
  <1>3. Down(r) = Down(d)
    BY <1>2 DEF Down, Disc!InDevice
  <1>6. Len(d.queue) \in Nat /\ DeviceQueue \in Nat
    BY <1>1, LenProperties, FlowAssumption
  <1>4. CASE Len(d.queue) >= DeviceQueue \/ ~d.stopped
    <2>1. Disc!Wake(d) = r
      BY <1>4 DEF Disc!Wake, r
    <2>2. WakeDue(r)
      <3>1. r.stopped => Len(r.queue) + r.wakes >= DeviceQueue
        BY <1>2, <1>4, <1>6
      <3> QED  BY <1>2, <3>1 DEF WakeDue
    <2>3. DiscInv(r, P)
      BY <1>1, <1>2, <2>2 DEF DiscInv, DiscHalf, Drained
    <2> QED  BY <1>3, <2>1, <2>3
  <1>5. CASE ~(Len(d.queue) >= DeviceQueue \/ ~d.stopped)
    <2> DEFINE g == [r EXCEPT !.stopped = FALSE]
    <2>1. Disc!Wake(d) = Disc!Run(g)
      BY <1>5 DEF Disc!Wake, r
    <2>2. /\ g \in Disc!State(Both(P)) /\ g.machine = d.machine
          /\ g.current = d.current /\ g.bands = d.bands /\ g.queue = d.queue
          /\ g.stopped = FALSE /\ g.wakes = 0
      BY <1>2 DEF Disc!State
    <2> HIDE DEF g
    <2>3. DiscHalf(g, P) /\ Down(g) = Down(d)
      BY <1>1, <2>2 DEF DiscHalf, WakeDue, Down, Disc!InDevice
    <2>4. Near(g)
      <3>1. Len(d.queue) + 1 >= DeviceQueue
        BY <1>1, <1>2, <1>5 DEF DiscHalf, WakeDue
      <3> QED  BY <2>2, <3>1 DEF Near
    <2> QED  BY <2>1, <2>3, <2>4, Runs
  <1> QED  BY <1>4, <1>5
-------------------------------------------------------------------------------
(* The application and its socket.  A packet lies between two multiples of *)
(* SendSize in the stream, the quotient is its number, and what is left of *)
(* it ends at the second, or at the end of the flow.                       *)
Within(q, from, len) == q * SendSize <= from /\ from + len <= (q + 1) * SendSize
Packed(a) ==
    \A k \in DOMAIN a :
        /\ \E q \in Nat : Within(q, a[k].from, a[k].len) /\ a[k].seq \in {NoSeq, q}
        /\ a[k].left <= HalfWord
Fresh(s) ==
    More(s) => \E q \in Nat :
                  s.totBytes = q * SendSize /\ (flow.header => s.seq = q)
Begun(s) ==
    /\ s.unsent.len > 0 /\ s.unsent.from = s.totBytes
    /\ flow.max > 0 => s.totBytes + s.unsent.len <= flow.max
    /\ \E q \in Nat :
          /\ Within(q, s.totBytes, s.unsent.len)
          /\ \/ s.totBytes + s.unsent.len = (q + 1) * SendSize
             \/ (flow.max > 0 /\ s.totBytes + s.unsent.len = flow.max)
          /\ s.unsent.seq = IF flow.header THEN q ELSE NoSeq
          /\ flow.header => s.seq = q + 1

(* The stream so far, the packet in hand, the buffer, and the state.       *)
Streaming(s) ==
    /\ Joined(s.accepted) /\ Packed(s.accepted)
    /\ s.totBytes = EndOf(s.accepted, Len(s.accepted))
    /\ flow.max > 0 => s.totBytes <= flow.max
    /\ IF s.unsent = NoPiece THEN Fresh(s) ELSE Begun(s)
Buffered(s) ==
    /\ s.acked <= Len(s.accepted) /\ s.next <= Len(s.accepted)
    /\ s.totBytes - EndOf(s.accepted, s.acked) <= flow.room
Connected(s) ==
    /\ ~s.aborted
    /\ s.connected => s.state = "ESTABLISHED" /\ ~s.closed
    /\ s.closeOnEmpty => s.closed
    /\ s.state \in {"none", "SYN_SENT"} => s.accepted = <<>> /\ ~s.closed
SenderInv(s) == s \in Sender /\ Streaming(s) /\ Buffered(s) /\ Connected(s)

(* What the loop of SendData leaves alone.                                 *)
Grows(a, b) == Len(a) <= Len(b) /\ \A k \in 1 .. Len(a) : b[k] = a[k]
Same(s, t) ==
    /\ t.connected = s.connected /\ t.state = s.state
    /\ t.acked = s.acked /\ t.next = s.next
    /\ t.closed = s.closed /\ t.closeOnEmpty = s.closeOnEmpty

(* Remainders.                                                             *)
LEMMA RestIs ==
    ASSUME NEW n \in Nat \ {0}, NEW q \in Nat, NEW r \in 0 .. n - 1
    PROVE  (q * n + r) % n = r
  OBVIOUS

(* A sender of the flow at hand.                                           *)
LEMMA FlowIs ==
    ASSUME flow \in Flows
    PROVE  /\ flow.max \in Nat /\ flow.room \in Nat
           /\ flow.header \in BOOLEAN /\ flow.partial \in BOOLEAN
           /\ flow.link \in {"prio", "disc"}
           /\ SendSize \in Nat \ {0} /\ HeaderSize \in Nat
  BY FlowAssumption DEF FlowType

(* The types of its parts.                                                 *)
LEMMA SenderIs ==
    ASSUME NEW s \in Sender
    PROVE  /\ s.connected \in BOOLEAN /\ s.totBytes \in Nat
           /\ s.unsent \in [seq : Number, from : Nat, len : Nat] \cup {NoPiece}
           /\ s.seq \in Nat /\ s.aborted \in BOOLEAN
           /\ s.accepted \in Seq(Pieces) /\ Len(s.accepted) \in Nat
           /\ s.acked \in Nat /\ s.next \in Nat
           /\ s.closed \in BOOLEAN /\ s.closeOnEmpty \in BOOLEAN
  <1>1. s.accepted \in Seq(Pieces)
    BY DEF Sender, Pieces
  <1>2. Len(s.accepted) \in Nat
    BY <1>1, LenProperties
  <1> QED  BY <1>1, <1>2 DEF Sender

(* The bytes in the buffer are those between two ends.                     *)
LEMMA RoomIs ==
    ASSUME flow \in Flows, NEW s \in Sender, Joined(s.accepted),
           s.acked <= Len(s.accepted),
           s.totBytes = EndOf(s.accepted, Len(s.accepted))
    PROVE  /\ Room(s) = flow.room - (s.totBytes - EndOf(s.accepted, s.acked))
           /\ EndOf(s.accepted, s.acked) \in Nat
           /\ BytesOf(s.accepted) = s.totBytes
  <1>1. /\ s.accepted \in Seq(Pieces) /\ Len(s.accepted) \in Nat
        /\ s.acked \in 0 .. Len(s.accepted) /\ 0 \in 0 .. Len(s.accepted)
        /\ Len(s.accepted) \in s.acked .. Len(s.accepted)
        /\ s.totBytes \in Nat
    BY SenderIs
  <1>2. BytesOf(SubSeq(s.accepted, s.acked + 1, Len(s.accepted)))
           = EndOf(s.accepted, Len(s.accepted)) - EndOf(s.accepted, s.acked)
    BY <1>1, BytesAfter
  <1>3. BytesOf(SubSeq(s.accepted, 0 + 1, Len(s.accepted)))
           = EndOf(s.accepted, Len(s.accepted)) - EndOf(s.accepted, 0)
    BY <1>1, BytesAfter
  <1>4. SubSeq(s.accepted, 0 + 1, Len(s.accepted)) = s.accepted
    BY <1>1, SubSeqFull
  <1>5. EndOf(s.accepted, 0) = 0
    BY DEF EndOf
  <1>6. EndOf(s.accepted, s.acked) \in Nat
    <2>1. s.acked \in s.acked .. Len(s.accepted)
      BY <1>1
    <2> QED  BY <1>1, <2>1, EndsGrow
  <1> DEFINE x == EndOf(s.accepted, s.acked)
             y == s.totBytes
  <1>7. Room(s) = flow.room - (y - x)
    BY <1>2 DEF Room
  <1>8. BytesOf(s.accepted) = y - 0
    BY <1>3, <1>4, <1>5
  <1>9. y - 0 = y
    BY <1>1
  <1> QED  BY <1>6, <1>7, <1>8, <1>9

(* A new packet.                                                           *)
LEMMA Begins ==
    ASSUME flow \in Flows, NEW s, SenderInv(s), More(s)
    PROVE  LET t == NewPacket(s) IN
           /\ SenderInv(t) /\ t.unsent # NoPiece
           /\ t.accepted = s.accepted /\ t.totBytes = s.totBytes /\ Same(s, t)
  <1>1. /\ s \in Sender /\ Streaming(s) /\ Buffered(s) /\ Connected(s)
        /\ s.totBytes \in Nat /\ s.seq \in Nat
    BY SenderIs DEF SenderInv
  <1>2. CASE s.unsent # NoPiece
    BY <1>2 DEF NewPacket, Same
  <1>3. CASE s.unsent = NoPiece
    <2> DEFINE u == NewPiece(s)
               n == IF flow.header THEN s.seq + 1 ELSE s.seq
               t == [s EXCEPT !.unsent = u, !.seq = n,
                              !.aborted = flow.header /\ ToSend(s) < HeaderSize]
    <2>1. NewPacket(s) = t
      BY <1>3 DEF NewPacket
    <2>2. PICK q \in Nat : s.totBytes = q * SendSize /\ (flow.header => s.seq = q)
      BY <1>1, <1>3 DEF Streaming, Fresh
    <2> DEFINE l == ToSend(s)
    <2>3. /\ l \in Nat /\ l > 0 /\ l <= SendSize
          /\ flow.max > 0 => s.totBytes + l <= flow.max
          /\ l = SendSize \/ (flow.max > 0 /\ s.totBytes + l = flow.max)
      BY <1>1, FlowIs DEF ToSend, More
    <2>4. ~(flow.header /\ l < HeaderSize)
      <3> SUFFICES ASSUME flow.header PROVE HeaderSize <= l
        BY <2>3, FlowIs
      <3>1. /\ HeaderSize <= SendSize
            /\ flow.max % SendSize = 0 \/ HeaderSize <= flow.max % SendSize
        BY HeaderAssumption
      <3>2. CASE l = SendSize
        BY <3>1, <3>2
      <3>3. CASE l # SendSize
        <4>1. l \in 0 .. SendSize - 1 /\ flow.max = q * SendSize + l
          BY <2>2, <2>3, <3>3, FlowIs
        <4>2. flow.max % SendSize = l
          <5> HIDE DEF l
          <5> QED  BY <4>1, FlowIs, RestIs
        <4> QED  BY <2>3, <3>1, <4>2
      <3> QED  BY <3>2, <3>3
    <2>5. u = [seq |-> IF flow.header THEN s.seq ELSE NoSeq,
               from |-> s.totBytes, len |-> l]
      BY DEF NewPiece
    <2> HIDE DEF l, u
    <2>6. /\ u \in [seq : Number, from : Nat, len : Nat]
          /\ u.seq = (IF flow.header THEN s.seq ELSE NoSeq)
          /\ u.from = s.totBytes /\ u.len = l
      BY <1>1, <2>3, <2>5 DEF Number
    <2>7. u # NoPiece
      BY <2>3, <2>6 DEF NoPiece
    <2>8. n \in Nat
      BY <1>1
    <2> HIDE DEF n
    <2>9. /\ t \in Sender /\ t.unsent = u /\ t.seq = n /\ ~t.aborted
          /\ t.accepted = s.accepted /\ t.totBytes = s.totBytes /\ Same(s, t)
      <3>1. (flow.header /\ ToSend(s) < HeaderSize) = FALSE
        BY <2>4, FlowIs DEF l
      <3>2. t = [s EXCEPT !.unsent = u, !.seq = n, !.aborted = FALSE]
        BY <3>1
      <3> HIDE DEF t
      <3> QED  BY <1>1, <2>6, <2>8, <3>2 DEF Sender, Same
    <2> HIDE DEF t
    <2>10. Begun(t)
      <3>1. Within(q, t.totBytes, t.unsent.len)
        BY <2>2, <2>3, <2>6, <2>9, FlowIs DEF Within
      <3>2. \/ t.totBytes + t.unsent.len = (q + 1) * SendSize
            \/ (flow.max > 0 /\ t.totBytes + t.unsent.len = flow.max)
        <4>1. t.totBytes = s.totBytes /\ t.unsent.len = l
          BY <2>6, <2>9
        <4>2. (q + 1) * SendSize = q * SendSize + SendSize
          BY FlowIs
        <4> QED  BY <2>2, <2>3, <4>1, <4>2
      <3>3. /\ t.unsent.seq = IF flow.header THEN q ELSE NoSeq
            /\ flow.header => t.seq = q + 1
        BY <2>2, <2>6, <2>9 DEF n
      <3> QED  BY <2>3, <2>6, <2>9, <3>1, <3>2, <3>3 DEF Begun
    <2>11. SenderInv(t)
      BY <1>1, <2>7, <2>9, <2>10
         DEF SenderInv, Streaming, Buffered, Connected, Same
    <2> QED  BY <2>1, <2>7, <2>9, <2>11
  <1> QED  BY <1>2, <1>3

(* Part of the packet, or all of it, goes into the buffer.                 *)
LEMMA Writes ==
    ASSUME flow \in Flows, NEW s, SenderInv(s), s.unsent # NoPiece,
           s.state = "ESTABLISHED",
           NEW n \in 1 .. s.unsent.len, n <= Room(s)
    PROVE  LET t == Write(s, n) IN
           SenderInv(t) /\ Grows(s.accepted, t.accepted) /\ Same(s, t)
  <1> DEFINE p == [seq |-> s.unsent.seq, from |-> s.unsent.from, len |-> n,
                   left |-> LeftSize(s)]
             rest == [s.unsent EXCEPT !.from = @ + n, !.len = @ - n]
             u == IF n = s.unsent.len THEN NoPiece ELSE rest
             a == s.accepted
             b == Append(a, p)
             t == [s EXCEPT !.accepted = b, !.totBytes = s.totBytes + n,
                            !.unsent = u]
  <1>1. /\ s \in Sender /\ Streaming(s) /\ Buffered(s) /\ Connected(s)
        /\ s.totBytes \in Nat /\ s.seq \in Nat /\ a \in Seq(Pieces)
        /\ Len(a) \in Nat /\ s.acked \in Nat /\ s.next \in Nat
        /\ s.unsent \in [seq : Number, from : Nat, len : Nat]
    BY SenderIs DEF SenderInv
  <1>2. /\ s.unsent.seq \in Number /\ s.unsent.from \in Nat
        /\ s.unsent.len \in Nat /\ n \in Nat /\ n > 0 /\ n <= s.unsent.len
        /\ s.totBytes + n \in Nat
    BY <1>1
  <1>3. Write(s, n) = t
    <2>1. Piece([s.unsent EXCEPT !.len = n], LeftSize(s)) = p
      BY <1>1, <1>2 DEF Piece
    <2> QED  BY <2>1 DEF Write
  <1>4. LeftSize(s) \in Nat /\ LeftSize(s) <= HalfWord
    <2> DEFINE x == (flow.max - s.totBytes) % Word
               y == x \div KB
    <2>1. x \in Nat
      BY <1>1, FlowIs, FlowAssumption
    <2>2. y \in Nat
      <3> HIDE DEF x
      <3> QED  BY <2>1, FlowAssumption
    <2>3. y % HalfWord \in Nat /\ y % HalfWord <= HalfWord
      <3> HIDE DEF y
      <3> QED  BY <2>2, FlowAssumption
    <2> QED  BY <2>3 DEF LeftSize
  <1>5. /\ p \in Pieces /\ p.seq = s.unsent.seq /\ p.from = s.unsent.from
        /\ p.len = n /\ p.left <= HalfWord
    BY <1>2, <1>4 DEF Pieces
  <1> HIDE DEF p
  <1>6. /\ b \in Seq(Pieces) /\ Len(b) = Len(a) + 1 /\ b[Len(a) + 1] = p
        /\ \A k \in 1 .. Len(a) : b[k] = a[k]
        /\ DOMAIN b = 1 .. Len(a) + 1 /\ DOMAIN a = 1 .. Len(a)
    BY <1>1, <1>5, AppendProperties, LenProperties
  <1>7. /\ n # s.unsent.len => /\ rest \in [seq : Number, from : Nat, len : Nat]
                               /\ rest.seq = s.unsent.seq
                               /\ rest.from = s.unsent.from + n
                               /\ rest.len = s.unsent.len - n
                               /\ rest # NoPiece
        /\ u \in [seq : Number, from : Nat, len : Nat] \cup {NoPiece}
    <2>1. CASE n = s.unsent.len
      BY <2>1
    <2>2. CASE n # s.unsent.len
      <3>1. s.unsent.len - n \in Nat /\ s.unsent.len - n # 0
               /\ s.unsent.from + n \in Nat
        BY <1>2, <2>2
      <3>2. /\ rest \in [seq : Number, from : Nat, len : Nat]
            /\ rest.seq = s.unsent.seq
            /\ rest.from = s.unsent.from + n
            /\ rest.len = s.unsent.len - n
        BY <1>1, <1>2, <3>1
      <3>3. rest # NoPiece
        BY <3>1, <3>2 DEF NoPiece
      <3> QED  BY <2>2, <3>2, <3>3
    <2> QED  BY <2>1, <2>2
  <1> HIDE DEF rest
  <1>8. /\ t \in Sender /\ t.accepted = b /\ t.totBytes = s.totBytes + n
        /\ t.unsent = u /\ t.seq = s.seq /\ t.aborted = s.aborted
        /\ Same(s, t)
    <2>1. b \in Seq([seq : Number, from : Nat, len : Nat, left : Nat])
      BY <1>6 DEF Pieces
    <2> HIDE DEF u, b
    <2> QED  BY <1>1, <1>2, <1>7, <2>1 DEF Sender, Same
  <1> HIDE DEF t, b
  <1>9. Begun(s)
    BY <1>1 DEF Streaming
  <1>10. PICK q \in Nat :
            /\ Within(q, s.totBytes, s.unsent.len)
            /\ \/ s.totBytes + s.unsent.len = (q + 1) * SendSize
               \/ (flow.max > 0 /\ s.totBytes + s.unsent.len = flow.max)
            /\ s.unsent.seq = IF flow.header THEN q ELSE NoSeq
            /\ flow.header => s.seq = q + 1
    BY <1>9 DEF Begun
  <1>11. s.unsent.from = s.totBytes /\ s.totBytes = EndOf(a, Len(a))
    BY <1>1, <1>9 DEF Begun, Streaming
  <1>12. Joined(b)
    <2> SUFFICES ASSUME NEW k \in 1 .. Len(a) + 1
                 PROVE  b[k].len > 0 /\ Follows(b, k)
      BY <1>6 DEF Joined
    <2>1. CASE k = Len(a) + 1
      <3>1. Len(a) # 0 => Len(a) \in 1 .. Len(a)
        BY <1>1
      <3>2. b[k].from = IF Len(a) = 0 THEN 0 ELSE a[Len(a)].from + a[Len(a)].len
        BY <1>5, <1>6, <1>11, <2>1 DEF EndOf
      <3>3. k = 1 <=> Len(a) = 0
        BY <1>1, <2>1
      <3>4. k - 1 = Len(a)
        BY <1>1, <2>1
      <3> QED  BY <1>2, <1>5, <1>6, <2>1, <3>1, <3>2, <3>3, <3>4 DEF Follows
    <2>2. CASE k # Len(a) + 1
      <3>1. k \in 1 .. Len(a) /\ (k # 1 => k - 1 \in 1 .. Len(a))
        <4> DEFINE l == Len(a)
        <4>1. l \in Nat /\ k \in 1 .. l + 1 /\ k # l + 1
          BY <1>1, <2>2
        <4> HIDE DEF l
        <4>2. k \in 1 .. l /\ (k # 1 => k - 1 \in 1 .. l)
          BY <4>1
        <4> QED  BY <4>2 DEF l
      <3>2. a[k].len > 0 /\ Follows(a, k)
        BY <1>1, <1>6, <3>1 DEF Streaming, Joined
      <3> QED  BY <1>6, <3>1, <3>2 DEF Follows
    <2> QED  BY <2>1, <2>2
  <1>13. Within(q, s.totBytes, n)
    <2> DEFINE m == (q + 1) * SendSize
    <2>1. m \in Nat
      BY FlowIs
    <2>2. q * SendSize <= s.totBytes /\ s.totBytes + s.unsent.len <= m
      BY <1>10 DEF Within
    <2> HIDE DEF m
    <2>3. s.totBytes + n <= m
      BY <1>1, <1>2, <2>1, <2>2
    <2> QED  BY <2>2, <2>3 DEF Within, m
  <1>14. Packed(b)
    <2> SUFFICES ASSUME NEW k \in 1 .. Len(a) + 1
                 PROVE  /\ \E x \in Nat : Within(x, b[k].from, b[k].len)
                                             /\ b[k].seq \in {NoSeq, x}
                        /\ b[k].left <= HalfWord
      BY <1>6 DEF Packed
    <2>1. CASE k = Len(a) + 1
      <3>1. Within(q, b[k].from, b[k].len) /\ b[k].seq \in {NoSeq, q}
               /\ b[k].left <= HalfWord
        BY <1>5, <1>6, <1>10, <1>11, <1>13, <2>1
      <3> QED  BY <3>1
    <2>2. CASE k # Len(a) + 1
      <3>1. k \in 1 .. Len(a)
        BY <1>1, <2>2
      <3> QED  BY <1>1, <1>6, <3>1 DEF Streaming, Packed
    <2> QED  BY <2>1, <2>2
  <1>15. t.totBytes = EndOf(t.accepted, Len(t.accepted))
    <2>1. EndOf(b, Len(b)) = p.from + p.len
      <3>1. Len(a) + 1 # 0
        BY <1>1
      <3> QED  BY <1>6, <3>1 DEF EndOf
    <2> QED  BY <1>5, <1>8, <1>11, <2>1
  <1>16. flow.max > 0 => t.totBytes <= flow.max
    <2> SUFFICES ASSUME flow.max > 0 PROVE t.totBytes <= flow.max
      OBVIOUS
    <2>1. s.totBytes + s.unsent.len <= flow.max
      BY <1>9 DEF Begun
    <2> QED  BY <1>1, <1>2, <1>8, <2>1, FlowIs
  <1>17. IF t.unsent = NoPiece THEN Fresh(t) ELSE Begun(t)
    <2>1. CASE n = s.unsent.len
      <3>1. t.unsent = NoPiece
        BY <1>8, <2>1
      <3>2. Fresh(t)
        <4> SUFFICES ASSUME More(t)
                     PROVE  t.totBytes = (q + 1) * SendSize
                               /\ (flow.header => t.seq = q + 1)
          <5>1. q + 1 \in Nat
            OBVIOUS
          <5> QED  BY <5>1 DEF Fresh
        <4>1. flow.max = 0 \/ t.totBytes < flow.max
          BY DEF More
        <4>2. t.totBytes = s.totBytes + s.unsent.len
          BY <1>8, <2>1
        <4>3. ~(flow.max > 0 /\ t.totBytes = flow.max)
          BY <1>1, <1>2, <4>1, <4>2, FlowIs
        <4> QED  BY <1>8, <1>10, <4>2, <4>3
      <3> QED  BY <3>1, <3>2
    <2>2. CASE n # s.unsent.len
      <3>1. /\ t.unsent = rest /\ t.unsent # NoPiece
            /\ t.unsent.seq = s.unsent.seq
            /\ t.unsent.from = s.unsent.from + n
            /\ t.unsent.len = s.unsent.len - n
        BY <1>7, <1>8, <2>2
      <3>2. t.unsent.len > 0
               /\ t.totBytes + t.unsent.len = s.totBytes + s.unsent.len
        <4> DEFINE x == s.totBytes
                   l == s.unsent.len
        <4>1. x \in Nat /\ l \in Nat /\ n \in 1 .. l /\ n # l
          BY <1>1, <1>2, <2>2
        <4>2. t.totBytes = x + n /\ t.unsent.len = l - n
          BY <1>8, <3>1
        <4> HIDE DEF x, l
        <4>3. l - n > 0 /\ (x + n) + (l - n) = x + l
          BY <4>1
        <4> QED  BY <4>2, <4>3 DEF x, l
      <3>3. Within(q, t.totBytes, t.unsent.len)
        <4>1. q * SendSize \in Nat
          BY FlowIs
        <4>2. q * SendSize <= s.totBytes + n
          BY <1>1, <1>2, <1>10, <4>1 DEF Within
        <4> QED  BY <1>8, <1>10, <3>2, <4>2 DEF Within
      <3>4. t.unsent.from = t.totBytes
        BY <1>8, <1>11, <3>1
      <3>5. flow.max > 0 => t.totBytes + t.unsent.len <= flow.max
        BY <1>9, <3>2 DEF Begun
      <3>6. Begun(t)
        BY <1>8, <1>10, <3>1, <3>2, <3>3, <3>4, <3>5 DEF Begun
      <3> QED  BY <3>1, <3>6
    <2> QED  BY <2>1, <2>2
  <1>18. Buffered(t)
    <2>1. s.acked <= Len(a) /\ s.next <= Len(a) /\ s.acked \in 0 .. Len(a)
      BY <1>1 DEF Buffered
    <2>2. EndOf(b, s.acked) = EndOf(a, s.acked)
      <3>1. s.acked # 0 => s.acked \in 1 .. Len(a)
        BY <1>1, <2>1
      <3> QED  BY <1>6, <3>1 DEF EndOf
    <2> DEFINE e == EndOf(a, s.acked)
    <2>3. Room(s) = flow.room - (s.totBytes - e) /\ e \in Nat
      <3>1. Joined(a) /\ s.acked <= Len(a)
        BY <1>1, <2>1 DEF Streaming
      <3> QED  BY <1>1, <1>11, <3>1, RoomIs
    <2> HIDE DEF e
    <2>4. (s.totBytes + n) - e <= flow.room
      <3> DEFINE x == s.totBytes
                 r == flow.room
      <3>1. x \in Nat /\ r \in Nat /\ e \in Nat /\ n \in Nat /\ n <= r - (x - e)
        BY <1>1, <1>2, <2>3, FlowIs
      <3> HIDE DEF x, r
      <3>2. (x + n) - e <= r
        BY <3>1
      <3> QED  BY <3>2 DEF x, r
    <2>5. t.acked <= Len(b) /\ t.next <= Len(b)
      BY <1>1, <1>6, <1>8, <2>1 DEF Same
    <2> QED  BY <1>8, <2>2, <2>4, <2>5 DEF Buffered, Same, e
  <1>19. Connected(t)
    BY <1>1, <1>8 DEF Connected, Same
  <1>20. Grows(a, b)
    BY <1>1, <1>6 DEF Grows
  <1> QED  BY <1>3, <1>8, <1>12, <1>14, <1>15, <1>16, <1>17, <1>18, <1>19, <1>20
           DEF SenderInv, Streaming

(* One pass of the loop.                                                   *)
LEMMA Passing ==
    ASSUME flow \in Flows, NEW s, SenderInv(s), s.state = "ESTABLISHED"
    PROVE  LET t == Pass(s) IN
           SenderInv(t) /\ Grows(s.accepted, t.accepted) /\ Same(s, t)
  <1>0. Grows(s.accepted, s.accepted) /\ Same(s, s)
    <2>1. Len(s.accepted) \in Nat
      BY SenderIs DEF SenderInv
    <2> QED  BY <2>1 DEF Grows, Same
  <1>1. CASE ~More(s)
    <2>1. Pass(s) = s
      BY <1>1 DEF Pass
    <2> QED  BY <1>0, <2>1
  <1>2. CASE More(s)
    <2> DEFINE t == NewPacket(s)
               n == Send(t, t.unsent.len)
    <2>1. /\ SenderInv(t) /\ t.unsent # NoPiece
          /\ t.accepted = s.accepted /\ t.totBytes = s.totBytes /\ Same(s, t)
      BY <1>2, Begins
    <2>2. Pass(s) = IF t.aborted \/ n = 0 THEN t ELSE Write(t, n)
      BY <1>2 DEF Pass
    <2> HIDE DEF t
    <2>3. CASE t.aborted \/ n = 0
      BY <1>0, <2>1, <2>2, <2>3
    <2>4. CASE ~(t.aborted \/ n = 0)
      <3>1. /\ t \in Sender /\ Joined(t.accepted) /\ t.acked <= Len(t.accepted)
            /\ t.totBytes = EndOf(t.accepted, Len(t.accepted))
            /\ t.totBytes - EndOf(t.accepted, t.acked) <= flow.room
        <4>1. t \in Sender /\ Streaming(t) /\ Buffered(t)
          BY <2>1 DEF SenderInv
        <4>2. t.acked \in Nat /\ t.next \in Nat /\ Len(t.accepted) \in Nat
          BY <4>1, SenderIs
        <4> QED  BY <4>1, <4>2 DEF Streaming, Buffered
      <3> DEFINE r == Room(t)
                 l == t.unsent.len
                 x == EndOf(t.accepted, t.acked)
      <3>2. r = flow.room - (t.totBytes - x) /\ x \in Nat /\ t.totBytes \in Nat
        BY <3>1, RoomIs, SenderIs
      <3>3. t.totBytes - x <= flow.room
        BY <3>1
      <3>4. l \in Nat
        BY <2>1, <3>1, SenderIs
      <3>5. n = IF l <= r THEN l ELSE IF flow.partial THEN r ELSE 0
        <4>1. t.state = "ESTABLISHED"
          BY <2>1 DEF Same
        <4> QED  BY <4>1 DEF Send
      <3> HIDE DEF r, l, x, n
      <3>6. r \in Int /\ r >= 0
        BY <3>2, <3>3, FlowIs
      <3>7. n \in 1 .. l /\ n <= r
        BY <2>4, <3>4, <3>5, <3>6
      <3>8. t.state = "ESTABLISHED"
        BY <2>1 DEF Same
      <3> DEFINE w == Write(t, n)
      <3>9. SenderInv(w) /\ Grows(t.accepted, w.accepted) /\ Same(t, w)
        BY <2>1, <3>7, <3>8, Writes DEF r, l
      <3>10. Pass(s) = w
        BY <2>2, <2>4
      <3> HIDE DEF w
      <3> QED  BY <2>1, <3>9, <3>10 DEF Same
    <2> QED  BY <2>3, <2>4
  <1> QED  BY <1>1, <1>2

(* Growing is transitive.                                                  *)
LEMMA GrowsOn ==
    ASSUME NEW a \in Seq(Pieces), NEW b \in Seq(Pieces), NEW c \in Seq(Pieces),
           Grows(a, b), Grows(b, c)
    PROVE  Grows(a, c)
  <1>1. Len(a) \in Nat /\ Len(b) \in Nat /\ Len(c) \in Nat
    BY LenProperties
  <1>2. Len(a) <= Len(b) /\ Len(b) <= Len(c)
    BY DEF Grows
  <1> DEFINE l == Len(a)
             m == Len(b)
  <1>3. 1 .. l \subseteq 1 .. m
    BY <1>1, <1>2
  <1>4. Len(a) <= Len(c)
    BY <1>1, <1>2
  <1> QED  BY <1>3, <1>4 DEF Grows

(* The loop.                                                               *)
LEMMA Looping ==
    ASSUME flow \in Flows, NEW s, SenderInv(s), s.state = "ESTABLISHED"
    PROVE  LET t == SendLoop(s) IN
           SenderInv(t) /\ Grows(s.accepted, t.accepted) /\ Same(s, t)
  <1> DEFINE M == Passes
             Fits(t) == SenderInv(t) /\ Grows(s.accepted, t.accepted) /\ Same(s, t)
             L == {t \in Sender : Fits(t)}
             pass == [t \in Sender |-> Pass(t)]
             step == [n \in 1 .. M |-> [t \in L |-> Pass(t)]]
             Body(f) == [n \in 0 .. M |-> IF n = 0 THEN s ELSE pass[f[n - 1]]]
  <1>1. M \in Nat
    BY FlowIs DEF Passes
  <1>2. s \in L
    <2>1. s \in Sender /\ Len(s.accepted) \in Nat
      BY SenderIs DEF SenderInv
    <2>2. Grows(s.accepted, s.accepted) /\ Same(s, s)
      BY <2>1 DEF Grows, Same
    <2> QED  BY <2>1, <2>2
  <1>3. ASSUME NEW t \in L
        PROVE  Pass(t) \in L
    <2> DEFINE u == Pass(t)
    <2>1. SenderInv(t) /\ Grows(s.accepted, t.accepted) /\ Same(s, t)
      OBVIOUS
    <2>2. t.state = "ESTABLISHED"
      BY <2>1 DEF Same
    <2>3. SenderInv(u) /\ Grows(t.accepted, u.accepted) /\ Same(t, u)
      BY <2>1, <2>2, Passing
    <2> HIDE DEF u
    <2>4. /\ s.accepted \in Seq(Pieces) /\ t.accepted \in Seq(Pieces)
          /\ u.accepted \in Seq(Pieces) /\ u \in Sender
      BY <2>1, <2>3, SenderIs DEF SenderInv
    <2>5. Grows(s.accepted, u.accepted)
      BY <2>1, <2>3, <2>4, GrowsOn
    <2>6. Same(s, u)
      BY <2>1, <2>3 DEF Same
    <2>7. u \in L
      BY <2>3, <2>4, <2>5, <2>6
    <2> QED  BY <2>7 DEF u
  <1>4. L \subseteq Sender
    OBVIOUS
  <1> HIDE DEF M, L
  <1>5. step \in [1 .. M -> [L -> L]]
    BY <1>3
  <1>6. PICK f : Recursion(f, M, L, s, step)
    <2> HIDE DEF step
    <2> QED  BY <1>1, <1>2, <1>5, RecursionExists
  <1>7. f = Body(f)
    <2>1. ASSUME NEW n \in 0 .. M
          PROVE  f[n] = IF n = 0 THEN s ELSE pass[f[n - 1]]
      <3>1. CASE n = 0
        BY <1>6, <3>1 DEF Recursion
      <3>2. CASE n # 0
        <4>1. n \in 1 .. M /\ n - 1 \in 0 .. M
          BY <1>1, <3>2
        <4>2. f[n - 1] \in L /\ f[n - 1] \in Sender
          BY <1>4, <1>6, <4>1 DEF Recursion
        <4>3. f[n] = step[n][f[n - 1]]
          BY <1>6, <4>1 DEF Recursion
        <4>4. step[n][f[n - 1]] = Pass(f[n - 1])
          BY <4>1, <4>2
        <4>5. pass[f[n - 1]] = Pass(f[n - 1])
          BY <4>2
        <4> QED  BY <3>2, <4>3, <4>4, <4>5
      <3> QED  BY <3>1, <3>2
    <2> HIDE DEF pass, step
    <2> QED  BY <1>6, <2>1 DEF Recursion
  <1> DEFINE g == CHOOSE h : h = Body(h)
  <1>8. g = Body(g)
    <2> HIDE DEF Body
    <2> QED  BY <1>7
  <1>9. SendLoop(s) = g[M]
    BY DEF SendLoop, M
  <1> HIDE DEF g
  <1> DEFINE S == {n \in 0 .. M : g[n] \in L}
  <1>10. 0 \in S
    <2>1. g[0] = s
      BY <1>1, <1>8
    <2> QED  BY <1>1, <1>2, <2>1
  <1>11. ASSUME NEW n \in 0 .. M - 1, n \in S
         PROVE  n + 1 \in S
    <2>1. /\ n + 1 \in 0 .. M /\ n + 1 # 0 /\ (n + 1) - 1 = n
          /\ g[n] \in L /\ g[n] \in Sender
      BY <1>1, <1>4, <1>11
    <2>2. g[n + 1] = pass[g[n]]
      <3> HIDE DEF pass
      <3> QED  BY <1>8, <2>1
    <2>3. g[n + 1] \in L
      BY <1>3, <2>1, <2>2
    <2> QED  BY <2>1, <2>3
  <1>12. 0 .. M \subseteq S
    <2> HIDE DEF S
    <2> QED  BY <1>1, <1>10, <1>11, SetInduction
  <1>13. g[M] \in L
    BY <1>1, <1>12
  <1> QED  BY <1>9, <1>13 DEF L

(* What a callback of the socket may do to the sender: write more, unless  *)
(* it has closed.                                                          *)
Goes(s, t) ==
    /\ SenderInv(t) /\ Grows(s.accepted, t.accepted)
    /\ t.acked = s.acked /\ t.next = s.next
    /\ s.closed => t.closed /\ t.accepted = s.accepted

(* Close, of the application.                                              *)
LEMMA Closes ==
    ASSUME NEW s, SenderInv(s), s.state # "none"
    PROVE  LET t == [Close(s) EXCEPT !.connected = FALSE] IN
           Goes(s, t) /\ t.accepted = s.accepted /\ t.closed /\ ~t.connected
  <1> DEFINE c == Close(s)
             t == [c EXCEPT !.connected = FALSE]
  <1>1. /\ s \in Sender /\ Streaming(s) /\ Buffered(s) /\ Connected(s)
        /\ s.acked \in Nat /\ s.next \in Nat /\ Len(s.accepted) \in Nat
    BY SenderIs DEF SenderInv
  <1>2. /\ c \in Sender
        /\ c.accepted = s.accepted /\ c.totBytes = s.totBytes
        /\ c.unsent = s.unsent /\ c.seq = s.seq /\ c.aborted = s.aborted
        /\ c.acked = s.acked /\ c.next = s.next /\ c.closed
        /\ c.state \in {"none", "SYN_SENT"} => s.next < Len(s.accepted)
    <2>1. CASE s.next < Len(s.accepted)
      <3> DEFINE e == [s EXCEPT !.closed = TRUE, !.closeOnEmpty = TRUE]
      <3>1. c = e
        BY <2>1 DEF Close
      <3>2. /\ e \in Sender
            /\ e.accepted = s.accepted /\ e.totBytes = s.totBytes
            /\ e.unsent = s.unsent /\ e.seq = s.seq /\ e.aborted = s.aborted
            /\ e.acked = s.acked /\ e.next = s.next /\ e.closed
        BY <1>1 DEF Sender
      <3> QED  BY <2>1, <3>1, <3>2
    <2>2. CASE ~(s.next < Len(s.accepted))
      <3> DEFINE x == CASE s.state = "ESTABLISHED" -> "FIN_WAIT_1"
                        [] s.state = "SYN_SENT" -> "CLOSED"
                        [] OTHER -> s.state
                 e == [s EXCEPT !.closed = TRUE, !.state = x]
      <3>1. c = e
        BY <2>2 DEF Close
      <3>2. /\ x \in {"none", "SYN_SENT", "ESTABLISHED", "FIN_WAIT_1", "CLOSED"}
            /\ x \notin {"none", "SYN_SENT"}
        <4>1. s.state \in {"none", "SYN_SENT", "ESTABLISHED", "FIN_WAIT_1", "CLOSED"}
          BY <1>1 DEF Sender
        <4>2. CASE s.state = "ESTABLISHED"
          BY <4>2
        <4>3. CASE s.state = "SYN_SENT"
          BY <4>3
        <4>4. CASE s.state \in {"FIN_WAIT_1", "CLOSED"}
          <5>1. x = s.state
            BY <4>4
          <5> QED  BY <4>4, <5>1
        <4> QED  BY <4>1, <4>2, <4>3, <4>4
      <3> HIDE DEF x
      <3>3. /\ e \in Sender /\ e.state = x
            /\ e.accepted = s.accepted /\ e.totBytes = s.totBytes
            /\ e.unsent = s.unsent /\ e.seq = s.seq /\ e.aborted = s.aborted
            /\ e.acked = s.acked /\ e.next = s.next /\ e.closed
        BY <1>1, <3>2 DEF Sender
      <3> QED  BY <3>1, <3>2, <3>3
    <2> QED  BY <2>1, <2>2
  <1> HIDE DEF c
  <1>3. /\ t \in Sender /\ t.accepted = c.accepted /\ t.totBytes = c.totBytes
        /\ t.unsent = c.unsent /\ t.seq = c.seq /\ t.aborted = c.aborted
        /\ t.acked = c.acked /\ t.next = c.next /\ t.closed = c.closed
        /\ t.state = c.state /\ t.connected = FALSE
    BY <1>2 DEF Sender
  <1> HIDE DEF t
  <1>4. Streaming(t)
    BY <1>1, <1>2, <1>3 DEF Streaming, Fresh, Begun, More
  <1>5. Buffered(t)
    BY <1>1, <1>2, <1>3 DEF Buffered
  <1>6. Connected(t)
    <2>1. t.state \notin {"none", "SYN_SENT"}
      <3> SUFFICES ASSUME t.state \in {"none", "SYN_SENT"} PROVE FALSE
        OBVIOUS
      <3>1. s.next < Len(s.accepted)
        BY <1>2, <1>3
      <3>2. s.accepted # <<>>
        BY <1>1, <3>1, EmptySeq
      <3>3. s.state \notin {"none", "SYN_SENT"}
        BY <1>1, <3>2 DEF Connected
      <3>4. c = [s EXCEPT !.closed = TRUE, !.closeOnEmpty = TRUE]
        BY <3>1 DEF c, Close
      <3>5. c.state = s.state
        BY <1>1, <3>4 DEF Sender
      <3> QED  BY <1>3, <3>3, <3>5
    <2> QED  BY <1>1, <1>2, <1>3, <2>1 DEF Connected
  <1>7. Grows(s.accepted, t.accepted)
    BY <1>1, <1>2, <1>3 DEF Grows
  <1> QED  BY <1>2, <1>3, <1>4, <1>5, <1>6, <1>7 DEF Goes, SenderInv, t, c

(* The sender is left as it is.                                            *)
LEMMA Stays ==
    ASSUME NEW s, SenderInv(s)
    PROVE  Goes(s, s)
  <1>1. Len(s.accepted) \in Nat
    BY SenderIs DEF SenderInv
  <1> QED  BY <1>1 DEF Goes, Grows

(* SendData, of a connected sender.                                        *)
LEMMA SendsData ==
    ASSUME flow \in Flows, NEW s, SenderInv(s), s.connected
    PROVE  Goes(s, SendData(s))
  <1> DEFINE t == SendLoop(s)
             c == [Close(t) EXCEPT !.connected = FALSE]
  <1>1. s.state = "ESTABLISHED" /\ ~s.closed
    BY DEF SenderInv, Connected
  <1>2. SenderInv(t) /\ Grows(s.accepted, t.accepted) /\ Same(s, t)
    BY <1>1, Looping
  <1>3. SendData(s) = t \/ SendData(s) = c
    BY DEF SendData
  <1> HIDE DEF t
  <1>4. t.state # "none"
    BY <1>1, <1>2 DEF Same
  <1>5. Goes(t, c) /\ c.accepted = t.accepted
    BY <1>2, <1>4, Closes
  <1> HIDE DEF c
  <1>6. Goes(s, t)
    BY <1>1, <1>2 DEF Goes, Same
  <1>7. Goes(s, c)
    BY <1>1, <1>2, <1>5 DEF Goes, Same
  <1> QED  BY <1>3, <1>6, <1>7

(* DataSend and the notification of space, of any sender.                  *)
LEMMA DataSends ==
    ASSUME flow \in Flows, NEW s, SenderInv(s)
    PROVE  Goes(s, DataSend(s)) /\ Goes(s, NotifySend(s))
  <1>1. Goes(s, DataSend(s))
    BY Stays, SendsData DEF DataSend
  <1> QED  BY <1>1, Stays DEF NotifySend

(* One after the other.                                                    *)
LEMMA GoesOn ==
    ASSUME NEW s, SenderInv(s), NEW t, Goes(s, t), NEW u, Goes(t, u)
    PROVE  Goes(s, u)
  <1>1. /\ s.accepted \in Seq(Pieces) /\ t.accepted \in Seq(Pieces)
        /\ u.accepted \in Seq(Pieces)
    BY SenderIs DEF SenderInv, Goes
  <1>2. Grows(s.accepted, u.accepted)
    BY <1>1, GrowsOn DEF Goes
  <1> QED  BY <1>2 DEF Goes
-------------------------------------------------------------------------------
(* The packets the link may hold when a has been accepted, by class.       *)
Thresh == IF flow.link = "prio" THEN MiceThresh ELSE FlowSizeThresh
Sent(a) == [idx : 1 .. Len(a), left : 0 .. HalfWord \cup {NoTag}]
Of(a) == [c \in {0, 1} |->
             {p \in Sent(a) : (a[p.idx].left <= Thresh) <=> c = 0}]
LinkFits(d, a) ==
    IF flow.link = "prio" THEN PrioInv(d, Of(a)) ELSE DiscInv(d, Of(a))

(* The sets of the module, of any state of the link.                       *)
HeldIn(d) == IF flow.link = "prio" THEN Prio!Waiting(d) ELSE Disc!InBands(d)
ChosenIn(d) == ({d.current} \ {NoPacket})
                 \cup (IF flow.link = "prio" THEN {} ELSE Disc!InDevice(d))
ShortIn(p, a) == a[p.idx].left <= Thresh
ShortFirst(d, e, a) ==
    (\E p \in ChosenIn(e) \ ChosenIn(d) : ~ShortIn(p, a))
        => \A p \in HeldIn(e) : ~ShortIn(p, a)

(* Both classes are packets, and tell short from long.                     *)
LEMMA ClassesAre ==
    ASSUME NEW a \in Seq(Pieces)
    PROVE  /\ Both(Of(a)) \subseteq Sent(a)
           /\ \A p \in Of(a)[0] : ShortIn(p, a)
           /\ \A p \in Of(a)[1] : ~ShortIn(p, a)
  BY DEF Both, Of, ShortIn

(* They grow with the stream.                                              *)
LEMMA ClassesGrow ==
    ASSUME NEW a \in Seq(Pieces), NEW b \in Seq(Pieces), Grows(a, b)
    PROVE  /\ Of(a)[0] \subseteq Of(b)[0] /\ Of(a)[1] \subseteq Of(b)[1]
           /\ Both(Of(a)) \subseteq Both(Of(b))
  <1>1. Len(a) \in Nat /\ Len(b) \in Nat /\ Len(a) <= Len(b)
    BY LenProperties DEF Grows
  <1>2. 1 .. Len(a) \subseteq 1 .. Len(b)
    BY <1>1
  <1>3. ASSUME NEW p \in Sent(a)
        PROVE  p \in Sent(b) /\ b[p.idx] = a[p.idx]
    BY <1>2 DEF Sent, Grows
  <1>4. ASSUME NEW c \in {0, 1}
        PROVE  Of(a)[c] \subseteq Of(b)[c]
    BY <1>3 DEF Of
  <1> QED  BY <1>4 DEF Both

(* What fits the link before the stream grows fits it afterwards.          *)
LEMMA LinkGrows ==
    ASSUME NEW a \in Seq(Pieces), NEW b \in Seq(Pieces), Grows(a, b),
           NEW d, LinkFits(d, a)
    PROVE  LinkFits(d, b)
  <1> DEFINE P == Of(a)
             R == Of(b)
  <1>1. /\ P[0] \subseteq R[0] /\ P[1] \subseteq R[1]
        /\ Both(P) \subseteq Both(R)
    BY ClassesGrow
  <1>2. LinkFits(d, a) = IF flow.link = "prio" THEN PrioInv(d, P) ELSE DiscInv(d, P)
    BY DEF LinkFits
  <1>3. LinkFits(d, b) = IF flow.link = "prio" THEN PrioInv(d, R) ELSE DiscInv(d, R)
    BY DEF LinkFits
  <1> HIDE DEF P, R
  <1>4. \A s : s \in Seq(Both(P)) => s \in Seq(Both(R))
    BY <1>1, SeqMonotonic
  <1>5. \A q : Sorted(q, P) => Sorted(q, R)
    <2> SUFFICES ASSUME NEW q, Sorted(q, P), NEW c \in {0, 1}
                 PROVE  q[c] \in Seq(R[c])
      BY DEF Sorted
    <2>1. q[c] \in Seq(P[c]) /\ P[c] \subseteq R[c]
      BY <1>1 DEF Sorted
    <2> QED  BY <2>1, SeqMonotonic
  <1>6. ASSUME PrioInv(d, P) PROVE PrioInv(d, R)
    <2>1. d \in Prio!State(Both(R))
      <3>1. d \in Prio!State(Both(P))
        BY <1>6 DEF PrioInv
      <3> QED  BY <1>1, <1>4, <3>1 DEF Prio!State
    <2> QED  BY <1>1, <1>5, <1>6, <2>1 DEF PrioInv
  <1>7. ASSUME DiscInv(d, P) PROVE DiscInv(d, R)
    <2>1. d \in Disc!State(Both(R))
      <3>1. d \in Disc!State(Both(P))
        BY <1>7 DEF DiscInv, DiscHalf
      <3> QED  BY <1>1, <1>4, <3>1 DEF Disc!State
    <2> QED  BY <1>1, <1>5, <1>7, <2>1 DEF DiscInv, DiscHalf
  <1> QED  BY <1>2, <1>3, <1>6, <1>7

(* The first class goes first, on a Prio2Device ...                        *)
LEMMA PrioShortFirst ==
    ASSUME NEW a \in Seq(Pieces), flow.link = "prio", NEW d,
           NEW e, PrioInv(e, Of(a)),
           \/ e.current = d.current
           \/ e.current = NoPacket
           \/ e.current \in Of(a)[0]
           \/ e.queues[0] = <<>>
    PROVE  ShortFirst(d, e, a)
  <1> DEFINE P == Of(a)
  <1> SUFFICES ASSUME NEW p \in ChosenIn(e) \ ChosenIn(d), ~ShortIn(p, a),
                      NEW q \in HeldIn(e)
               PROVE  ~ShortIn(q, a)
    BY DEF ShortFirst
  <1>1. p = e.current /\ p # NoPacket /\ e.current # d.current
    BY DEF ChosenIn
  <1>2. e.queues[0] = <<>>
    BY <1>1, ClassesAre
  <1>3. e.queues[1] \in Seq(P[1])
    BY DEF PrioInv, Sorted
  <1>4. \E c \in {0, 1} : \E n \in DOMAIN e.queues[c] : q = e.queues[c][n]
    BY DEF HeldIn, Prio!Waiting, Prio!Class
  <1>5. DOMAIN e.queues[0] = {}
    BY <1>2
  <1>6. \E n \in DOMAIN e.queues[1] : q = e.queues[1][n]
    BY <1>4, <1>5
  <1>7. q \in P[1]
    <2> HIDE DEF P
    <2> QED  BY <1>3, <1>6, ElementsAre
  <1> QED  BY <1>7, ClassesAre

(* ... and through the queue disc.                                         *)
LEMMA DiscShortFirst ==
    ASSUME NEW a \in Seq(Pieces), flow.link # "prio", NEW d,
           NEW e, DiscInv(e, Of(a)),
           e.bands[0] = <<>> \/ Down(e) \subseteq Down(d) \cup Of(a)[0]
    PROVE  ShortFirst(d, e, a)
  <1> DEFINE P == Of(a)
  <1> SUFFICES ASSUME NEW p \in ChosenIn(e) \ ChosenIn(d), ~ShortIn(p, a),
                      NEW q \in HeldIn(e)
               PROVE  ~ShortIn(q, a)
    BY DEF ShortFirst
  <1>1. p \in Down(e) /\ p \notin Down(d)
    BY DEF ChosenIn, Down
  <1>2. e.bands[0] = <<>>
    BY <1>1, ClassesAre
  <1>3. e.bands[1] \in Seq(P[1])
    BY DEF DiscInv, DiscHalf, Sorted
  <1>4. \E c \in {0, 1} : \E n \in DOMAIN e.bands[c] : q = e.bands[c][n]
    BY DEF HeldIn, Disc!InBands, Disc!Band
  <1>5. DOMAIN e.bands[0] = {}
    BY <1>2
  <1>6. \E n \in DOMAIN e.bands[1] : q = e.bands[1][n]
    BY <1>4, <1>5
  <1>7. q \in P[1]
    <2> HIDE DEF P
    <2> QED  BY <1>3, <1>6, ElementsAre
  <1> QED  BY <1>7, ClassesAre

(* The link takes piece k.                                                 *)
LEMMA LinkTakes ==
    ASSUME flow \in Flows, NEW a \in Seq(Pieces), Packed(a), LinkFits(link, a),
           NEW k \in 1 .. Len(a)
    PROVE  LET e == LinkSend([idx |-> k, left |-> a[k].left]) IN
           LinkFits(e, a) /\ ShortFirst(link, e, a)
  <1> DEFINE p == [idx |-> k, left |-> a[k].left]
             P == Of(a)
  <1>1. /\ Len(a) \in Nat /\ a[k].left \in Nat /\ a[k].left <= HalfWord
        /\ HalfWord \in Nat
    BY PiecesAre, FlowAssumption DEF Packed
  <1>2. p \in Sent(a) /\ p.idx = k /\ p.left = a[k].left /\ p.left # NoTag
    BY <1>1, FlowAssumption DEF Sent
  <1>3. [p EXCEPT !.left = NoTag] \in Sent(a) /\ [p EXCEPT !.left = NoTag].idx = k
    BY <1>2 DEF Sent
  <1>4. CASE flow.link = "prio"
    <2>1. p \in P[Prio!GetTargetQueue(p)]
      <3>1. Prio!GetTargetQueue(p) = IF a[k].left > MiceThresh THEN 1 ELSE 0
        BY <1>2 DEF Prio!GetTargetQueue
      <3>2. (a[k].left <= Thresh) <=> Prio!GetTargetQueue(p) = 0
        BY <1>1, <1>4, <3>1, FlowAssumption DEF Thresh
      <3>3. Prio!GetTargetQueue(p) \in {0, 1}
        BY <3>1
      <3> QED  BY <1>2, <3>2, <3>3 DEF Of
    <2>2. PrioInv(link, P)
      BY <1>4 DEF LinkFits
    <2> DEFINE e == Prio!Send(link, p).device
    <2>3. /\ PrioInv(e, P)
          /\ e.current = link.current \/ (e.queues[0] = <<>> /\ e.queues[1] = <<>>)
      <3> HIDE DEF p, P
      <3> QED  BY <2>1, <2>2, PrioSends
    <2>4. LinkSend(p) = e
      BY <1>4 DEF LinkSend
    <2> HIDE DEF e, p
    <2>5. ShortFirst(link, e, a)
      BY <1>4, <2>3, PrioShortFirst
    <2> QED  BY <1>4, <2>3, <2>4, <2>5 DEF LinkFits, p
  <1>5. CASE flow.link # "prio"
    <2>1. [p EXCEPT !.left = NoTag] \in P[Disc!BandOf(p)]
      <3>1. Disc!BandOf(p) = IF a[k].left > FlowSizeThresh THEN 1 ELSE 0
        BY <1>2 DEF Disc!BandOf
      <3>2. (a[k].left <= Thresh) <=> Disc!BandOf(p) = 0
        BY <1>1, <1>5, <3>1, FlowAssumption DEF Thresh
      <3>3. Disc!BandOf(p) \in {0, 1}
        BY <3>1
      <3> HIDE DEF p
      <3> QED  BY <1>3, <3>2, <3>3 DEF Of
    <2>2. DiscInv(link, P)
      BY <1>5 DEF LinkFits
    <2> DEFINE e == Disc!Send(link, p).device
    <2>3. /\ DiscInv(e, P)
          /\ e.bands[0] = <<>> \/ Down(e) \subseteq Down(link) \cup P[0]
      <3> HIDE DEF p, P
      <3> QED  BY <2>1, <2>2, DiscSends
    <2>4. LinkSend(p) = e
      BY <1>5 DEF LinkSend
    <2> HIDE DEF e, p
    <2>5. ShortFirst(link, e, a)
      BY <1>5, <2>3, DiscShortFirst
    <2> QED  BY <1>5, <2>3, <2>4, <2>5 DEF LinkFits, p
  <1> QED  BY <1>4, <1>5
-------------------------------------------------------------------------------
(* How much of the first l pieces the receiver r has without a gap.        *)
Reach(l, r) == Max({n \in 0 .. l : \A k \in 1 .. n : k \in r})

(* It is the largest such number.                                          *)
LEMMA ReachIs ==
    ASSUME NEW l \in Nat, NEW r
    PROVE  /\ Reach(l, r) \in 0 .. l
           /\ \A k \in 1 .. Reach(l, r) : k \in r
           /\ \A n \in 0 .. l : (\A k \in 1 .. n : k \in r) => n <= Reach(l, r)
  <1> DEFINE S == {n \in 0 .. l : \A k \in 1 .. n : k \in r}
             U == {l - n : n \in S}
             u == Min(U)
  <1>1. 0 \in S
    OBVIOUS
  <1>2. U \in SUBSET Nat /\ U # {}
    <2>1. \A n \in S : l - n \in Nat
      OBVIOUS
    <2> HIDE DEF S
    <2> QED  BY <1>1, <2>1
  <1>3. u \in U /\ \A x \in U : u <= x
    BY <1>2, MinIn
  <1> HIDE DEF u
  <1>4. PICK m \in S : u = l - m
    BY <1>3
  <1>5. \A n \in S : m >= n
    <2> SUFFICES ASSUME NEW n \in S PROVE m >= n
      OBVIOUS
    <2>1. l - n \in U
      OBVIOUS
    <2>2. l - m <= l - n
      BY <1>3, <1>4, <2>1
    <2>3. n \in Nat /\ m \in Nat
      OBVIOUS
    <2> QED  BY <2>2, <2>3
  <1>6. Max(S) \in S /\ \A n \in S : Max(S) >= n
    <2> HIDE DEF S
    <2> QED  BY <1>5 DEF Max
  <1> DEFINE x == Max(S)
  <1>7. x = Reach(l, r)
    BY DEF Reach
  <1>8. x \in 0 .. l /\ (\A k \in 1 .. x : k \in r)
           /\ \A n \in S : n <= x
    <2> HIDE DEF x
    <2>1. x \in S /\ \A n \in S : x >= n
      BY <1>6 DEF x
    <2> QED  BY <2>1
  <1> HIDE DEF x
  <1> QED  BY <1>7, <1>8

(* More packets reach no less far; a longer stream no farther, before more *)
(* is received.                                                            *)
LEMMA ReachGrows ==
    ASSUME NEW l \in Nat, NEW m \in Nat, l <= m, NEW r, NEW q, r \subseteq q
    PROVE  /\ Reach(l, r) <= Reach(m, q)
           /\ q \subseteq 1 .. l => Reach(m, q) <= l
           /\ q \subseteq 1 .. l /\ q = r => Reach(m, q) = Reach(l, r)
  <1> DEFINE x == Reach(l, r)
             y == Reach(m, q)
  <1>1. x \in 0 .. l /\ \A k \in 1 .. x : k \in r
    BY ReachIs
  <1>2. /\ y \in 0 .. m /\ \A k \in 1 .. y : k \in q
        /\ \A n \in 0 .. m : (\A k \in 1 .. n : k \in q) => n <= y
    BY ReachIs
  <1>3. \A n \in 0 .. l : (\A k \in 1 .. n : k \in r) => n <= x
    BY ReachIs
  <1> HIDE DEF x, y
  <1>4. x <= y
    <2>1. x \in 0 .. m /\ \A k \in 1 .. x : k \in q
      BY <1>1
    <2> QED  BY <1>2, <2>1
  <1>5. ASSUME q \subseteq 1 .. l
        PROVE  y <= l
    <2>1. CASE y = 0
      BY <2>1
    <2>2. CASE y # 0
      <3>1. y \in 1 .. y
        BY <1>2, <2>2
      <3>2. y \in 1 .. l
        BY <1>2, <1>5, <3>1
      <3> QED  BY <3>2
    <2> QED  BY <2>1, <2>2
  <1>6. ASSUME q \subseteq 1 .. l, q = r
        PROVE  y = x
    <2>1. y \in 0 .. l
      BY <1>2, <1>5, <1>6
    <2>2. y <= x
      BY <1>2, <1>3, <1>6, <2>1
    <2> QED  BY <1>1, <1>4, <2>1, <2>2
  <1> QED  BY <1>4, <1>5, <1>6 DEF x, y
-------------------------------------------------------------------------------
(* The inductive invariant.                                                *)
BulkInv ==
    /\ flow \in Flows /\ SenderInv(snd) /\ stopped \in BOOLEAN
    /\ snd.acked <= snd.next
    /\ LinkFits(link, snd.accepted)
    /\ received \subseteq 1 .. Len(snd.accepted)
    /\ snd.acked <= Reach(Len(snd.accepted), received)
    /\ losses \in 0 .. MaxLosses

(* What a step does, apart from keeping it: the link serves short packets  *)
(* first, the stream grows unless closed, and what is received of it, too. *)
BulkStep ==
    /\ flow' = flow
    /\ ShortFirst(link, link', snd'.accepted)
    /\ Grows(snd.accepted, snd'.accepted)
    /\ snd.closed => snd'.closed /\ snd'.accepted = snd.accepted
    /\ LET x == Reach(Len(snd.accepted), received)
           y == Reach(Len(snd'.accepted), received') IN
       y \in x .. Len(snd.accepted)

(* The names of the invariant, of the module.                              *)
LEMMA NamesAre ==
    /\ Prefix = Reach(Len(snd.accepted), received)
    /\ Held = HeldIn(link) /\ Chosen = ChosenIn(link)
    /\ \A p : Short(p) <=> ShortIn(p, snd.accepted)
    /\ Packet = Sent(snd.accepted)
  BY DEF Prefix, Reach, Held, HeldIn, Chosen, ChosenIn, Short, ShortIn, Packet,
         Sent, Thresh

(* Initially there is nothing.                                             *)
LEMMA BulkInit ==
    ASSUME Init
    PROVE  BulkInv
  <1>1. /\ snd.accepted = <<>> /\ snd.totBytes = 0 /\ snd.unsent = NoPiece
        /\ snd.seq = 0 /\ snd.acked = 0 /\ snd.next = 0 /\ ~snd.aborted
        /\ ~snd.connected /\ ~snd.closed /\ ~snd.closeOnEmpty
        /\ snd.state = "none"
    BY DEF Init
  <1>2. <<>> \in Seq(Pieces) /\ Len(<<>>) = 0 /\ DOMAIN <<>> = {}
    BY EmptySeq
  <1>3. flow \in Flows
    BY DEF Init
  <1>4. snd \in Sender
    <2>1. <<>> \in Seq([seq : Number, from : Nat, len : Nat, left : Nat])
      BY EmptySeq
    <2> QED  BY <2>1 DEF Init, Sender
  <1>5. Streaming(snd)
    <2>1. EndOf(<<>>, 0) = 0
      BY DEF EndOf
    <2>2. 0 \in Nat /\ 0 = 0 * SendSize
      BY <1>3, FlowIs
    <2>3. Fresh(snd)
      BY <1>1, <2>2 DEF Fresh
    <2> QED  BY <1>1, <1>2, <1>3, <2>1, <2>3, FlowIs
             DEF Streaming, Joined, Packed
  <1>6. Buffered(snd)
    <2>1. EndOf(<<>>, 0) = 0
      BY DEF EndOf
    <2> QED  BY <1>1, <1>2, <1>3, <2>1, FlowIs DEF Buffered
  <1>7. Connected(snd)
    BY <1>1 DEF Connected
  <1>8. LinkFits(link, <<>>)
    <2> DEFINE P == Of(<<>>)
    <2>1. CASE flow.link = "prio"
      <3>1. link = Prio!New
        BY <2>1 DEF Init
      <3>2. /\ link.queues = [c \in Prio!Class |-> <<>>]
            /\ link.machine = "READY" /\ link.current = NoPacket
        BY <3>1 DEF Prio!New
      <3>3. link \in Prio!State(Both(P))
        BY <3>1 DEF Prio!New, Prio!State
      <3>4. Sorted(link.queues, P) /\ link.queues[0] = <<>> /\ link.queues[1] = <<>>
        BY <3>2 DEF Sorted, Prio!Class
      <3> QED  BY <2>1, <3>2, <3>3, <3>4 DEF LinkFits, PrioInv
    <2>2. CASE flow.link # "prio"
      <3>1. link = Disc!New
        BY <2>2 DEF Init
      <3>2. /\ link.bands = [c \in Disc!Band |-> <<>>] /\ link.queue = <<>>
            /\ link.stopped = FALSE /\ link.wakes = 0
            /\ link.machine = "READY" /\ link.current = NoPacket
        BY <3>1 DEF Disc!New
      <3>3. link \in Disc!State(Both(P))
        BY <3>1 DEF Disc!New, Disc!State
      <3>4. Sorted(link.bands, P) /\ link.bands[0] = <<>> /\ link.bands[1] = <<>>
        BY <3>2 DEF Sorted, Disc!Band
      <3> QED  BY <2>2, <3>2, <3>3, <3>4 DEF LinkFits, DiscInv, DiscHalf, Drained, WakeDue
    <2> QED  BY <2>1, <2>2
  <1>9. received = {} /\ losses = 0 /\ stopped = FALSE /\ MaxLosses \in Nat
    BY FlowAssumption DEF Init
  <1>10. 0 <= Reach(0, {})
    BY ReachIs
  <1>11. SenderInv(snd) /\ LinkFits(link, snd.accepted)
    BY <1>1, <1>4, <1>5, <1>6, <1>7, <1>8 DEF SenderInv
  <1>12. received \subseteq 1 .. Len(snd.accepted)
    BY <1>9
  <1>13. snd.acked <= Reach(Len(snd.accepted), received)
    BY <1>1, <1>2, <1>9, <1>10
  <1>14. losses \in 0 .. MaxLosses /\ stopped \in BOOLEAN
    <2>1. 0 \in 0 .. MaxLosses
      BY <1>9
    <2>2. FALSE \in BOOLEAN
      OBVIOUS
    <2> QED  BY <1>9, <2>1, <2>2
  <1>15. snd.acked <= snd.next
    BY <1>1
  <1> QED  BY <1>3, <1>11, <1>12, <1>13, <1>14, <1>15 DEF BulkInv
-------------------------------------------------------------------------------
(* The invariant in the next state, in terms of this one's flow.           *)
LEMMA NextInv ==
    ASSUME flow' = flow, flow \in Flows,
           SenderInv(snd'), snd'.acked <= snd'.next, stopped' \in BOOLEAN,
           LinkFits(link', snd'.accepted),
           received' \subseteq 1 .. Len(snd'.accepted),
           snd'.acked <= Reach(Len(snd'.accepted), received'),
           losses' \in 0 .. MaxLosses
    PROVE  BulkInv'
  <1>1. SenderInv(snd)'
    BY DEF SenderInv, Streaming, Buffered, Connected, Fresh, Begun, More
  <1>2. LinkFits(link, snd.accepted)'
    BY DEF LinkFits, Of, Thresh
  <1>3. (snd.acked <= Reach(Len(snd.accepted), received))'
    BY DEF Reach
  <1> QED  BY <1>1, <1>2, <1>3 DEF BulkInv

(* A step of the sender alone.                                             *)
LEMMA SenderSteps ==
    ASSUME BulkInv, UNCHANGED <<flow, link, received, losses>>,
           stopped' \in BOOLEAN,
           SenderInv(snd'), snd'.acked <= snd'.next,
           Grows(snd.accepted, snd'.accepted),
           snd.closed => snd'.closed /\ snd'.accepted = snd.accepted,
           snd'.acked <= Reach(Len(snd.accepted), received)
    PROVE  BulkInv' /\ BulkStep
  <1> DEFINE a == snd.accepted
             b == snd'.accepted
  <1>1. /\ flow \in Flows /\ LinkFits(link, a) /\ received \subseteq 1 .. Len(a)
        /\ losses \in 0 .. MaxLosses /\ SenderInv(snd)
    BY DEF BulkInv
  <1>2. a \in Seq(Pieces) /\ b \in Seq(Pieces) /\ Len(a) \in Nat /\ Len(b) \in Nat
    BY <1>1, SenderIs DEF SenderInv
  <1>3. Len(a) <= Len(b) /\ Grows(a, b)
    BY DEF Grows
  <1> HIDE DEF a, b
  <1>4. Reach(Len(b), received) = Reach(Len(a), received)
    BY <1>1, <1>2, <1>3, ReachGrows
  <1>5. Reach(Len(a), received) \in 0 .. Len(a)
    BY <1>2, ReachIs
  <1>6. LinkFits(link, b)
    BY <1>1, <1>2, <1>3, LinkGrows
  <1>7. received \subseteq 1 .. Len(b)
    BY <1>1, <1>2, <1>3
  <1>8. BulkInv'
    <2>1. snd'.acked <= Reach(Len(b), received)
      BY <1>4 DEF a
    <2> QED  BY <1>1, <1>6, <1>7, <2>1, NextInv DEF b
  <1>9. ShortFirst(link, link', b)
    BY DEF ShortFirst
  <1>10. Reach(Len(b), received') \in Reach(Len(a), received) .. Len(a)
    BY <1>4, <1>5
  <1> QED  BY <1>8, <1>9, <1>10 DEF BulkStep, a, b

(* StartApplication.                                                       *)
LEMMA Starts ==
    ASSUME BulkInv, StartApplication
    PROVE  BulkInv' /\ BulkStep
  <1>1. /\ flow \in Flows /\ SenderInv(snd) /\ snd \in Sender
        /\ snd.accepted = <<>> /\ ~snd.closed /\ ~snd.connected
        /\ stopped \in BOOLEAN
    BY DEF BulkInv, SenderInv, Connected, StartApplication
  <1> DEFINE t == [snd EXCEPT !.state = "SYN_SENT"]
  <1>2. /\ t \in Sender /\ t.state = "SYN_SENT" /\ t.accepted = snd.accepted
        /\ t.totBytes = snd.totBytes /\ t.unsent = snd.unsent /\ t.seq = snd.seq
        /\ t.aborted = snd.aborted /\ t.connected = snd.connected
        /\ t.acked = snd.acked /\ t.next = snd.next /\ t.closed = snd.closed
        /\ t.closeOnEmpty = snd.closeOnEmpty
    BY <1>1 DEF Sender
  <1>3. snd' = t
    BY DEF StartApplication
  <1> HIDE DEF t
  <1>4. SenderInv(t)
    BY <1>1, <1>2
       DEF SenderInv, Streaming, Buffered, Connected, Fresh, Begun, More
  <1>5. Grows(snd.accepted, t.accepted)
    BY <1>1, <1>2, Stays DEF Goes
  <1>6. t.acked <= t.next /\ t.acked <= Reach(Len(snd.accepted), received)
    BY <1>2 DEF BulkInv
  <1> QED  BY <1>1, <1>2, <1>3, <1>4, <1>5, <1>6, SenderSteps DEF StartApplication

(* StopApplication.                                                        *)
LEMMA Stops ==
    ASSUME BulkInv, StopApplication
    PROVE  BulkInv' /\ BulkStep
  <1>1. SenderInv(snd) /\ stopped' \in BOOLEAN
           /\ snd.acked <= snd.next
           /\ snd.acked <= Reach(Len(snd.accepted), received)
    BY DEF BulkInv, StopApplication
  <1>2. Goes(snd, snd')
    <2>1. CASE snd.state = "none"
      BY <1>1, <2>1, Stays DEF StopApplication
    <2>2. CASE snd.state # "none"
      BY <1>1, <2>2, Closes DEF StopApplication
    <2> QED  BY <2>1, <2>2
  <1> QED  BY <1>1, <1>2, SenderSteps DEF Goes, StopApplication

(* ConnectionSucceeded: SendData, and the notification of space.           *)
LEMMA Succeeds ==
    ASSUME BulkInv, ConnectionSucceeded
    PROVE  BulkInv' /\ BulkStep
  <1> DEFINE t == [snd EXCEPT !.state = "ESTABLISHED", !.connected = TRUE]
             u == SendData(t)
             v == NotifySend(u)
  <1>1. /\ flow \in Flows /\ SenderInv(snd) /\ snd \in Sender
        /\ snd.accepted = <<>> /\ ~snd.closed
        /\ stopped \in BOOLEAN
        /\ snd.acked <= snd.next
           /\ snd.acked <= Reach(Len(snd.accepted), received)
    BY DEF BulkInv, SenderInv, Connected, ConnectionSucceeded
  <1>2. /\ t \in Sender /\ t.state = "ESTABLISHED" /\ t.accepted = snd.accepted
        /\ t.totBytes = snd.totBytes /\ t.unsent = snd.unsent /\ t.seq = snd.seq
        /\ t.aborted = snd.aborted /\ t.connected
        /\ t.acked = snd.acked /\ t.next = snd.next /\ t.closed = snd.closed
        /\ t.closeOnEmpty = snd.closeOnEmpty
    BY <1>1 DEF Sender
  <1>3. snd' = v
    BY DEF ConnectionSucceeded
  <1> HIDE DEF t
  <1>4. SenderInv(t)
    BY <1>1, <1>2
       DEF SenderInv, Streaming, Buffered, Connected, Fresh, Begun, More
  <1>5. Goes(t, u)
    BY <1>1, <1>2, <1>4, SendsData
  <1> HIDE DEF u
  <1>6. SenderInv(u)
    BY <1>5 DEF Goes
  <1>7. Goes(u, v)
    BY <1>1, <1>6, DataSends
  <1> HIDE DEF v
  <1>8. Goes(t, v)
    BY <1>4, <1>5, <1>7, GoesOn
  <1>9. /\ SenderInv(v) /\ Grows(snd.accepted, v.accepted)
        /\ v.acked <= v.next
        /\ v.acked <= Reach(Len(snd.accepted), received)
    BY <1>1, <1>2, <1>8 DEF Goes
  <1> QED  BY <1>1, <1>3, <1>9, SenderSteps DEF ConnectionSucceeded

(* ConnectionFailed.                                                       *)
LEMMA Fails ==
    ASSUME BulkInv, ConnectionFailed
    PROVE  BulkInv' /\ BulkStep
  <1>1. /\ flow \in Flows /\ SenderInv(snd) /\ snd \in Sender
        /\ snd.accepted = <<>> /\ ~snd.closed /\ ~snd.connected
        /\ stopped \in BOOLEAN
    BY DEF BulkInv, SenderInv, Connected, ConnectionFailed
  <1> DEFINE t == [snd EXCEPT !.state = "CLOSED"]
  <1>2. /\ t \in Sender /\ t.state = "CLOSED" /\ t.accepted = snd.accepted
        /\ t.totBytes = snd.totBytes /\ t.unsent = snd.unsent /\ t.seq = snd.seq
        /\ t.aborted = snd.aborted /\ t.connected = snd.connected
        /\ t.acked = snd.acked /\ t.next = snd.next /\ t.closed = snd.closed
        /\ t.closeOnEmpty = snd.closeOnEmpty
    BY <1>1 DEF Sender
  <1>3. snd' = t
    BY DEF ConnectionFailed
  <1> HIDE DEF t
  <1>4. SenderInv(t)
    BY <1>1, <1>2
       DEF SenderInv, Streaming, Buffered, Connected, Fresh, Begun, More
  <1>5. Grows(snd.accepted, t.accepted)
    BY <1>1, <1>2, Stays DEF Goes
  <1>6. t.acked <= t.next /\ t.acked <= Reach(Len(snd.accepted), received)
    BY <1>2 DEF BulkInv
  <1> QED  BY <1>1, <1>2, <1>3, <1>4, <1>5, <1>6, SenderSteps DEF ConnectionFailed

(* NewAck: what is acknowledged leaves the buffer, and the application may *)
(* write more.                                                             *)
LEMMA Acks ==
    ASSUME BulkInv, NewAck
    PROVE  BulkInv' /\ BulkStep
  <1> DEFINE a == snd.accepted
             R == Reach(Len(a), received)
  <1>1. /\ flow \in Flows /\ SenderInv(snd) /\ snd \in Sender
        /\ snd.acked \in Nat /\ snd.next \in Nat /\ a \in Seq(Pieces)
        /\ Len(a) \in Nat /\ Streaming(snd) /\ Buffered(snd) /\ Connected(snd)
        /\ snd.totBytes \in Nat /\ stopped \in BOOLEAN
    BY SenderIs DEF BulkInv, SenderInv
  <1>2. R \in 0 .. Len(a)
    BY <1>1, ReachIs
  <1> HIDE DEF R
  <1>3. Prefix = R
    BY NamesAre DEF R
  <1>4. PICK n \in snd.acked + 1 .. R :
           LET s == NotifySend([snd EXCEPT !.acked = n]) IN
           /\ snd' = [s EXCEPT !.next = IF n > s.next THEN n ELSE s.next]
           /\ UNCHANGED <<flow, stopped, link, received, losses>>
    BY <1>3 DEF NewAck
  <1>5. n \in 1 .. Len(a) /\ n \in Nat /\ snd.acked < n /\ n <= R /\ n <= Len(a)
    BY <1>1, <1>2
  <1> DEFINE r == [snd EXCEPT !.acked = n]
             s == NotifySend(r)
             m == IF n > s.next THEN n ELSE s.next
             v == [s EXCEPT !.next = m]
  <1>6. /\ r \in Sender /\ r.accepted = a /\ r.totBytes = snd.totBytes
        /\ r.unsent = snd.unsent
        /\ r.seq = snd.seq /\ r.aborted = snd.aborted /\ r.state = snd.state
        /\ r.connected = snd.connected /\ r.acked = n /\ r.next = snd.next
        /\ r.closed = snd.closed /\ r.closeOnEmpty = snd.closeOnEmpty
    BY <1>1, <1>5 DEF Sender
  <1>7. snd' = v
    BY <1>4
  <1> HIDE DEF r
  <1>8. SenderInv(r)
    <2>1. Streaming(r) /\ Connected(r)
      BY <1>1, <1>6 DEF Streaming, Fresh, Begun, More, Connected
    <2> DEFINE x == EndOf(a, snd.acked)
               y == EndOf(a, n)
    <2>2. x \in Nat /\ y \in Nat /\ x <= y
      <3>1. /\ snd.acked \in 0 .. Len(a) /\ n \in snd.acked .. Len(a)
            /\ n \in 0 .. Len(a) /\ n \in n .. Len(a)
            /\ snd.acked \in snd.acked .. Len(a)
        BY <1>1, <1>5
      <3>2. Joined(a)
        BY <1>1 DEF Streaming
      <3> QED  BY <1>1, <3>1, <3>2, EndsGrow
    <2>3. /\ snd.totBytes - x <= flow.room /\ snd.next <= Len(a)
          /\ flow.room \in Nat
      BY <1>1, FlowIs DEF Buffered
    <2> HIDE DEF x
    <2>4. r.totBytes - EndOf(r.accepted, r.acked) <= flow.room
      <3>1. r.totBytes = snd.totBytes /\ EndOf(r.accepted, r.acked) = y
        BY <1>6
      <3> HIDE DEF y
      <3> QED  BY <1>1, <2>2, <2>3, <3>1
    <2>5. r.acked <= Len(r.accepted) /\ r.next <= Len(r.accepted)
      BY <1>5, <1>6, <2>3
    <2> QED  BY <1>6, <2>1, <2>4, <2>5 DEF SenderInv, Buffered
  <1>9. Goes(r, s)
    BY <1>1, <1>8, DataSends
  <1> HIDE DEF s
  <1>10. /\ SenderInv(s) /\ s \in Sender /\ Grows(a, s.accepted)
         /\ s.acked = n /\ s.next = snd.next
         /\ snd.closed => s.closed /\ s.accepted = a
         /\ Len(s.accepted) \in Nat /\ Len(a) <= Len(s.accepted)
    BY <1>6, <1>9, SenderIs DEF Goes, SenderInv, Grows
  <1>11. m \in Nat /\ n <= m /\ m <= Len(s.accepted)
    <2>1. s.next <= Len(s.accepted)
      BY <1>10 DEF SenderInv, Buffered
    <2> QED  BY <1>1, <1>5, <1>10, <2>1
  <1> HIDE DEF m
  <1>12. /\ v \in Sender /\ v.accepted = s.accepted /\ v.totBytes = s.totBytes
         /\ v.unsent = s.unsent /\ v.seq = s.seq /\ v.aborted = s.aborted
         /\ v.state = s.state /\ v.connected = s.connected /\ v.acked = s.acked
         /\ v.next = m /\ v.closed = s.closed
         /\ v.closeOnEmpty = s.closeOnEmpty
    BY <1>10, <1>11 DEF Sender
  <1> HIDE DEF v
  <1>13. SenderInv(v)
    BY <1>10, <1>11, <1>12
       DEF SenderInv, Streaming, Buffered, Connected, Fresh, Begun, More
  <1>14. /\ Grows(a, v.accepted) /\ v.acked <= v.next /\ v.acked <= R
         /\ snd.closed => v.closed /\ v.accepted = a
    BY <1>5, <1>10, <1>11, <1>12
  <1> QED  BY <1>1, <1>4, <1>7, <1>13, <1>14, SenderSteps DEF R
(* SendPendingData, of the socket s: the one there is, or the one that     *)
(* starts again at what is acknowledged.                                   *)
LEMMA Pending ==
    ASSUME BulkInv, NEW s,
           s = snd \/ s = [snd EXCEPT !.next = snd.acked],
           SendPendingData(s)
    PROVE  BulkInv' /\ BulkStep
  <1> DEFINE a == snd.accepted
             R == Reach(Len(a), received)
  <1>1. /\ flow \in Flows /\ SenderInv(snd) /\ snd \in Sender
        /\ snd.acked \in Nat /\ snd.next \in Nat /\ a \in Seq(Pieces)
        /\ Len(a) \in Nat /\ stopped \in BOOLEAN /\ losses \in 0 .. MaxLosses
        /\ snd.acked <= snd.next /\ snd.acked <= R
        /\ received \subseteq 1 .. Len(a) /\ LinkFits(link, a)
    BY SenderIs DEF BulkInv, SenderInv
  <1>2. R \in 0 .. Len(a)
    BY <1>1, ReachIs
  <1> HIDE DEF R
  <1>3. /\ SenderInv(s) /\ s \in Sender /\ s.accepted = a
        /\ s.acked = snd.acked /\ s.acked <= s.next
        /\ s.next \in Nat /\ s.next < Len(a)
        /\ s.closed = snd.closed
    <2>1. s.next < Len(s.accepted)
      BY DEF SendPendingData
    <2>2. CASE s = snd
      BY <1>1, <2>1, <2>2
    <2>3. CASE s = [snd EXCEPT !.next = snd.acked]
      <3>1. /\ s \in Sender /\ s.accepted = a /\ s.totBytes = snd.totBytes
            /\ s.unsent = snd.unsent
            /\ s.seq = snd.seq /\ s.aborted = snd.aborted /\ s.state = snd.state
            /\ s.connected = snd.connected /\ s.acked = snd.acked
            /\ s.next = snd.acked
            /\ s.closed = snd.closed /\ s.closeOnEmpty = snd.closeOnEmpty
        BY <1>1, <2>3 DEF Sender
      <3>2. SenderInv(s)
        BY <1>1, <3>1
           DEF SenderInv, Streaming, Buffered, Connected, Fresh, Begun, More
      <3> QED  BY <1>1, <2>1, <3>1, <3>2
    <2> QED  BY <2>2, <2>3
  <1>4. PICK t \in {s, DataSend(s)} :
           LET k == t.next + 1
               fin == t.closeOnEmpty /\ k = Len(t.accepted) IN
           /\ snd' = [t EXCEPT !.next = k,
                               !.state = IF fin THEN "FIN_WAIT_1" ELSE t.state]
           /\ link' = LinkSend([idx |-> k, left |-> t.accepted[k].left])
    BY DEF SendPendingData
  <1>5. Goes(s, t)
    BY <1>1, <1>3, DataSends, Stays
  <1> DEFINE b == t.accepted
             k == t.next + 1
             fin == t.closeOnEmpty /\ k = Len(b)
             x == IF fin THEN "FIN_WAIT_1" ELSE t.state
             v == [t EXCEPT !.next = k, !.state = x]
  <1>6. /\ SenderInv(t) /\ t \in Sender /\ Grows(a, b) /\ b \in Seq(Pieces)
        /\ t.acked = snd.acked /\ t.next = s.next
        /\ snd.closed => t.closed /\ b = a
        /\ Len(b) \in Nat /\ Len(a) <= Len(b)
        /\ t.closeOnEmpty \in BOOLEAN
    BY <1>3, <1>5, SenderIs DEF Goes, SenderInv, Grows
  <1>7. k \in 1 .. Len(b) /\ k \in Nat /\ t.acked <= k /\ k <= Len(b)
    BY <1>1, <1>3, <1>6
  <1>8. snd' = v
    BY <1>4
  <1>9. link' = LinkSend([idx |-> k, left |-> b[k].left])
    BY <1>4
  <1>10. /\ x \in {"none", "SYN_SENT", "ESTABLISHED", "FIN_WAIT_1", "CLOSED"}
         /\ x # t.state => t.closeOnEmpty /\ x = "FIN_WAIT_1"
    BY <1>6 DEF Sender
  <1> HIDE DEF x, k
  <1>11. /\ v \in Sender /\ v.accepted = b /\ v.totBytes = t.totBytes
         /\ v.unsent = t.unsent /\ v.seq = t.seq /\ v.aborted = t.aborted
         /\ v.state = x /\ v.connected = t.connected /\ v.acked = t.acked
         /\ v.next = k /\ v.closed = t.closed
         /\ v.closeOnEmpty = t.closeOnEmpty
    BY <1>6, <1>7, <1>10 DEF Sender
  <1> HIDE DEF v
  <1>12. SenderInv(v)
    <2>1. Connected(v)
      BY <1>6, <1>10, <1>11 DEF SenderInv, Connected
    <2>2. Streaming(v) /\ Buffered(v)
      BY <1>6, <1>7, <1>11 DEF SenderInv, Streaming, Buffered, Fresh, Begun, More
    <2> QED  BY <1>11, <2>1, <2>2 DEF SenderInv
  <1>13. LinkFits(link, b)
    BY <1>1, <1>6, LinkGrows
  <1>14. LinkFits(link', b) /\ ShortFirst(link, link', b)
    <2>1. Packed(b)
      BY <1>6 DEF SenderInv, Streaming
    <2> QED  BY <1>1, <1>6, <1>7, <1>9, <1>13, <2>1, LinkTakes
  <1>15. Reach(Len(b), received) = R
    BY <1>1, <1>6, ReachGrows DEF R
  <1>16. /\ flow' = flow /\ stopped' = stopped /\ received' = received
         /\ losses' = losses
    BY DEF SendPendingData
  <1>17. received \subseteq 1 .. Len(b)
    BY <1>1, <1>6
  <1>18. BulkInv'
    <2>1. v.acked <= Reach(Len(b), received) /\ v.acked <= v.next
      BY <1>1, <1>6, <1>7, <1>11, <1>15
    <2> HIDE DEF b
    <2> QED  BY <1>1, <1>8, <1>11, <1>12, <1>14, <1>16, <1>17, <2>1, NextInv
  <1>19. Reach(Len(b), received') \in R .. Len(a)
    BY <1>1, <1>2, <1>15, <1>16
  <1>20. /\ snd'.accepted = b /\ snd'.closed = t.closed
    BY <1>8, <1>11
  <1> QED  BY <1>6, <1>14, <1>16, <1>18, <1>19, <1>20 DEF BulkStep, R

(* The steps that send: the next piece, or the first not acknowledged.     *)
LEMMA Sends ==
    ASSUME BulkInv, Transmit \/ ReTxTimeout
    PROVE  BulkInv' /\ BulkStep
  BY Pending DEF Transmit, ReTxTimeout

(* What the link carries is a packet of the stream.                        *)
LEMMA LinkCarries ==
    ASSUME flow \in Flows, NEW a \in Seq(Pieces), NEW d, LinkFits(d, a)
    PROVE  /\ d.machine = "BUSY" => d.current \in Sent(a)
           /\ d.current \in Sent(a) \cup {NoPacket}
  <1> DEFINE P == Of(a)
  <1>1. Both(P) \subseteq Sent(a)
    BY ClassesAre
  <1> HIDE DEF P
  <1>2. CASE flow.link = "prio"
    <2>1. PrioInv(d, P)
      BY <1>2 DEF LinkFits, P
    <2> QED  BY <1>1, <2>1 DEF PrioInv, Prio!State
  <1>3. CASE flow.link # "prio"
    <2>1. DiscInv(d, P)
      BY <1>3 DEF LinkFits, P
    <2> QED  BY <1>1, <2>1 DEF DiscInv, DiscHalf, Disc!State
  <1> QED  BY <1>2, <1>3

(* A step of the link alone.                                               *)
LEMMA LinkSteps ==
    ASSUME BulkInv, UNCHANGED <<flow, snd, stopped>>,
           LinkFits(link', snd.accepted), ShortFirst(link, link', snd.accepted),
           received \subseteq received', received' \subseteq 1 .. Len(snd.accepted),
           losses' \in 0 .. MaxLosses
    PROVE  BulkInv' /\ BulkStep
  <1> DEFINE a == snd.accepted
             x == Reach(Len(a), received)
             y == Reach(Len(a), received')
  <1>1. /\ flow \in Flows /\ SenderInv(snd) /\ snd.acked \in Nat
        /\ Len(a) \in Nat /\ stopped \in BOOLEAN
        /\ snd.acked <= snd.next /\ snd.acked <= x
    BY SenderIs DEF BulkInv, SenderInv
  <1>2. x \in 0 .. Len(a) /\ y \in 0 .. Len(a) /\ x <= y
    <2>1. Len(a) <= Len(a)
      BY <1>1
    <2> QED  BY <1>1, <2>1, ReachIs, ReachGrows
  <1> HIDE DEF x, y
  <1>3. snd' = snd /\ flow' = flow /\ stopped' = stopped
    OBVIOUS
  <1>4. BulkInv'
    <2>1. snd.acked <= y
      BY <1>1, <1>2
    <2> QED  BY <1>1, <1>3, <2>1, NextInv DEF y
  <1>5. Grows(a, a)
    BY <1>1 DEF Grows
  <1>6. y \in x .. Len(a)
    BY <1>2
  <1> QED  BY <1>3, <1>4, <1>5, <1>6 DEF BulkStep, x, y

(* TransmitComplete: the packet is received or lost, and the next begins.  *)
LEMMA Completes ==
    ASSUME BulkInv, TransmitComplete
    PROVE  BulkInv' /\ BulkStep
  <1> DEFINE a == snd.accepted
  <1>1. /\ flow \in Flows /\ a \in Seq(Pieces) /\ LinkFits(link, a)
        /\ received \subseteq 1 .. Len(a) /\ losses \in 0 .. MaxLosses
    BY SenderIs DEF BulkInv, SenderInv
  <1>2. link.current.idx \in 1 .. Len(a)
    <2>1. link.current \in Sent(a)
      BY <1>1, LinkCarries DEF TransmitComplete
    <2> QED  BY <2>1 DEF Sent
  <1>3. /\ received \subseteq received' /\ received' \subseteq 1 .. Len(a)
        /\ losses' \in 0 .. MaxLosses
    <2>1. CASE received' = received \cup {link.current.idx} /\ losses' = losses
      BY <1>1, <1>2, <2>1
    <2>2. CASE losses < MaxLosses /\ losses' = losses + 1 /\ received' = received
      BY <1>1, <2>2, FlowAssumption
    <2> QED  BY <2>1, <2>2 DEF TransmitComplete
  <1>4. LinkFits(link', a) /\ ShortFirst(link, link', a)
    <2> DEFINE P == Of(a)
    <2>1. CASE flow.link = "prio"
      <3> DEFINE e == Prio!TransmitComplete(link)
      <3>1. PrioInv(link, P)
        BY <1>1, <2>1 DEF LinkFits
      <3>2. /\ PrioInv(e, P)
            /\ \/ e.current = NoPacket
               \/ e.current \in P[0]
               \/ e.queues[0] = <<>>
        <4> HIDE DEF P
        <4> QED  BY <3>1, PrioCompletes
      <3>3. link' = e
        BY <2>1 DEF TransmitComplete
      <3> HIDE DEF e
      <3>4. ShortFirst(link, e, a)
        BY <1>1, <2>1, <3>2, PrioShortFirst
      <3> QED  BY <2>1, <3>2, <3>3, <3>4 DEF LinkFits
    <2>2. CASE flow.link # "prio"
      <3> DEFINE e == Disc!TransmitComplete(link)
      <3>1. DiscInv(link, P)
        BY <1>1, <2>2 DEF LinkFits
      <3>5. link.wakes = 0
        BY <1>1, <2>2, FlowAssumption DEF FlowType, TransmitComplete
      <3>2. DiscInv(e, P) /\ Down(e) \subseteq Down(link)
        <4> HIDE DEF P
        <4> QED  BY <3>1, <3>5, DiscCompletes
      <3>3. link' = e
        BY <2>2 DEF TransmitComplete
      <3> HIDE DEF e
      <3>4. ShortFirst(link, e, a)
        BY <1>1, <2>2, <3>2, DiscShortFirst
      <3> QED  BY <2>2, <3>2, <3>3, <3>4 DEF LinkFits
    <2> QED  BY <2>1, <2>2
  <1> QED  BY <1>3, <1>4, LinkSteps DEF TransmitComplete

(* Wake: the disc is run again.                                            *)
LEMMA Wakes ==
    ASSUME BulkInv, Wake
    PROVE  BulkInv' /\ BulkStep
  <1> DEFINE a == snd.accepted
             P == Of(a)
             e == Disc!Wake(link)
  <1>1. /\ flow \in Flows /\ a \in Seq(Pieces) /\ LinkFits(link, a)
        /\ received \subseteq 1 .. Len(a) /\ losses \in 0 .. MaxLosses
    BY SenderIs DEF BulkInv, SenderInv
  <1>2. /\ flow.link # "prio" /\ link.wakes > 0 /\ link' = e
        /\ UNCHANGED <<flow, snd, stopped, received, losses>>
    BY DEF Wake
  <1>3. DiscInv(link, P)
    BY <1>1, <1>2 DEF LinkFits
  <1>4. DiscInv(e, P) /\ (e.bands[0] = <<>> \/ Down(e) \subseteq Down(link) \cup P[0])
    <2> HIDE DEF P
    <2> QED  BY <1>2, <1>3, DiscWakes
  <1> HIDE DEF e
  <1>5. ShortFirst(link, e, a)
    BY <1>1, <1>2, <1>4, DiscShortFirst
  <1>6. LinkFits(e, a)
    BY <1>2, <1>4 DEF LinkFits
  <1> QED  BY <1>1, <1>2, <1>5, <1>6, LinkSteps

(* A stuttering step.                                                      *)
LEMMA Stutters ==
    ASSUME BulkInv, UNCHANGED vars
    PROVE  BulkInv' /\ BulkStep
  <1>1. /\ UNCHANGED <<flow, link, received, losses>> /\ snd' = snd
        /\ stopped' = stopped
    BY DEF vars
  <1>2. /\ SenderInv(snd) /\ stopped \in BOOLEAN /\ snd.acked <= snd.next
        /\ snd.acked <= Reach(Len(snd.accepted), received)
    BY DEF BulkInv
  <1>3. Grows(snd.accepted, snd.accepted)
    BY <1>2, Stays DEF Goes
  <1> QED  BY <1>1, <1>2, <1>3, SenderSteps

(* The invariant is inductive, and every step is one of the kind above.    *)
LEMMA BulkInductive ==
    ASSUME BulkInv, [Next]_vars
    PROVE  BulkInv' /\ BulkStep
  BY Starts, Stops, Succeeds, Fails, Sends, Acks, Completes, Wakes, Stutters
     DEF Next
-------------------------------------------------------------------------------
(* What waits for the link is in a queue or a band, what it has chosen is  *)
(* below; all are packets of the stream.                                   *)
LEMMA LinkHolds ==
    ASSUME flow \in Flows, NEW a \in Seq(Pieces), NEW d, LinkFits(d, a)
    PROVE  /\ HeldIn(d) \subseteq Sent(a)
           /\ flow.link # "prio" => Disc!InDevice(d) \subseteq Sent(a)
           /\ d.machine \in {"READY", "BUSY"}
           /\ d.machine = "READY" =>
                 \/ HeldIn(d) = {} /\ flow.link = "prio"
                 \/ HeldIn(d) = {} /\ Disc!InDevice(d) = {}
                 \/ flow.link # "prio" /\ d.wakes > 0 /\ Disc!InDevice(d) = {}
  <1> DEFINE P == Of(a)
  <1>1. Both(P) \subseteq Sent(a) /\ P[0] \subseteq Both(P) /\ P[1] \subseteq Both(P)
    BY ClassesAre DEF Both
  <1> HIDE DEF P
  <1>2. CASE flow.link = "prio"
    <2>1. PrioInv(d, P)
      BY <1>2 DEF LinkFits, P
    <2>2. HeldIn(d) = {d.queues[0][n] : n \in DOMAIN d.queues[0]}
                        \cup {d.queues[1][n] : n \in DOMAIN d.queues[1]}
      BY <1>2 DEF HeldIn, Prio!Waiting, Prio!Class
    <2>3. d.queues[0] \in Seq(P[0]) /\ d.queues[1] \in Seq(P[1])
      BY <2>1 DEF PrioInv, Sorted
    <2>4. HeldIn(d) \subseteq Sent(a)
      BY <1>1, <2>2, <2>3, ElementsAre
    <2>5. d.machine \in {"READY", "BUSY"}
      BY <2>1 DEF PrioInv, Prio!State
    <2>6. d.machine = "READY" => HeldIn(d) = {}
      BY <2>1, <2>2 DEF PrioInv
    <2> QED  BY <1>2, <2>4, <2>5, <2>6
  <1>3. CASE flow.link # "prio"
    <2>1. DiscInv(d, P)
      BY <1>3 DEF LinkFits, P
    <2>2. HeldIn(d) = {d.bands[0][n] : n \in DOMAIN d.bands[0]}
                        \cup {d.bands[1][n] : n \in DOMAIN d.bands[1]}
      BY <1>3 DEF HeldIn, Disc!InBands, Disc!Band
    <2>3. /\ d.bands[0] \in Seq(P[0]) /\ d.bands[1] \in Seq(P[1])
          /\ d.queue \in Seq(Both(P))
      BY <2>1 DEF DiscInv, DiscHalf, Sorted, Disc!State
    <2>4. HeldIn(d) \subseteq Sent(a) /\ Disc!InDevice(d) \subseteq Sent(a)
      BY <1>1, <2>2, <2>3, ElementsAre DEF Disc!InDevice
    <2>5. d.machine \in {"READY", "BUSY"}
      BY <2>1 DEF DiscInv, DiscHalf, Disc!State
    <2>6. d.machine = "READY" => Disc!InDevice(d) = {}
      BY <2>1 DEF DiscInv, DiscHalf, Disc!InDevice
    <2>7. d.machine = "READY" => HeldIn(d) = {}
      <3> SUFFICES ASSUME d.machine = "READY" PROVE HeldIn(d) = {}
        OBVIOUS
      <3>1. d.queue = <<>> /\ d.wakes = 0 /\ WakeDue(d)
        BY <2>1 DEF DiscInv, DiscHalf, WakeDue
      <3>2. Len(d.queue) + d.wakes = 0 /\ ~(0 >= DeviceQueue)
        BY <3>1, FlowAssumption
      <3>3. ~d.stopped
        BY <3>1, <3>2 DEF WakeDue
      <3> QED  BY <2>1, <2>2, <3>3 DEF DiscInv, Drained
    <2> QED  BY <1>3, <2>4, <2>5, <2>6, <2>7
  <1> QED  BY <1>2, <1>3

(* The invariant has the types of the module.                              *)
LEMMA BulkTypes ==
    ASSUME BulkInv
    PROVE  TypeOK
  <1> DEFINE a == snd.accepted
  <1>1. /\ flow \in Flows /\ SenderInv(snd) /\ snd \in Sender
        /\ Streaming(snd) /\ Buffered(snd) /\ Connected(snd)
        /\ snd.acked \in Nat /\ snd.next \in Nat /\ a \in Seq(Pieces)
        /\ Len(a) \in Nat /\ stopped \in BOOLEAN /\ losses \in 0 .. MaxLosses
        /\ snd.acked <= snd.next /\ received \subseteq 1 .. Len(a)
        /\ LinkFits(link, a) /\ snd.totBytes \in Nat
    BY SenderIs DEF BulkInv, SenderInv
  <1>2. snd.acked <= Prefix
    BY NamesAre DEF BulkInv
  <1>3. 0 <= Room(snd) /\ snd.totBytes = BytesOf(a)
    <2> DEFINE x == EndOf(a, snd.acked)
    <2>1. /\ Room(snd) = flow.room - (snd.totBytes - x) /\ x \in Nat
          /\ BytesOf(a) = snd.totBytes
      BY <1>1, RoomIs DEF Streaming, Buffered
    <2>2. snd.totBytes - x <= flow.room
      BY <1>1 DEF Buffered
    <2> HIDE DEF x
    <2> QED  BY <1>1, <2>1, <2>2, FlowIs
  <1>4. InLink \subseteq Packet
    <2>1. /\ HeldIn(link) \subseteq Sent(a)
          /\ flow.link # "prio" => Disc!InDevice(link) \subseteq Sent(a)
          /\ link.current \in Sent(a) \cup {NoPacket}
      BY <1>1, LinkHolds, LinkCarries
    <2>2. Packet = Sent(a)
      BY NamesAre
    <2>3. InLink \subseteq HeldIn(link) \cup ({link.current} \ {NoPacket})
             \cup (IF flow.link = "prio" THEN {} ELSE Disc!InDevice(link))
      BY DEF InLink, HeldIn
    <2> QED  BY <2>1, <2>2, <2>3
  <1>5. /\ snd.next <= Len(a) /\ ~snd.aborted
        /\ snd.connected => snd.state = "ESTABLISHED" /\ ~snd.closed
    BY <1>1 DEF Buffered, Connected
  <1> QED  BY <1>1, <1>2, <1>3, <1>4, <1>5 DEF TypeOK

(* Types and bounds: the three marks stay in order although a timeout      *)
(* takes one of them back, the application never writes more than there is *)
(* room for, and never ends the program.                                   *)
THEOREM TypeCorrect == Spec => []TypeOK
  BY BulkInit, BulkInductive, BulkTypes, PTL DEF Spec

(* No packet is left behind an idle transmitter: whoever finds the device  *)
(* queue stopped may rely on a wake-up, or on a packet that will bring one.*)
THEOREM NoStallCorrect == Spec => []NoStall
  <1>1. BulkInv => NoStall
    <2> SUFFICES ASSUME BulkInv PROVE NoStall
      OBVIOUS
    <2>1. flow \in Flows /\ snd.accepted \in Seq(Pieces) /\ LinkFits(link, snd.accepted)
      BY SenderIs DEF BulkInv, SenderInv
    <2>2. flow.link = "prio" \/ flow.link = "disc"
      BY <2>1, FlowIs
    <2>3. Held = HeldIn(link)
      BY NamesAre
    <2> QED  BY <2>1, <2>2, <2>3, LinkHolds DEF NoStall
  <1> QED  BY <1>1, BulkInit, BulkInductive, PTL DEF Spec

(* The end of a flow goes before its beginning, on either link, whichever  *)
(* step it is that lets a packet go.                                       *)
THEOREM ServesShortCorrect == Spec => ServesShort
  <1>1. BulkInv /\ [Next]_vars => BulkInv' /\
           [(\E p \in Chosen' \ Chosen : ~Short(p)') => \A p \in Held' : ~Short(p)']_vars
    <2> SUFFICES ASSUME BulkInv, [Next]_vars
                 PROVE  BulkInv' /\
                        ((\E p \in Chosen' \ Chosen : ~Short(p)')
                            => \A p \in Held' : ~Short(p)')
      OBVIOUS
    <2>1. /\ BulkInv' /\ flow' = flow
          /\ ShortFirst(link, link', snd'.accepted)
      BY BulkInductive DEF BulkStep
    <2>2. Chosen = ChosenIn(link) /\ Chosen' = ChosenIn(link') /\ Held' = HeldIn(link')
      BY <2>1 DEF Chosen, ChosenIn, Held, HeldIn
    <2>3. \A p : Short(p)' <=> ShortIn(p, snd'.accepted)
      BY <2>1 DEF Short, ShortIn, Thresh
    <2> QED  BY <2>1, <2>2, <2>3 DEF ShortFirst
  <1> QED  BY <1>1, BulkInit, PTL DEF Spec, ServesShort
-------------------------------------------------------------------------------
(* The stream of the abstract specification, of the pieces a.              *)
Written(a) ==
    [k \in DOMAIN a |-> [seq |-> a[k].seq, from |-> a[k].from, len |-> a[k].len]]

(* A quotient, by what it lies between.                                    *)
LEMMA QuotientIs ==
    ASSUME NEW n \in Nat \ {0}, NEW q \in Nat, NEW x \in Nat,
           q * n <= x, x < (q + 1) * n
    PROVE  x \div n = q
  OBVIOUS

(* It is a sequence of as many pieces, ...                                 *)
LEMMA WrittenIs ==
    ASSUME NEW a \in Seq(Pieces)
    PROVE  /\ Written(a) \in Seq([seq : Number, from : Nat, len : Nat])
           /\ Len(Written(a)) = Len(a) /\ DOMAIN Written(a) = 1 .. Len(a)
           /\ \A k \in 1 .. Len(a) :
                 /\ Written(a)[k].seq = a[k].seq
                 /\ Written(a)[k].from = a[k].from
                 /\ Written(a)[k].len = a[k].len
  <1> DEFINE W == Written(a)
             R == [seq : Number, from : Nat, len : Nat]
  <1>1. Len(a) \in Nat /\ DOMAIN a = 1 .. Len(a)
    BY PiecesAre
  <1>2. \A k \in 1 .. Len(a) :
           /\ W[k] = [seq |-> a[k].seq, from |-> a[k].from, len |-> a[k].len]
           /\ a[k].seq \in Number /\ a[k].from \in Nat /\ a[k].len \in Nat
    BY <1>1, PiecesAre DEF Written
  <1>3. W = [k \in 1 .. Len(a) |-> W[k]] /\ DOMAIN W = 1 .. Len(a)
    BY <1>1 DEF Written
  <1> HIDE DEF W
  <1>4. ASSUME NEW k \in 1 .. Len(a)
        PROVE  W[k] \in R
    <2> DEFINE e == a[k].seq
               f == a[k].from
               l == a[k].len
    <2>1. W[k] = [seq |-> e, from |-> f, len |-> l]
      BY <1>2
    <2>2. e \in Number /\ f \in Nat /\ l \in Nat
      BY <1>2
    <2> HIDE DEF e, f, l
    <2> QED  BY <2>1, <2>2
  <1>5. W \in [1 .. Len(a) -> R]
    BY <1>3, <1>4
  <1>6. W \in Seq(R)
    <2> HIDE DEF R
    <2> QED  BY <1>1, <1>5, SeqDef
  <1>7. Len(W) = Len(a)
    <2>1. Len(W) \in Nat /\ DOMAIN W = 1 .. Len(W)
      BY <1>6, LenProperties
    <2> DEFINE l == Len(W)
               m == Len(a)
    <2>2. 1 .. l = 1 .. m /\ l \in Nat /\ m \in Nat
      BY <1>1, <1>3, <2>1
    <2> HIDE DEF l, m
    <2>3. l = m
      BY <2>2
    <2> QED  BY <2>3 DEF l, m
  <1> QED  BY <1>2, <1>3, <1>6, <1>7 DEF W

(* ... and a stream: a piece of packet q lies between two multiples.       *)
LEMMA WrittenStreams ==
    ASSUME flow \in Flows, NEW a \in Seq(Pieces), Joined(a), Packed(a)
    PROVE  Stream!IsStream(Written(a))
  <1> DEFINE W == Written(a)
  <1>1. /\ DOMAIN W = 1 .. Len(a) /\ DOMAIN a = 1 .. Len(a) /\ Len(a) \in Nat
        /\ \A k \in 1 .. Len(a) :
              W[k].seq = a[k].seq /\ W[k].from = a[k].from /\ W[k].len = a[k].len
    BY WrittenIs, PiecesAre
  <1> HIDE DEF W
  <1> SUFFICES ASSUME NEW k \in 1 .. Len(a)
               PROVE  /\ W[k].len > 0
                      /\ W[k].from = IF k = 1 THEN 0
                                     ELSE W[k - 1].from + W[k - 1].len
                      /\ (W[k].from + W[k].len - 1) \div SendSize
                            = W[k].from \div SendSize
                      /\ W[k].seq \in {NoSeq, W[k].from \div SendSize}
    BY <1>1 DEF Stream!IsStream, W
  <1> DEFINE f == a[k].from
             l == a[k].len
  <1>2. f \in Nat /\ l \in Nat /\ l > 0
    BY <1>1, PiecesAre DEF Joined
  <1>3. f = IF k = 1 THEN 0 ELSE W[k - 1].from + W[k - 1].len
    <2>1. k # 1 => k - 1 \in 1 .. Len(a)
      BY <1>1
    <2> QED  BY <1>1, <2>1 DEF Joined, Follows
  <1>4. PICK q \in Nat : Within(q, f, l) /\ a[k].seq \in {NoSeq, q}
    BY <1>1 DEF Packed
  <1> HIDE DEF f, l
  <1>5. f \div SendSize = q /\ (f + l - 1) \div SendSize = q
    <2> DEFINE S == SendSize
               x == q * S
               y == (q + 1) * S
    <2>1. S \in Nat \ {0} /\ x \in Nat /\ y \in Nat
      BY FlowAssumption
    <2>2. x <= f /\ f + l <= y
      BY <1>4 DEF Within
    <2> HIDE DEF S, x, y
    <2>3. /\ f + l - 1 \in Nat /\ x <= f + l - 1
          /\ f + l - 1 < y /\ f < y
      BY <1>2, <2>1, <2>2
    <2> QED  BY <1>2, <2>1, <2>2, <2>3, QuotientIs DEF S, x, y
  <1>6. W[k].from = f /\ W[k].len = l /\ W[k].seq = a[k].seq
    BY <1>1 DEF f, l
  <1> QED  BY <1>2, <1>3, <1>4, <1>5, <1>6

(* The stream of the pieces grows with them.                               *)
LEMMA WrittenGrows ==
    ASSUME NEW a \in Seq(Pieces), NEW b \in Seq(Pieces), Grows(a, b)
    PROVE  Stream!Extends(Written(a), Written(b))
  <1> DEFINE V == Written(a)
             W == Written(b)
             R == [seq : Number, from : Nat, len : Nat]
             l == Len(a)
             m == Len(b)
             U == SubSeq(W, 1, l)
  <1>1. l \in Nat /\ m \in Nat /\ l <= m /\ \A k \in 1 .. l : b[k] = a[k]
    BY PiecesAre DEF Grows
  <1>2. /\ V \in Seq(R) /\ W \in Seq(R) /\ Len(V) = l /\ Len(W) = m
    BY WrittenIs
  <1>3. \A k \in 1 .. l : V[k] = W[k]
    BY <1>1, PiecesAre DEF Written
  <1> HIDE DEF V, W, R, l, m
  <1>4. /\ U \in Seq(R) /\ Len(U) = l /\ \A k \in 1 .. l : U[k] = W[k]
    <2>1. \A k \in 1 .. l : W[k] \in R
      <3>1. 1 .. l \subseteq 1 .. m
        BY <1>1
      <3> QED  BY <1>2, <3>1, ElementOfSeq
    <2>2. /\ U \in Seq(R) /\ Len(U) = (IF 1 <= l THEN l - 1 + 1 ELSE 0)
          /\ \A k \in 1 .. l - 1 + 1 : U[k] = W[1 + k - 1]
      BY <1>1, <2>1, SubSeqProperties
    <2> HIDE DEF U
    <2>3. \A k \in 1 .. l : 1 + k - 1 = k
      BY <1>1
    <2>4. l - 1 + 1 = l /\ (l = 0 \/ 1 <= l)
      BY <1>1
    <2> QED  BY <2>2, <2>3, <2>4
  <1> HIDE DEF U
  <1>5. U = V
    BY <1>2, <1>3, <1>4, SeqEqual
  <1> QED  BY <1>1, <1>2, <1>5 DEF Stream!Extends, U, V, W, l, m

(* A step writes, or keeps what is written, and delivers no less.          *)
LEMMA StreamSteps ==
    ASSUME BulkInv, BulkInv', BulkStep
    PROVE  Stream!Next
  <1> DEFINE a == snd.accepted
             b == snd'.accepted
             V == [k \in DOMAIN a |->
                     [seq |-> a[k].seq, from |-> a[k].from, len |-> a[k].len]]
             W == [k \in DOMAIN b |->
                     [seq |-> b[k].seq, from |-> b[k].from, len |-> b[k].len]]
  <1>1. /\ flow \in Flows /\ flow' = flow
        /\ a \in Seq(Pieces) /\ b \in Seq(Pieces) /\ Grows(a, b)
        /\ snd.closed \in BOOLEAN /\ snd'.closed \in BOOLEAN
    <2>1. snd \in Sender /\ snd' \in Sender
      BY DEF BulkInv, SenderInv
    <2> QED  BY <2>1, SenderIs DEF BulkInv, BulkStep
  <1>2. Joined(b) /\ Packed(b)
    BY DEF BulkInv, SenderInv, Streaming, Joined, Packed, Within, Follows
  <1>3. V = Written(a) /\ W = Written(b)
    BY DEF Written
  <1>4. Prefix = Reach(Len(a), received) /\ Prefix' = Reach(Len(b), received')
    BY NamesAre DEF Prefix, Reach
  <1>5. Prefix' \in Prefix .. Len(a)
    BY <1>4 DEF BulkStep
  <1>6. Len(V) = Len(a)
    BY <1>1, <1>3, WrittenIs
  <1>7. Stream!Deliver
    BY <1>5, <1>6 DEF Stream!Deliver
  <1>8. CASE snd.closed
    <2>1. snd'.closed /\ b = a
      BY <1>8 DEF BulkStep
    <2>2. snd'.closed = snd.closed /\ W = V
      BY <1>1, <1>8, <2>1
    <2>3. Stream!Keep
      BY <2>2 DEF Stream!Keep
    <2> QED  BY <1>7, <2>3 DEF Stream!Next
  <1>9. CASE ~snd.closed
    <2>1. Stream!Extends(V, W) /\ Stream!IsStream(W)
      BY <1>1, <1>2, <1>3, WrittenGrows, WrittenStreams
    <2>2. Stream!Write
      BY <1>1, <1>9, <2>1 DEF Stream!Write
    <2> QED  BY <1>7, <2>2 DEF Stream!Next
  <1> QED  BY <1>8, <1>9

(* The bulk sender over its socket is a reliable stream: nothing is        *)
(* skipped, repeated or split across two packets, although a full buffer,  *)
(* losses and a link that reorders come between; nothing follows Close.    *)
THEOREM StreamCorrect == Spec => ImplementsStream
  <1>1. Init => Stream!Init
    <2> SUFFICES ASSUME Init PROVE Stream!Init
      OBVIOUS
    <2>1. snd.accepted = <<>> /\ snd.closed = FALSE /\ received = {}
      BY DEF Init
    <2>2. Len(<<>>) = 0 /\ DOMAIN <<>> = {} /\ <<>> \in Seq(Pieces)
      BY EmptySeq
    <2>3. Written(<<>>) = <<>>
      <3>1. Written(<<>>) \in Seq([seq : Number, from : Nat, len : Nat])
            /\ Len(Written(<<>>)) = 0
        BY <2>2, WrittenIs
      <3> QED  BY <3>1, EmptySeq
    <2>4. Prefix = 0
      <3>1. Prefix = Reach(0, {})
        BY <2>1, <2>2, NamesAre
      <3>2. Reach(0, {}) \in 0 .. 0
        BY ReachIs
      <3> QED  BY <3>1, <3>2
    <2> QED  BY <2>1, <2>3, <2>4 DEF Stream!Init, Written
  <1>2. BulkInv /\ [Next]_vars => BulkInv' /\ BulkStep
    BY BulkInductive
  <1>3. BulkInv /\ BulkInv' /\ BulkStep => [Stream!Next]_Stream!vars
    BY StreamSteps
  <1> QED  BY <1>1, <1>2, <1>3, BulkInit, PTL
           DEF Spec, ImplementsStream, Stream!Spec
===============================================================================
