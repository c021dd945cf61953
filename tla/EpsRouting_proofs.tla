--------------------------- MODULE EpsRouting_proofs ---------------------------
(***************************************************************************)
(* Proofs about the routing of a ToR, for every number of flows, whatever  *)
(* keys share cells of the sketch, and for all thresholds and timeouts.    *)
(***************************************************************************)
EXTENDS EpsRouting, FiniteSetTheorems, NaturalsInduction, WellFoundedInduction,
        TLAPS

(* A non-empty set of naturals has a least element, which Min picks.       *)
LEMMA MinIn ==
    ASSUME NEW S \in SUBSET Nat, S # {}
    PROVE  Min(S) \in S /\ \A x \in S : Min(S) <= x
  <1>1. PICK x \in S : \A y \in S : ~(<<y, x>> \in OpToRel(<, Nat))
    BY NatLessThanWellFounded, WFMin
  <1>2. \A y \in S : ~(y < x)
    BY <1>1 DEF OpToRel
  <1>3. \A y \in S : x <= y
    BY <1>2
  <1> QED  BY <1>3 DEF Min

(* Induction up to M, over a set.                                          *)
LEMMA SetInduction ==
    ASSUME NEW M \in Nat, NEW S, 0 \in S,
           \A n \in 0 .. M - 1 : n \in S => n + 1 \in S
    PROVE  0 .. M \subseteq S
  <1> DEFINE C == {n \in 0 .. M : n \notin S}
  <1> SUFFICES ASSUME C # {} PROVE FALSE
    OBVIOUS
  <1>1. C \in SUBSET Nat
    OBVIOUS
  <1> DEFINE m == Min(C)
  <1>2. m \in C /\ \A x \in C : m <= x
    BY <1>1, MinIn
  <1> HIDE DEF m
  <1>3. m \in 1 .. M
    BY <1>2
  <1>4. m - 1 \in 0 .. M - 1 /\ m - 1 \notin C /\ (m - 1) + 1 = m
    BY <1>2, <1>3
  <1>5. m - 1 \in S
    BY <1>4
  <1> QED  BY <1>2, <1>4, <1>5

-------------------------------------------------------------------------------
(* The Count-Min sketch.                                                   *)

(* The first row is one of the rows, and there the cell of a key is fixed. *)
LEMMA CellsAre ==
    ASSUME NEW k \in Key, NEW cells \in Cells(k)
    PROVE  /\ cells \in [Row -> Cell] /\ cells[0] = Column[k]
           /\ 0 \in Row /\ Column[k] \in Cell
  BY RoutingAssumption DEF Cells, Row

(* A packet is estimated at no more than its cell of any row.              *)
LEMMA EstimateBelow ==
    ASSUME NEW s \in [Row -> [Cell -> Nat]], NEW k \in Key,
           NEW cells \in Cells(k), NEW r \in Row
    PROVE  Estimate(s, cells) \in Nat /\ Estimate(s, cells) <= s[r][cells[r]]
  <1> DEFINE S == {s[x][cells[x]] : x \in Row}
  <1>1. \A x \in Row : s[x][cells[x]] \in Nat
    BY CellsAre
  <1>2. S \in SUBSET Nat /\ s[r][cells[r]] \in S
    BY <1>1
  <1>3. Estimate(s, cells) = Min(S)
    BY DEF Estimate
  <1> HIDE DEF S
  <1>4. Min(S) \in S /\ \A x \in S : Min(S) <= x
    BY <1>2, MinIn
  <1> QED  BY <1>2, <1>3, <1>4

(* The counters of the first row cover what was inserted.                  *)
SketchType ==
    /\ sketch \in [Row -> [Cell -> Nat]]
    /\ inserted \in [Key -> Nat]
FirstRowCovers == \A k \in Key : inserted[k] <= sketch[0][Column[k]]
SketchInv == SketchType /\ FirstRowCovers

(* What counting a packet does to the counters.                            *)
LEMMA CountDoes ==
    ASSUME SketchType, NEW k \in Key, NEW cells \in Cells(k), Count(k, cells)
    PROVE  /\ SketchType'
           /\ inserted' = [inserted EXCEPT ![k] = @ + 1]
           /\ \A r \in Row : sketch'[r] = [sketch[r] EXCEPT ![cells[r]] = @ + 1]
           /\ \A r \in Row, c \in Cell :
                 sketch'[r][c] = sketch[r][c] + IF c = cells[r] THEN 1 ELSE 0
  <1>1. /\ sketch' = [r \in Row |-> [sketch[r] EXCEPT ![cells[r]] = @ + 1]]
        /\ inserted' = [inserted EXCEPT ![k] = @ + 1]
    BY DEF Count, Insert
  <1>2. \A r \in Row : sketch[r] \in [Cell -> Nat] /\ cells[r] \in Cell
    BY CellsAre DEF SketchType
  <1>3. \A r \in Row : [sketch[r] EXCEPT ![cells[r]] = @ + 1] \in [Cell -> Nat]
    BY <1>2
  <1>4. SketchType'
    BY <1>1, <1>3 DEF SketchType
  <1>5. ASSUME NEW r \in Row, NEW c \in Cell
        PROVE  sketch'[r][c] = sketch[r][c] + IF c = cells[r] THEN 1 ELSE 0
    <2>1. sketch'[r] = [sketch[r] EXCEPT ![cells[r]] = @ + 1]
      BY <1>1
    <2>2. sketch[r] \in [Cell -> Nat] /\ sketch[r][c] \in Nat
      BY <1>2
    <2> QED  BY <2>1, <2>2
  <1> QED  BY <1>1, <1>4, <1>5

(* A counted packet is counted in the first row's cell of its flow.        *)
LEMMA CountKeepsSketch ==
    ASSUME SketchInv, NEW k \in Key, NEW cells \in Cells(k), Count(k, cells)
    PROVE  SketchInv'
  <1>1. SketchType
    BY DEF SketchInv
  <1>2. SketchType' /\ inserted' = [inserted EXCEPT ![k] = @ + 1]
    BY <1>1, CountDoes
  <1>3. ASSUME NEW x \in Key
        PROVE  inserted'[x] <= sketch'[0][Column[x]]
    <2>1. 0 \in Row /\ Column[x] \in Cell /\ cells[0] = Column[k]
      BY RoutingAssumption, CellsAre
    <2>2. sketch'[0][Column[x]] =
              sketch[0][Column[x]] + IF Column[x] = cells[0] THEN 1 ELSE 0
      BY <1>1, <2>1, CountDoes
    <2>3. inserted[x] \in Nat /\ sketch[0][Column[x]] \in Nat
      BY <1>1, <2>1 DEF SketchType
    <2>4. inserted[x] <= sketch[0][Column[x]]
      BY DEF SketchInv, FirstRowCovers
    <2>5. inserted'[x] = inserted[x] + IF x = k THEN 1 ELSE 0
      BY <1>1, <1>2, <2>3 DEF SketchType
    <2> QED  BY <2>1, <2>2, <2>3, <2>4, <2>5
  <1> QED  BY <1>2, <1>3 DEF SketchInv, FirstRowCovers

(* Nothing is counted at first.                                            *)
LEMMA SketchInit == Init => SketchInv
  <1> SUFFICES ASSUME Init PROVE SketchInv
    OBVIOUS
  <1>1. SketchType
    BY DEF Init, SketchType
  <1>2. ASSUME NEW k \in Key
        PROVE  inserted[k] <= sketch[0][Column[k]]
    BY RoutingAssumption DEF Init, Row
  <1> QED  BY <1>1, <1>2 DEF SketchInv, FirstRowCovers

(* A step counts a packet or leaves the counters alone.                    *)
LEMMA CountsOrNot ==
    ASSUME [Next]_vars
    PROVE  \/ UNCHANGED <<sketch, inserted>>
           \/ \E p \in Packet : \E cells \in Cells(p.key) :
                 p.key \in Key /\ Count(p.key, cells)
  <1>1. CASE UNCHANGED vars \/ Tick
    BY <1>1 DEF vars, Tick
  <1>2. ASSUME NEW p \in Packet, RouteMouse(p) \/ RouteNewElephant(p)
        PROVE  \E cells \in Cells(p.key) : p.key \in Key /\ Count(p.key, cells)
    BY <1>2, RoutingAssumption DEF RouteMouse, RouteNewElephant
  <1>3. ASSUME NEW p \in Packet, RouteElephant(p)
        PROVE  UNCHANGED <<sketch, inserted>>
    BY <1>3 DEF RouteElephant
  <1> QED  BY <1>1, <1>2, <1>3 DEF Next

(* Every step keeps the first row above the truth.                         *)
LEMMA SketchStep == SketchInv /\ [Next]_vars => SketchInv'
  <1> SUFFICES ASSUME SketchInv, [Next]_vars
               PROVE  SketchInv'
    OBVIOUS
  <1>1. CASE UNCHANGED <<sketch, inserted>>
    BY <1>1 DEF SketchInv, SketchType, FirstRowCovers
  <1>2. ASSUME NEW p \in Packet, NEW cells \in Cells(p.key), p.key \in Key,
               Count(p.key, cells)
        PROVE  SketchInv'
    BY <1>2, CountKeepsSketch
  <1> QED  BY <1>1, <1>2, CountsOrNot

(* Sums over the keys, as Folds forms them: set by set, an element chosen  *)
(* from each.                                                              *)
Sums(g, counts) ==
    g = [s \in SUBSET Key |->
           IF s = {} THEN 0
           ELSE counts[CHOOSE x \in s : TRUE] + g[s \ {CHOOSE x \in s : TRUE}]]

(* A set of keys without one of them.                                      *)
LEMMA SmallerDoes ==
    ASSUME NEW s \in SUBSET Key
    PROVE  /\ Cardinality(s) \in 0 .. Cardinality(Key)
           /\ Cardinality(Key) \in Nat
           /\ Cardinality(s) = 0 <=> s = {}
           /\ \A x \in s : /\ s \ {x} \in SUBSET Key
                           /\ Cardinality(s \ {x}) = Cardinality(s) - 1
  <1>1. IsFiniteSet(Key)
    BY RoutingAssumption
  <1>2. /\ IsFiniteSet(s) /\ Cardinality(s) <= Cardinality(Key)
        /\ Cardinality(s) \in Nat /\ Cardinality(Key) \in Nat
    BY <1>1, FS_Subset, FS_CardinalityType
  <1>3. Cardinality(s) = 0 <=> s = {}
    BY <1>2, FS_EmptySet
  <1>4. \A x \in s : Cardinality(s \ {x}) = Cardinality(s) - 1
    BY <1>2, FS_RemoveElement
  <1> QED  BY <1>2, <1>3, <1>4

(* There are such sums.                                                    *)
LEMMA SumsExist ==
    ASSUME NEW counts
    PROVE  \E g : Sums(g, counts)
  <1> DEFINE M == Cardinality(Key)
             Body(g) == [s \in SUBSET Key |->
                IF s = {} THEN 0
                ELSE counts[CHOOSE x \in s : TRUE] + g[s \ {CHOOSE x \in s : TRUE}]]
             Upto(g, n) == /\ g = [s \in SUBSET Key |-> g[s]]
                           /\ \A s \in SUBSET Key :
                                Cardinality(s) <= n => g[s] = Body(g)[s]
             S == {n \in 0 .. M : \E g : Upto(g, n)}
  <1>0. M \in Nat
    BY SmallerDoes
  <1>1. 0 \in S
    <2> DEFINE g == [s \in SUBSET Key |-> 0]
    <2>1. \A s \in SUBSET Key : Cardinality(s) <= 0 => s = {}
      BY SmallerDoes
    <2>2. Upto(g, 0)
      BY <2>1
    <2> HIDE DEF g, Upto
    <2> QED  BY <1>0, <2>2
  <1>2. ASSUME NEW n \in 0 .. M - 1, n \in S
        PROVE  n + 1 \in S
    <2>1. PICK g : Upto(g, n)
      BY <1>2
    <2> DEFINE h == [s \in SUBSET Key |->
                       IF Cardinality(s) <= n THEN g[s] ELSE Body(g)[s]]
    <2>2. ASSUME NEW s \in SUBSET Key, Cardinality(s) <= n + 1
          PROVE  h[s] = Body(h)[s]
      <3>1. CASE s = {}
        <4>1. Cardinality(s) = 0
          BY <3>1, SmallerDoes
        <4>2. Cardinality(s) <= n
          BY <1>0, <4>1
        <4>3. h[s] = g[s]
          BY <4>2
        <4>4. g[s] = Body(g)[s]
          BY <2>1, <4>2
        <4>5. Body(g)[s] = 0 /\ Body(h)[s] = 0
          BY <3>1
        <4> QED  BY <4>3, <4>4, <4>5
      <3>2. CASE s # {}
        <4> DEFINE x == CHOOSE x \in s : TRUE
        <4>1. x \in s
          BY <3>2
        <4> HIDE DEF x
        <4>2. /\ s \ {x} \in SUBSET Key
              /\ Cardinality(s \ {x}) <= n
          BY <2>2, <4>1, SmallerDoes
        <4>3. h[s \ {x}] = g[s \ {x}]
          BY <4>2
        <4>4. h[s] = Body(g)[s]
          BY <2>1, <2>2
        <4> QED  BY <3>2, <4>3, <4>4 DEF x
      <3> QED  BY <3>1, <3>2
    <2>3. h = [s \in SUBSET Key |-> h[s]]
      OBVIOUS
    <2> HIDE DEF h, Body
    <2>4. Upto(h, n + 1)
      BY <2>2, <2>3
    <2>5. n + 1 \in 0 .. M
      BY <1>0
    <2> HIDE DEF Upto
    <2> QED  BY <2>4, <2>5
  <1> HIDE DEF S
  <1>3. 0 .. M \subseteq S
    BY <1>0, <1>1, <1>2, SetInduction
  <1>4. PICK g : Upto(g, M)
    <2>1. M \in S
      BY <1>0, <1>3
    <2> HIDE DEF Upto, M
    <2> QED  BY <2>1 DEF S
  <1>5. \A s \in SUBSET Key : g[s] = Body(g)[s]
    <2>1. \A s \in SUBSET Key : Cardinality(s) <= M
      BY SmallerDoes
    <2> HIDE DEF Body
    <2> QED  BY <1>4, <2>1
  <1>6. g = Body(g)
    BY <1>4, <1>5
  <1>7. Sums(g, counts)
    BY <1>6 DEF Sums
  <1> HIDE DEF Body, Upto
  <1> QED  BY <1>7

(* The total is such a sum.                                                *)
LEMMA TotalIs ==
    ASSUME NEW counts
    PROVE  \E g : Sums(g, counts) /\ Total(counts) = g[Key]
  <1> DEFINE Body(h) == [s \in SUBSET Key |->
                IF s = {} THEN 0
                ELSE counts[CHOOSE x \in s : TRUE] + h[s \ {CHOOSE x \in s : TRUE}]]
             g == CHOOSE h : h = Body(h)
  <1>1. PICK f : f = Body(f)
    <2>1. PICK f : Sums(f, counts)
      BY SumsExist
    <2>2. f = Body(f)
      BY <2>1 DEF Sums
    <2> HIDE DEF Body
    <2> QED  BY <2>2
  <1>2. g = Body(g)
    <2> HIDE DEF Body
    <2> QED  BY <1>1
  <1>3. Total(counts) = g[Key]
    BY DEF Total, MapThenSumSet, MapThenFoldSet
  <1> HIDE DEF g
  <1> QED  BY <1>2, <1>3 DEF Sums

(* Sums of naturals, when one of the numbers grows by one.                 *)
LEMMA TotalDoes ==
    ASSUME NEW counts \in [Key -> Nat], NEW k \in Key
    PROVE  /\ Total(counts) \in Nat
           /\ Total([counts EXCEPT ![k] = @ + 1]) = Total(counts) + 1
  <1> DEFINE M == Cardinality(Key)
             more == [counts EXCEPT ![k] = @ + 1]
             Pick(s) == CHOOSE x \in s : TRUE
  <1>1. PICK g : Sums(g, counts) /\ Total(counts) = g[Key]
    BY TotalIs
  <1>2. PICK h : Sums(h, more) /\ Total(more) = h[Key]
    BY TotalIs
  <1> DEFINE Right(s) == /\ g[s] \in Nat
                         /\ h[s] = IF k \in s THEN g[s] + 1 ELSE g[s]
             S == {n \in 0 .. M : \A s \in SUBSET Key :
                                     Cardinality(s) <= n => Right(s)}
  <1>3. /\ g[{}] = 0 /\ h[{}] = 0
        /\ \A s \in SUBSET Key : s # {} =>
              /\ g[s] = counts[Pick(s)] + g[s \ {Pick(s)}]
              /\ h[s] = more[Pick(s)] + h[s \ {Pick(s)}]
              /\ Pick(s) \in s
    BY <1>1, <1>2 DEF Sums
  <1>0. M \in Nat
    BY SmallerDoes
  <1> HIDE DEF Pick
  <1>4. 0 \in S
    <2>1. \A s \in SUBSET Key : Cardinality(s) <= 0 => s = {}
      BY SmallerDoes
    <2>2. ASSUME NEW s \in SUBSET Key, Cardinality(s) <= 0
          PROVE  Right(s)
      <3>1. s = {} /\ k \notin s
        BY <2>1, <2>2
      <3>2. Right({})
        BY <1>3
      <3> HIDE DEF Right
      <3> QED  BY <3>1, <3>2
    <2> HIDE DEF Right, M
    <2> QED  BY <1>0, <2>2
  <1>5. ASSUME NEW n \in 0 .. M - 1, n \in S
        PROVE  n + 1 \in S
    <2>1. ASSUME NEW s \in SUBSET Key, Cardinality(s) <= n + 1
          PROVE  Right(s)
      <3>1. CASE s = {}
        BY <1>3, <3>1
      <3>2. CASE s # {}
        <4> DEFINE x == Pick(s)
                   t == s \ {x}
        <4>1. /\ x \in s /\ g[s] = counts[x] + g[t] /\ h[s] = more[x] + h[t]
          BY <1>3, <3>2
        <4>2. t \in SUBSET Key /\ Cardinality(t) <= n
          <5> HIDE DEF x
          <5> QED  BY <2>1, <4>1, SmallerDoes
        <4>3. Right(t)
          BY <1>5, <4>2
        <4>4. /\ k \in t <=> k \in s /\ x # k
              /\ more[x] = IF x = k THEN counts[x] + 1 ELSE counts[x]
              /\ counts[x] \in Nat
          BY <4>1
        <4> HIDE DEF x, t, more
        <4> QED  BY <4>1, <4>3, <4>4
      <3> QED  BY <3>1, <3>2
    <2> QED  BY <1>0, <2>1
  <1> HIDE DEF S
  <1>6. 0 .. M \subseteq S
    BY <1>0, <1>4, <1>5, SetInduction
  <1>7. M \in S
    BY <1>0, <1>6
  <1>8. Right(Key)
    BY <1>0, <1>7 DEF S
  <1> QED  BY <1>1, <1>2, <1>8

(* Nothing adds up to nothing.                                             *)
LEMMA TotalZero == Total([k \in Key |-> 0]) = 0
  <1> DEFINE M == Cardinality(Key)
             zero == [k \in Key |-> 0]
             Pick(s) == CHOOSE x \in s : TRUE
  <1>1. PICK g : Sums(g, zero) /\ Total(zero) = g[Key]
    BY TotalIs
  <1> DEFINE S == {n \in 0 .. M : \A s \in SUBSET Key :
                                     Cardinality(s) <= n => g[s] = 0}
  <1>2. /\ g[{}] = 0
        /\ \A s \in SUBSET Key : s # {} =>
              /\ g[s] = zero[Pick(s)] + g[s \ {Pick(s)}]
              /\ Pick(s) \in s
    BY <1>1 DEF Sums
  <1>0. M \in Nat
    BY SmallerDoes
  <1> HIDE DEF Pick
  <1>3. 0 \in S
    <2>1. \A s \in SUBSET Key : Cardinality(s) <= 0 => s = {}
      BY SmallerDoes
    <2>2. \A s \in SUBSET Key : Cardinality(s) <= 0 => g[s] = 0
      BY <1>2, <2>1
    <2> HIDE DEF M
    <2> QED  BY <1>0, <2>2
  <1>4. ASSUME NEW n \in 0 .. M - 1, n \in S
        PROVE  n + 1 \in S
    <2>1. ASSUME NEW s \in SUBSET Key, Cardinality(s) <= n + 1, s # {}
          PROVE  g[s] = 0
      <3> DEFINE x == Pick(s)
                 t == s \ {x}
      <3>1. x \in s /\ g[s] = zero[x] + g[t]
        BY <1>2, <2>1
      <3>2. t \in SUBSET Key /\ Cardinality(t) <= n
        <4> HIDE DEF x
        <4> QED  BY <2>1, <3>1, SmallerDoes
      <3>3. g[t] = 0 /\ zero[x] = 0
        BY <1>4, <3>1, <3>2
      <3> HIDE DEF x, t, zero
      <3> QED  BY <3>1, <3>3
    <2> QED  BY <1>0, <1>2, <2>1
  <1> HIDE DEF S
  <1>5. 0 .. M \subseteq S
    BY <1>0, <1>3, <1>4, SetInduction
  <1>6. M \in S
    BY <1>0, <1>5
  <1> QED  BY <1>0, <1>1, <1>6 DEF S

(* No counter, and no number of packets of a key, is larger than the total *)
(* that the bound of the model limits.                                     *)
CountsInv ==
    /\ Total(inserted) \in 0 .. MaxInserts
    /\ \A r \in Row, c \in Cell : sketch[r][c] <= Total(inserted)

(* The total of other numbers is another name for the same total.          *)
LEMMA TotalNext ==
    ASSUME NEW k \in Key, inserted \in [Key -> Nat],
           inserted' = [inserted EXCEPT ![k] = @ + 1]
    PROVE  Total(inserted)' = Total(inserted) + 1 /\ Total(inserted) \in Nat
  <1>1. /\ Total([inserted EXCEPT ![k] = @ + 1]) = Total(inserted) + 1
        /\ Total(inserted) \in Nat
    BY TotalDoes
  <1>2. Total(inserted)' = Total([inserted EXCEPT ![k] = @ + 1])
    BY DEF Total, MapThenSumSet, MapThenFoldSet
  <1> QED  BY <1>1, <1>2

(* A packet counted adds one to the total, and at most one to a counter.   *)
LEMMA CountKeepsCounts ==
    ASSUME SketchInv, CountsInv, NEW k \in Key, NEW cells \in Cells(k),
           Count(k, cells)
    PROVE  CountsInv'
  <1>1. SketchType /\ Total(inserted) < MaxInserts
    BY DEF SketchInv, Count
  <1>2. /\ inserted' = [inserted EXCEPT ![k] = @ + 1]
        /\ \A r \in Row, c \in Cell :
              sketch'[r][c] = sketch[r][c] + IF c = cells[r] THEN 1 ELSE 0
    BY <1>1, CountDoes
  <1>3. Total(inserted)' = Total(inserted) + 1 /\ Total(inserted) \in Nat
    BY <1>1, <1>2, TotalNext DEF SketchType
  <1>4. ASSUME NEW r \in Row, NEW c \in Cell
        PROVE  sketch'[r][c] <= Total(inserted) + 1
    <2>1. sketch[r][c] \in Nat /\ sketch[r][c] <= Total(inserted)
      BY <1>1 DEF CountsInv, SketchType
    <2>2. sketch'[r][c] = sketch[r][c] + 1 \/ sketch'[r][c] = sketch[r][c]
      BY <1>2, <2>1
    <2> QED  BY <1>3, <2>1, <2>2
  <1>5. Total(inserted)' \in 0 .. MaxInserts
    BY <1>1, <1>3, RoutingAssumption
  <1>6. (\A r \in Row, c \in Cell : sketch[r][c] <= Total(inserted))'
    <2> SUFFICES ASSUME NEW r \in Row, NEW c \in Cell
                 PROVE  sketch'[r][c] <= Total(inserted)'
      OBVIOUS
    <2> QED  BY <1>3, <1>4
  <1> QED  BY <1>5, <1>6 DEF CountsInv

(* Nothing is counted at first.                                            *)
LEMMA CountsInit == Init => CountsInv
  <1> SUFFICES ASSUME Init PROVE CountsInv
    OBVIOUS
  <1>1. Total(inserted) = 0
    BY TotalZero DEF Init
  <1> QED  BY <1>1, RoutingAssumption DEF Init, CountsInv

(* Only Count changes the counters.                                        *)
LEMMA CountsStep == SketchInv /\ CountsInv /\ [Next]_vars => CountsInv'
  <1> SUFFICES ASSUME SketchInv, CountsInv, [Next]_vars
               PROVE  CountsInv'
    OBVIOUS
  <1>1. CASE UNCHANGED <<sketch, inserted>>
    BY <1>1 DEF CountsInv, Total, MapThenSumSet, MapThenFoldSet
  <1>2. ASSUME NEW p \in Packet, NEW cells \in Cells(p.key), p.key \in Key,
               Count(p.key, cells)
        PROVE  CountsInv'
    BY <1>2, CountKeepsCounts
  <1> QED  BY <1>1, <1>2, CountsOrNot

-------------------------------------------------------------------------------
(* The flow table.                                                         *)

(* The cap of the counters is a natural number, both thresholds below it.  *)
LEMMA SentCapType ==
    SentCap \in Nat /\ 2 * SSThresh <= SentCap /\ SentThresh <= SentCap
  <1>1. PICK m \in {2 * SSThresh, SentThresh} :
            \A y \in {2 * SSThresh, SentThresh} : m >= y
    BY RoutingAssumption
  <1>2. /\ SentCap \in {2 * SSThresh, SentThresh}
        /\ \A y \in {2 * SSThresh, SentThresh} : SentCap >= y
    BY <1>1 DEF SentCap, Max
  <1> QED  BY <1>2, RoutingAssumption

(* A new flow has no drop behind it.                                       *)
LEMMA NewFlowType ==
    ASSUME NEW garbage \in BOOLEAN
    PROVE  /\ NewFlow(garbage) \in FlowState
           /\ NewFlow(garbage).droptime = None
           /\ NewFlow(garbage).sentp = 0
  BY SentCapType, RoutingAssumption DEF NewFlow, FlowState, None

(* What a drop leaves.                                                     *)
LEMMA DropPacketDoes ==
    ASSUME NEW f \in FlowState
    PROVE  /\ DropPacket(f) \in FlowState
           /\ ~DropPacket(f).enqueued
           /\ DropPacket(f).sentp = 0
           /\ DropPacket(f).droptime = IF f.sentp # 0 THEN 0 ELSE f.droptime
  <1> DEFINE prev == IF f.sentp # 0 THEN f.sentp ELSE f.prev_sent
             time == IF f.sentp # 0 THEN 0 ELSE f.droptime
             thresh == IF prev < SentThresh THEN 2 * SSThresh ELSE SSThresh
  <1>1. DropPacket(f) = [f EXCEPT !.enqueued = FALSE, !.prev_sent = prev,
                                  !.sentp = 0, !.droptime = time,
                                  !.warmup_thresh = thresh]
    BY DEF DropPacket, FlowState
  <1>2. prev \in 0 .. SentCap /\ 0 \in 0 .. SentCap
    BY SentCapType DEF FlowState
  <1>3. time \in None .. LossTimeout + 1
    BY RoutingAssumption DEF FlowState, None
  <1>4. thresh \in {SSThresh, 2 * SSThresh}
    OBVIOUS
  <1> HIDE DEF prev, thresh
  <1> QED  BY <1>1, <1>2, <1>3, <1>4 DEF FlowState

(* What counting a packet leaves.                                          *)
LEMMA ReceiveDoes ==
    ASSUME NEW f \in FlowState
    PROVE  /\ ReceiveSequence(f) \in FlowState
           /\ ReceiveSequence(f).enqueued = f.enqueued
  BY SentCapType, RoutingAssumption DEF ReceiveSequence, FlowState

(* The optical path keeps the mark of a packet queued ahead.               *)
LEMMA ForwardDoes ==
    ASSUME NEW f \in FlowState
    PROVE  /\ Forward(f).flow \in FlowState
           /\ Forward(f).flow.enqueued = f.enqueued
           /\ Forward(f).way = "optical"
  <1>1. ReceiveSequence(f) \in FlowState
    BY ReceiveDoes
  <1>2. Forward(f).flow = [ReceiveSequence(f) EXCEPT !.lostflag = FALSE,
                                                     !.droptime = None]
    BY DEF Forward, Choice
  <1>3. None \in None .. LossTimeout + 1
    BY RoutingAssumption DEF None
  <1> QED  BY <1>1, <1>2, <1>3, ReceiveDoes DEF Forward, Choice, FlowState

(* What a decision of RouteInput does to the flow: a drop forgets the      *)
(* packet queued ahead; only a flow without one queues one; the mark stays *)
(* otherwise.                                                              *)
DecidesWell(f, p, c) ==
    /\ c.flow \in FlowState
    /\ c.way = "drop" => /\ c.flow.sentp = 0
                         /\ c.flow.droptime = IF f.sentp # 0 THEN 0
                                              ELSE f.droptime
    /\ c.way # "drop" /\ f.enqueued => c.flow.enqueued
    /\ c.way = "optical" /\ ~WorksToday(p.dst) => ~f.enqueued /\ c.flow.enqueued

(* The choices for a destination of a later day.                           *)
LEMMA AheadDoes ==
    ASSUME NEW f \in FlowState, NEW p \in Packet, NEW c \in Ahead(f, p.udp)
    PROVE  DecidesWell(f, p, c)
  <1> DEFINE g == [f EXCEPT !.lostflag = FALSE]
             h == [g EXCEPT !.enqueued = TRUE]
  <1>1. g \in FlowState /\ g.enqueued = f.enqueued
    BY DEF FlowState
  <1>2. h \in FlowState /\ h.enqueued
    BY <1>1 DEF FlowState
  <1>3. \/ c = Choice(g, "electrical")
        \/ c = Choice(ReceiveSequence(g), "electrical")
        \/ ~g.enqueued /\ c = Forward(h)
    BY DEF Ahead
  <1> HIDE DEF g, h
  <1>4. CASE c = Choice(g, "electrical")
    BY <1>1, <1>4 DEF Choice, DecidesWell
  <1>5. CASE c = Choice(ReceiveSequence(g), "electrical")
    BY <1>1, <1>5, ReceiveDoes DEF Choice, DecidesWell
  <1>6. CASE ~g.enqueued /\ c = Forward(h)
    BY <1>1, <1>2, <1>6, ForwardDoes DEF DecidesWell
  <1> QED  BY <1>3, <1>4, <1>5, <1>6

(* All choices.                                                            *)
LEMMA DecideDoes ==
    ASSUME NEW f \in FlowState, NEW p \in Packet, NEW tagged \in BOOLEAN,
           NEW c \in Decide(f, p, tagged)
    PROVE  DecidesWell(f, p, c)
  <1>1. CASE c = Choice(f, "electrical")
    BY <1>1 DEF Choice, DecidesWell
  <1>2. CASE c = Choice([f EXCEPT !.lostflag = TRUE], "electrical")
    BY <1>2 DEF Choice, DecidesWell, FlowState
  <1>3. CASE c = Choice(DropPacket(f), "drop")
    BY <1>3, DropPacketDoes DEF Choice, DecidesWell
  <1>4. CASE WorksToday(p.dst) /\ c = Forward(f)
    BY <1>4, ForwardDoes DEF DecidesWell
  <1>5. CASE c \in Ahead(f, p.udp)
    BY <1>5, AheadDoes
  <1> QED  BY <1>1, <1>2, <1>3, <1>4, <1>5 DEF Decide, Unreachable

(* What OneEarlyPacket and DropTimerCoversStreak rest on: a packet is      *)
(* queued ahead only while the flow is marked, a streak of drops lasts     *)
(* only while nothing is sent, and a flow that is not known has neither.   *)
FlowsInv ==
    /\ DOMAIN all_upflows \subseteq Key
    /\ all_upflows = [k \in DOMAIN all_upflows |-> all_upflows[k]]
    /\ \A k \in DOMAIN all_upflows : all_upflows[k] \in FlowState
    /\ early \in [Key -> {0, 1}]
    /\ streak \in [Key -> None .. LossTimeout + 1]
    /\ \A k \in Key : k \notin DOMAIN all_upflows
                       => early[k] = 0 /\ streak[k] = None
    /\ \A k \in DOMAIN all_upflows :
           /\ early[k] = 1 => all_upflows[k].enqueued
           /\ streak[k] # None => all_upflows[k].sentp = 0
    /\ DropTimerCoversStreak

(* No flow is known at first.                                              *)
LEMMA FlowsInit == Init => FlowsInv
  BY RoutingAssumption DEF Init, FlowsInv, DropTimerCoversStreak, None

(* A packet of flow f, as the table has it or just made.                   *)
LEMMA RouteFlowKeeps ==
    ASSUME FlowsInv, NEW p \in Packet, NEW f \in FlowState, RouteFlow(p, f),
           \/ p.key \in DOMAIN all_upflows /\ f = all_upflows[p.key]
           \/ p.key \notin DOMAIN all_upflows /\ f.droptime = None
                 /\ f.sentp = 0
    PROVE  FlowsInv'
  <1> DEFINE k == p.key
             g == [f EXCEPT !.accurancetime = 0]
             Routed(c) ==
               /\ all_upflows' =
                      [x \in DOMAIN all_upflows \cup {k} |->
                         IF x = k THEN c.flow ELSE all_upflows[x]]
               /\ early' = [early EXCEPT ![k] =
                     CASE c.way = "drop" -> 0
                       [] c.way = "optical" /\ ~WorksToday(p.dst) -> @ + 1
                       [] OTHER -> @]
               /\ streak' = [streak EXCEPT ![k] =
                     IF c.way # "drop" THEN None ELSE IF @ = None THEN 0 ELSE @]
  <1>1. k \in Key
    BY RoutingAssumption
  <1>2. /\ g \in FlowState /\ g.enqueued = f.enqueued
        /\ g.sentp = f.sentp /\ g.droptime = f.droptime
    BY RoutingAssumption DEF FlowState
  <1> HIDE DEF g
  <1>tagged. PICK tagged \in BOOLEAN :
                \E c \in Decide(g, p, tagged) : Routed(c)
    BY DEF RouteFlow, g
  <1>3. PICK c \in Decide(g, p, tagged) : Routed(c)
    BY <1>tagged
  <1>4. DecidesWell(g, p, c)
    BY <1>2, DecideDoes
  <1> HIDE DEF k
  <1>5. /\ DOMAIN all_upflows' = DOMAIN all_upflows \cup {k}
        /\ all_upflows'[k] = c.flow
        /\ \A x \in DOMAIN all_upflows : x # k
              => all_upflows'[x] = all_upflows[x]
    BY <1>3
  <1>6. c.flow \in FlowState
    BY <1>4 DEF DecidesWell
  <1>7. f.enqueued \in BOOLEAN /\ c.flow.enqueued \in BOOLEAN
    BY <1>6 DEF FlowState
  <1>8. early[k] \in {0, 1} /\ (early[k] = 1 => f.enqueued)
    BY <1>1 DEF FlowsInv, k
  <1>9. /\ early'[k] \in {0, 1}
        /\ early'[k] = 1 => c.flow.enqueued
    <2>1. early'[k] = CASE c.way = "drop" -> 0
                        [] c.way = "optical" /\ ~WorksToday(p.dst)
                             -> early[k] + 1
                        [] OTHER -> early[k]
      BY <1>1, <1>3 DEF FlowsInv
    <2>2. CASE c.way = "drop"
      BY <2>1, <2>2
    <2>3. CASE c.way = "optical" /\ ~WorksToday(p.dst)
      <3>1. ~f.enqueued /\ c.flow.enqueued
        BY <1>2, <1>4, <2>3 DEF DecidesWell
      <3> QED  BY <1>8, <2>1, <2>3, <3>1
    <2>4. CASE c.way # "drop" /\ ~(c.way = "optical" /\ ~WorksToday(p.dst))
      <3>1. early'[k] = early[k]
        BY <2>1, <2>4
      <3>2. f.enqueued => c.flow.enqueued
        BY <1>2, <1>4, <2>4 DEF DecidesWell
      <3> QED  BY <1>8, <3>1, <3>2
    <2> QED  BY <2>2, <2>3, <2>4
  <1>10. /\ streak[k] \in None .. LossTimeout + 1
         /\ streak[k] # None => f.sentp = 0
         /\ f.droptime # None /\ streak[k] # None => f.droptime >= streak[k]
    BY <1>1 DEF FlowsInv, k, DropTimerCoversStreak
  <1>11. /\ streak'[k] \in None .. LossTimeout + 1
         /\ streak'[k] # None => c.flow.sentp = 0
         /\ c.flow.droptime # None /\ streak'[k] # None
               => c.flow.droptime >= streak'[k]
    <2>1. streak'[k] = IF c.way # "drop" THEN None
                       ELSE IF streak[k] = None THEN 0 ELSE streak[k]
      BY <1>1, <1>3 DEF FlowsInv
    <2>2. CASE c.way # "drop"
      BY <2>1, <2>2, RoutingAssumption DEF None
    <2>3. CASE c.way = "drop"
      <3>1. /\ c.flow.sentp = 0
            /\ c.flow.droptime = IF f.sentp # 0 THEN 0 ELSE f.droptime
        BY <1>2, <1>4, <2>3 DEF DecidesWell
      <3>2. f.droptime \in None .. LossTimeout + 1
        BY DEF FlowState
      <3> QED  BY <1>10, <2>1, <2>3, <3>1, <3>2, RoutingAssumption DEF None
    <2> QED  BY <2>2, <2>3
  <1>12. \A x \in Key : x # k => early'[x] = early[x] /\ streak'[x] = streak[x]
    BY <1>3 DEF FlowsInv
  <1>13. early' \in [Key -> {0, 1}] /\ streak' \in [Key -> None .. LossTimeout + 1]
    BY <1>3, <1>9, <1>11 DEF FlowsInv
  <1>14. DropTimerCoversStreak'
    <2>1. ASSUME NEW x \in DOMAIN all_upflows', all_upflows'[x].droptime # None,
                 streak'[x] # None
          PROVE  all_upflows'[x].droptime >= streak'[x]
      BY <1>5, <1>11, <1>12, <2>1 DEF FlowsInv, DropTimerCoversStreak
    <2> QED  BY <2>1 DEF DropTimerCoversStreak
  <1>15. \A x \in DOMAIN all_upflows' :
            /\ all_upflows'[x] \in FlowState
            /\ early'[x] = 1 => all_upflows'[x].enqueued
            /\ streak'[x] # None => all_upflows'[x].sentp = 0
    BY <1>5, <1>6, <1>9, <1>11, <1>12 DEF FlowsInv
  <1>16. \A x \in Key : x \notin DOMAIN all_upflows'
                          => early'[x] = 0 /\ streak'[x] = None
    BY <1>5, <1>12 DEF FlowsInv
  <1>17. all_upflows' = [x \in DOMAIN all_upflows' |-> all_upflows'[x]]
    BY <1>3
  <1>18. DOMAIN all_upflows' \subseteq Key
    BY <1>1, <1>5 DEF FlowsInv
  <1> QED  BY <1>13, <1>14, <1>15, <1>16, <1>17, <1>18 DEF FlowsInv

(* Time passes; silent flows are erased.                                   *)
LEMMA TickKeeps ==
    ASSUME FlowsInv, Tick
    PROVE  FlowsInv'
  <1> DEFINE flows == [k \in DOMAIN all_upflows |-> Aged(all_upflows[k])]
  <1>1. /\ DOMAIN all_upflows' \subseteq DOMAIN all_upflows
        /\ \A k \in DOMAIN all_upflows' :
              all_upflows'[k] = Aged(all_upflows[k])
        /\ all_upflows' = [x \in DOMAIN all_upflows' |-> all_upflows'[x]]
    <2>1. \/ all_upflows' = flows
          \/ all_upflows' = [k \in {k \in DOMAIN flows :
                                flows[k].accurancetime <= IdleTimeout}
                                |-> flows[k]]
      BY DEF Tick, BeginConfig, Restrict
    <2> QED  BY <2>1
  <1>2. /\ early' = [k \in Key |-> IF k \in DOMAIN all_upflows' THEN early[k]
                                   ELSE 0]
        /\ streak' = [k \in Key |-> IF k \in DOMAIN all_upflows'
                                    THEN Older(streak[k], LossTimeout)
                                    ELSE None]
    BY DEF Tick
  <1> HIDE DEF flows
  <1>3. \A k \in DOMAIN all_upflows :
            /\ Aged(all_upflows[k]) \in FlowState
            /\ Aged(all_upflows[k]).enqueued = all_upflows[k].enqueued
            /\ Aged(all_upflows[k]).sentp = all_upflows[k].sentp
            /\ Aged(all_upflows[k]).droptime
                  = Older(all_upflows[k].droptime, LossTimeout)
    <2> SUFFICES ASSUME NEW f \in FlowState
                 PROVE  /\ Aged(f) \in FlowState
                        /\ Aged(f).enqueued = f.enqueued
                        /\ Aged(f).sentp = f.sentp
                        /\ Aged(f).droptime = Older(f.droptime, LossTimeout)
      BY DEF FlowsInv
    <2>1. f.droptime \in None .. LossTimeout + 1
            /\ f.accurancetime \in 0 .. IdleTimeout + 1
      BY DEF FlowState
    <2>2. Older(f.droptime, LossTimeout) \in None .. LossTimeout + 1
      BY <2>1, RoutingAssumption DEF Older, None
    <2>3. Older(f.accurancetime, IdleTimeout) \in 0 .. IdleTimeout + 1
      BY <2>1, RoutingAssumption DEF Older, None
    <2> QED  BY <2>2, <2>3 DEF Aged, FlowState
  <1>4. \A k \in Key : streak[k] \in None .. LossTimeout + 1
    BY DEF FlowsInv
  <1>5. \A k \in Key : /\ Older(streak[k], LossTimeout) \in None .. LossTimeout + 1
                       /\ Older(streak[k], LossTimeout) # None => streak[k] # None
    BY <1>4, RoutingAssumption DEF Older, None
  <1>6. early' \in [Key -> {0, 1}] /\ streak' \in [Key -> None .. LossTimeout + 1]
    BY <1>2, <1>5, RoutingAssumption DEF FlowsInv, None
  <1>7. DropTimerCoversStreak'
    <2>1. ASSUME NEW k \in DOMAIN all_upflows', all_upflows'[k].droptime # None,
                 streak'[k] # None
          PROVE  all_upflows'[k].droptime >= streak'[k]
      <3>1. k \in DOMAIN all_upflows /\ k \in Key
        BY <1>1, <2>1 DEF FlowsInv
      <3>2. /\ all_upflows'[k].droptime
                  = Older(all_upflows[k].droptime, LossTimeout)
            /\ streak'[k] = Older(streak[k], LossTimeout)
        BY <1>1, <1>2, <1>3, <2>1, <3>1
      <3>3. all_upflows[k].droptime \in None .. LossTimeout + 1
        BY <3>1 DEF FlowsInv, FlowState
      <3>4. all_upflows[k].droptime # None /\ streak[k] # None
        BY <2>1, <3>2 DEF Older
      <3>5. all_upflows[k].droptime >= streak[k]
        BY <3>1, <3>4 DEF FlowsInv, DropTimerCoversStreak
      <3> QED  BY <1>4, <3>1, <3>2, <3>3, <3>4, <3>5, RoutingAssumption
               DEF Older, None
    <2> QED  BY <2>1 DEF DropTimerCoversStreak
  <1>8. \A k \in DOMAIN all_upflows' :
            /\ k \in DOMAIN all_upflows /\ k \in Key
            /\ all_upflows'[k] \in FlowState
            /\ early'[k] = 1 => all_upflows'[k].enqueued
            /\ streak'[k] # None => all_upflows'[k].sentp = 0
    BY <1>1, <1>2, <1>3, <1>5 DEF FlowsInv
  <1>9. \A k \in Key : k \notin DOMAIN all_upflows'
                         => early'[k] = 0 /\ streak'[k] = None
    BY <1>2
  <1> QED  BY <1>1, <1>6, <1>7, <1>8, <1>9 DEF FlowsInv

(* Every step keeps the flow table in order.                               *)
LEMMA FlowsStep == FlowsInv /\ [Next]_vars => FlowsInv'
  <1> SUFFICES ASSUME FlowsInv, [Next]_vars
               PROVE  FlowsInv'
    OBVIOUS
  <1>1. CASE UNCHANGED <<all_upflows, early, streak>>
    BY <1>1 DEF FlowsInv, DropTimerCoversStreak
  <1>2. CASE Tick
    BY <1>2, TickKeeps
  <1>3. ASSUME NEW p \in Packet, RouteNewElephant(p)
        PROVE  FlowsInv'
    <2>1. PICK garbage \in BOOLEAN : RouteFlow(p, NewFlow(garbage))
      BY <1>3 DEF RouteNewElephant
    <2>2. p.key \notin DOMAIN all_upflows
      BY <1>3 DEF RouteNewElephant, Known
    <2> QED  BY <2>1, <2>2, NewFlowType, RouteFlowKeeps
  <1>4. ASSUME NEW p \in Packet, RouteElephant(p)
        PROVE  FlowsInv'
    <2>1. p.key \in DOMAIN all_upflows /\ RouteFlow(p, all_upflows[p.key])
      BY <1>4 DEF RouteElephant, Known
    <2>2. all_upflows[p.key] \in FlowState
      BY <2>1 DEF FlowsInv
    <2> QED  BY <2>1, <2>2, RouteFlowKeeps
  <1>5. ASSUME NEW p \in Packet, RouteMouse(p)
        PROVE  FlowsInv'
    BY <1>1, <1>5 DEF RouteMouse
  <1>6. CASE UNCHANGED vars
    BY <1>1, <1>6 DEF vars
  <1> QED  BY <1>2, <1>3, <1>4, <1>5, <1>6 DEF Next

(* A flow has at most one packet in the queue of a later day between two   *)
(* of its drops (RouteInput, DropPacket), whatever the constructor left in *)
(* `enqueued`.                                                             *)
THEOREM OneEarlyCorrect == Spec => []OneEarlyPacket
  <1>1. FlowsInv => OneEarlyPacket
    BY DEF FlowsInv, OneEarlyPacket
  <1> QED  BY <1>1, FlowsInit, FlowsStep, PTL DEF Spec

(* The drop timer of a flow is at least as old as its streak of drops      *)
(* (DropPacket, Forward, EraseFlow).                                       *)
THEOREM DropTimerCorrect == Spec => []DropTimerCoversStreak
  <1>1. FlowsInv => DropTimerCoversStreak
    BY DEF FlowsInv
  <1> QED  BY <1>1, FlowsInit, FlowsStep, PTL DEF Spec
-------------------------------------------------------------------------------
(* Mice and elephants.                                                     *)

(* What has been counted of the keys of cell c.                            *)
Of(c) == [k \in Key |-> IF Column[k] = c THEN inserted[k] ELSE 0]

(* The first row is exact: a cell holds what was counted of its keys.      *)
FirstRowExact == \A c \in Cell : sketch[0][c] = CountedIn(c)

(* A packet adds one to the count of its own cell.                         *)
LEMMA CountedNext ==
    ASSUME NEW k \in Key, inserted \in [Key -> Nat],
           inserted' = [inserted EXCEPT ![k] = @ + 1], NEW c
    PROVE  /\ CountedIn(c) \in Nat
           /\ CountedIn(c)' = CountedIn(c) + IF c = Column[k] THEN 1 ELSE 0
  <1>1. Of(c) \in [Key -> Nat]
    BY DEF Of
  <1>2. CountedIn(c) = Total(Of(c)) /\ CountedIn(c)' = Total(Of(c)')
    BY DEF CountedIn, Of, Total, MapThenSumSet, MapThenFoldSet
  <1>3. Total(Of(c)) \in Nat
    BY <1>1, TotalDoes
  <1>4. CASE c = Column[k]
    <2>1. Of(c)' = [Of(c) EXCEPT ![k] = @ + 1]
      BY <1>4 DEF Of
    <2>2. Total([Of(c) EXCEPT ![k] = @ + 1]) = Total(Of(c)) + 1
      BY <1>1, TotalDoes
    <2> QED  BY <1>2, <1>3, <1>4, <2>1, <2>2
  <1>5. CASE c # Column[k]
    <2>1. Of(c)' = Of(c)
      BY <1>5 DEF Of
    <2> QED  BY <1>2, <1>3, <1>5, <2>1
  <1> QED  BY <1>4, <1>5

(* What is counted stays counted.                                          *)
LEMMA CountedGrows ==
    ASSUME SketchInv, [Next]_vars, NEW c
    PROVE  \/ CountedIn(c)' = CountedIn(c)
           \/ CountedIn(c) \in Nat /\ CountedIn(c)' = CountedIn(c) + 1
  <1>1. CASE UNCHANGED <<sketch, inserted>>
    BY <1>1 DEF CountedIn, Total, MapThenSumSet, MapThenFoldSet
  <1>2. ASSUME NEW p \in Packet, NEW cells \in Cells(p.key), p.key \in Key,
               Count(p.key, cells)
        PROVE  /\ CountedIn(c) \in Nat
               /\ CountedIn(c)' \in {CountedIn(c), CountedIn(c) + 1}
    <2>1. SketchType /\ inserted' = [inserted EXCEPT ![p.key] = @ + 1]
      BY <1>2, CountDoes DEF SketchInv
    <2>2. /\ CountedIn(c) \in Nat
          /\ CountedIn(c)' = CountedIn(c) + IF c = Column[p.key] THEN 1 ELSE 0
      BY <1>2, <2>1, CountedNext DEF SketchType
    <2> QED  BY <2>2
  <1> QED  BY <1>1, <1>2, CountsOrNot

(* The first row stays exact.                                              *)
LEMMA ExactStep == SketchInv /\ FirstRowExact /\ [Next]_vars => FirstRowExact'
  <1> SUFFICES ASSUME SketchInv, FirstRowExact, [Next]_vars
               PROVE  FirstRowExact'
    OBVIOUS
  <1>1. CASE UNCHANGED <<sketch, inserted>>
    <2>1. \A c : CountedIn(c)' = CountedIn(c)
      BY <1>1 DEF CountedIn, Total, MapThenSumSet, MapThenFoldSet
    <2> QED  BY <1>1, <2>1 DEF FirstRowExact
  <1>2. ASSUME NEW p \in Packet, NEW cells \in Cells(p.key), p.key \in Key,
               Count(p.key, cells)
        PROVE  FirstRowExact'
    <2> DEFINE k == p.key
    <2>1. SketchType /\ k \in Key /\ cells \in Cells(k) /\ Count(k, cells)
      BY <1>2 DEF SketchInv
    <2> HIDE DEF k
    <2>2. 0 \in Row /\ cells[0] = Column[k]
      BY <2>1, CellsAre
    <2>3. inserted' = [inserted EXCEPT ![k] = @ + 1]
      BY <2>1, CountDoes
    <2>4. ASSUME NEW c \in Cell
          PROVE  sketch'[0][c] = CountedIn(c)'
      <3>1. sketch'[0][c] = sketch[0][c] + IF c = cells[0] THEN 1 ELSE 0
        BY <2>1, <2>2, CountDoes
      <3>2. CountedIn(c)' = CountedIn(c) + IF c = Column[k] THEN 1 ELSE 0
        BY <2>1, <2>3, CountedNext DEF SketchType
      <3> QED  BY <2>2, <3>1, <3>2 DEF FirstRowExact
    <2> QED  BY <2>4 DEF FirstRowExact
  <1> QED  BY <1>1, <1>2, CountsOrNot

(* Only a new elephant enters the flow table.                              *)
LEMMA OnlyElephantsEnter ==
    ASSUME [Next]_vars, NEW k \in DOMAIN all_upflows', k \notin DOMAIN all_upflows
    PROVE  \E p \in Packet : RouteNewElephant(p) /\ k = p.key
  <1>1. ~(UNCHANGED all_upflows)
    OBVIOUS
  <1>2. ~Tick
    BY DEF Tick, BeginConfig, Restrict
  <1>3. \A p \in Packet : ~RouteMouse(p)
    BY <1>1 DEF RouteMouse
  <1>4. \A p \in Packet : ~RouteElephant(p)
    BY DEF RouteElephant, RouteFlow, Known
  <1>5. PICK p \in Packet : RouteNewElephant(p)
    BY <1>1, <1>2, <1>3, <1>4 DEF Next, vars
  <1>6. k = p.key
    BY <1>5 DEF RouteNewElephant, RouteFlow
  <1> QED  BY <1>5, <1>6

(* Elephants are heavy when they are found, and what has been counted      *)
(* stays.                                                                  *)
LEMMA HeavyStep ==
    ASSUME SketchInv, SketchInv', FirstRowExact', ElephantsAreHeavy,
           DOMAIN all_upflows \subseteq Key, [Next]_vars
    PROVE  ElephantsAreHeavy'
  <1> SUFFICES ASSUME NEW k \in DOMAIN all_upflows'
               PROVE  CountedIn(Column[k])' > ElephantThresh
    BY DEF ElephantsAreHeavy
  <1>1. CASE k \in DOMAIN all_upflows
    <2>1. CountedIn(Column[k]) > ElephantThresh
      BY <1>1 DEF ElephantsAreHeavy
    <2>2. \/ CountedIn(Column[k])' = CountedIn(Column[k])
          \/ /\ CountedIn(Column[k]) \in Nat
             /\ CountedIn(Column[k])' = CountedIn(Column[k]) + 1
      BY CountedGrows
    <2> QED  BY <2>1, <2>2, RoutingAssumption
  <1>2. CASE k \notin DOMAIN all_upflows
    <2>1. PICK p \in Packet : RouteNewElephant(p) /\ k = p.key
      BY <1>2, OnlyElephantsEnter
    <2>2. PICK cells \in Cells(k) : IsElephant(Estimate(sketch', cells))
      BY <2>1 DEF RouteNewElephant
    <2>3. k \in Key
      BY <2>1, RoutingAssumption
    <2>4. 0 \in Row /\ cells[0] = Column[k] /\ Column[k] \in Cell
      BY <2>2, <2>3, CellsAre
    <2>5. sketch' \in [Row -> [Cell -> Nat]]
      BY DEF SketchInv, SketchType
    <2>6. /\ Estimate(sketch', cells) \in Nat
          /\ Estimate(sketch', cells) <= sketch'[0][cells[0]]
      BY <2>2, <2>3, <2>4, <2>5, EstimateBelow
    <2>7. sketch'[0][cells[0]] \in Nat
      BY <2>4, <2>5
    <2>8. sketch'[0][cells[0]] = CountedIn(Column[k])'
      BY <2>4 DEF FirstRowExact
    <2>9. Estimate(sketch', cells) > ElephantThresh
      BY <2>2 DEF IsElephant
    <2> QED  BY <2>6, <2>7, <2>8, <2>9, RoutingAssumption
  <1> QED  BY <1>1, <1>2

(* A flow is taken for an elephant only if more than ElephantThresh packets*)
(* have been counted of it and of the flows that share its cell of the     *)
(* first row (Insert_and_Get, AddUpFlow), although the other rows mix the  *)
(* packets of all flows; and it stays so for as long as the flow is known. *)
THEOREM HeavyCorrect == Spec => []ElephantsAreHeavy
  <1>1. Init => FirstRowExact /\ ElephantsAreHeavy
    <2> SUFFICES ASSUME Init PROVE FirstRowExact /\ ElephantsAreHeavy
      OBVIOUS
    <2>1. ASSUME NEW c \in Cell
          PROVE  sketch[0][c] = CountedIn(c)
      <3>1. sketch[0][c] = 0
        BY RoutingAssumption DEF Init, Row
      <3>2. [k \in Key |-> IF Column[k] = c THEN inserted[k] ELSE 0]
              = [k \in Key |-> 0]
        BY DEF Init
      <3> QED  BY <3>1, <3>2, TotalZero DEF CountedIn
    <2> QED  BY <2>1 DEF FirstRowExact, ElephantsAreHeavy, Init
  <1>2. FlowsInv => DOMAIN all_upflows \subseteq Key
    BY DEF FlowsInv
  <1>3. SketchInv /\ SketchInv' /\ FirstRowExact' /\ ElephantsAreHeavy
          /\ DOMAIN all_upflows \subseteq Key /\ [Next]_vars => ElephantsAreHeavy'
    BY HeavyStep
  <1> QED  BY <1>1, <1>2, <1>3, SketchInit, SketchStep, ExactStep, FlowsInit,
              FlowsStep, PTL DEF Spec
-------------------------------------------------------------------------------
(* The window and the strategy.                                            *)
WindowInv ==
    /\ current \in 1 .. N - 1 /\ phase \in 0 .. Cycle - 1
    /\ m_bypass \in Strategies

(* The next tick of the cycle.                                             *)
LEMMA NextPhase ==
    ASSUME NEW n \in Nat \ {0}, NEW i \in 0 .. n - 1
    PROVE  (i + 1) % n \in 0 .. n - 1
  BY SMT

(* The window moves on by one interval, round and round.                   *)
LEMMA WindowStep == WindowInv /\ [Next]_vars => WindowInv'
  <1> SUFFICES ASSUME WindowInv, [Next]_vars
               PROVE  WindowInv'
    OBVIOUS
  <1>1. CASE UNCHANGED <<current, phase, m_bypass>>
    BY <1>1 DEF WindowInv
  <1>2. CASE Tick
    <2>1. phase' \in 0 .. Cycle - 1
      BY <1>2, NextPhase, RoutingAssumption DEF Tick, WindowInv
    <2>2. \/ current' = current
          \/ current' = IF current = N - 1 THEN 1 ELSE current + 1
      BY <1>2 DEF Tick, BeginConfig
    <2>3. current' \in 1 .. N - 1
      BY <2>2, RoutingAssumption DEF WindowInv
    <2> QED  BY <1>2, <2>1, <2>3 DEF Tick, WindowInv
  <1>3. ASSUME NEW p \in Packet,
               RouteMouse(p) \/ RouteNewElephant(p) \/ RouteElephant(p)
        PROVE  UNCHANGED <<current, phase, m_bypass>>
    BY <1>3 DEF RouteMouse, RouteNewElephant, RouteElephant, RouteFlow
  <1> QED  BY <1>1, <1>2, <1>3 DEF Next, vars

(* Every variable keeps its type: the window stays among the intervals     *)
(* (BeginConfig), the counters among the packets counted (Insert_and_Get), *)
(* and every flow among the states of the class Flow.                      *)
THEOREM TypeCorrect == Spec => []TypeOK
  <1>1. ASSUME SketchInv, CountsInv
        PROVE  /\ sketch \in [Row -> [Cell -> 0 .. MaxInserts]]
               /\ inserted \in [Key -> 0 .. MaxInserts]
    <2>1. ASSUME NEW r \in Row, NEW c \in Cell
          PROVE  sketch[r][c] \in 0 .. MaxInserts
      <3>1. sketch[r][c] \in Nat /\ sketch[r][c] <= Total(inserted)
        BY <1>1 DEF SketchInv, SketchType, CountsInv
      <3> QED  BY <1>1, <3>1, RoutingAssumption DEF CountsInv
    <2>2. ASSUME NEW k \in Key
          PROVE  inserted[k] \in 0 .. MaxInserts
      <3>1. 0 \in Row /\ Column[k] \in Cell
        BY RoutingAssumption DEF Row
      <3>2. inserted[k] \in Nat /\ inserted[k] <= sketch[0][Column[k]]
        BY <1>1 DEF SketchInv, SketchType, FirstRowCovers
      <3> QED  BY <2>1, <3>1, <3>2, RoutingAssumption
    <2>3. sketch \in [Row -> [Cell -> Nat]] /\ inserted \in [Key -> Nat]
      BY <1>1 DEF SketchInv, SketchType
    <2>4. inserted \in [Key -> 0 .. MaxInserts]
      BY <2>2, <2>3
    <2>5. \A r \in Row : sketch[r] \in [Cell -> 0 .. MaxInserts]
      BY <2>1, <2>3
    <2> QED  BY <2>3, <2>4, <2>5
  <1>2. SketchInv /\ CountsInv /\ FlowsInv /\ WindowInv => TypeOK
    BY <1>1 DEF TypeOK, FlowsInv, WindowInv
  <1>3. Init => WindowInv
    BY RoutingAssumption DEF Init, WindowInv
  <1> QED  BY <1>2, <1>3, SketchInit, SketchStep, CountsInit, CountsStep,
              FlowsInit, FlowsStep, WindowStep, PTL DEF Spec
===============================================================================
