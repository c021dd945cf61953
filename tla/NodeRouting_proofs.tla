--------------------------- MODULE NodeRouting_proofs ---------------------------
(***************************************************************************)
(* Proofs about the route table of a node, for every length of addresses,  *)
(* all interfaces, scenarios and histories of changes.                     *)
(*                                                                         *)
(* The handlers fold over lists; the first part says what each leaves of a *)
(* table, as a set of entries and in which order.  The inductive invariant *)
(* IInv is about that set.  The lookup, last, is about the order, too, and *)
(* so is Built, which says how the table of a node built by the drivers    *)
(* comes about.                                                            *)
(***************************************************************************)
EXTENDS NodeRouting, FiniteSetsExt, SequenceTheorems, NaturalsInduction,
        WellFoundedInduction, TLAPS

(* A non-empty set of naturals has a least element, which Min picks.       *)
LEMMA MinIn ==
    ASSUME NEW S \in SUBSET Nat, S # {}
    PROVE  Min(S) \in S /\ \A x \in S : Min(S) <= x
  <1>1. PICK x \in S : \A y \in S : ~(<<y, x>> \in OpToRel(<, Nat))
    BY NatLessThanWellFounded, WFMin
  <1>2. \A y \in S : ~(y < x)
    BY <1>1 DEF OpToRel
  <1>3. \A y \in S : x <= y
    BY <1>2
  <1> QED  BY <1>3 DEF Min

(* Induction up to M, over a set.                                          *)
LEMMA SetInduction ==
    ASSUME NEW M \in Nat, NEW S, 0 \in S,
           \A n \in 0 .. M - 1 : n \in S => n + 1 \in S
    PROVE  0 .. M \subseteq S
  <1> DEFINE C == {n \in 0 .. M : n \notin S}
  <1> SUFFICES ASSUME C # {} PROVE FALSE
    OBVIOUS
  <1>1. C \in SUBSET Nat
    OBVIOUS
  <1> DEFINE m == Min(C)
  <1>2. m \in C /\ \A x \in C : m <= x
    BY <1>1, MinIn
  <1> HIDE DEF m
  <1>3. m \in 1 .. M
    BY <1>2
  <1>4. m - 1 \in 0 .. M - 1 /\ m - 1 \notin C /\ (m - 1) + 1 = m
    BY <1>2, <1>3
  <1>5. m - 1 \in S
    BY <1>4
  <1> QED  BY <1>2, <1>4, <1>5

(* A function that folds M steps over the sets of numbers up to M, the      *)
(* largest number last: as Folds!MapThenFoldSet does for FoldLeft.         *)
FoldsSets(f, M, base, step) ==
    /\ f[{}] = base
    /\ \A s \in SUBSET (1 .. M) :
          s # {} => f[s] = step[Max(s)][f[s \ {Max(s)}]]

(* The largest element of a set of numbers up to m that has m in it.       *)
LEMMA MaxIs ==
    ASSUME NEW m \in Nat, NEW s \in SUBSET (1 .. m), m \in s
    PROVE  Max(s) = m
  <1>1. \A y \in s : m >= y
    OBVIOUS
  <1>2. \A x \in s : (\A y \in s : x >= y) => x = m
    <2> SUFFICES ASSUME NEW x \in s, \A y \in s : x >= y PROVE x = m
      OBVIOUS
    <2>1. x >= m /\ x \in 1 .. m
      OBVIOUS
    <2> QED  BY <2>1
  <1> QED  BY <1>1, <1>2 DEF Max

(* There is one, if every step leads from L to L.                          *)
LEMMA FoldExists ==
    ASSUME NEW M \in Nat, NEW L, NEW base \in L,
           NEW step \in [1 .. M -> [L -> L]]
    PROVE  \E f : f \in [SUBSET (1 .. M) -> L] /\ FoldsSets(f, M, base, step)
  <1> DEFINE Folds(f, m) ==
                /\ f \in [SUBSET (1 .. m) -> L]
                /\ FoldsSets(f, m, base, step)
             S == {m \in 0 .. M : \E f : Folds(f, m)}
  <1>1. 0 \in S
    <2> DEFINE g == [s \in SUBSET (1 .. 0) |-> base]
    <2>1. \A s \in SUBSET (1 .. 0) : s = {}
      OBVIOUS
    <2>2. Folds(g, 0)
      BY <2>1 DEF FoldsSets
    <2> HIDE DEF g, Folds
    <2> QED  BY <2>2
  <1>2. ASSUME NEW m \in 0 .. M - 1, m \in S
        PROVE  m + 1 \in S
    <2>1. PICK f : Folds(f, m)
      BY <1>2
    <2> DEFINE n == m + 1
               g == [s \in SUBSET (1 .. n) |->
                        IF n \in s THEN step[n][f[s \ {n}]] ELSE f[s]]
    <2>2. n \in 1 .. M /\ n \in Nat
      OBVIOUS
    <2>3. ASSUME NEW s \in SUBSET (1 .. n)
          PROVE  /\ s \ {n} \in SUBSET (1 .. m)
                 /\ n \notin s => s \in SUBSET (1 .. m)
      OBVIOUS
    <2>4. g \in [SUBSET (1 .. n) -> L]
      <3>1. ASSUME NEW s \in SUBSET (1 .. n)
            PROVE  g[s] \in L
        <4> HIDE DEF n
        <4>1. f[s \ {n}] \in L /\ (n \notin s => f[s] \in L)
          BY <2>1, <2>3
        <4>2. step[n] \in [L -> L]
          BY <2>2
        <4> QED  BY <4>1, <4>2
      <3> QED  BY <3>1
    <2>5. g[{}] = base
      <3>1. {} \in SUBSET (1 .. n) /\ n \notin {}
        OBVIOUS
      <3> HIDE DEF n
      <3> QED  BY <2>1, <3>1 DEF FoldsSets
    <2>6. ASSUME NEW s \in SUBSET (1 .. n), s # {}
          PROVE  g[s] = step[Max(s)][g[s \ {Max(s)}]]
      <3> HIDE DEF n
      <3>1. CASE n \in s
        <4>1. Max(s) = n
          BY <2>2, <3>1, MaxIs
        <4>2. s \ {n} \in SUBSET (1 .. n) /\ n \notin s \ {n}
          OBVIOUS
        <4> QED  BY <3>1, <4>1, <4>2
      <3>2. CASE n \notin s
        <4>1. s \in SUBSET (1 .. m)
          BY <2>3, <3>2
        <4>2. s \ {Max(s)} \in SUBSET (1 .. n) /\ n \notin s \ {Max(s)}
          BY <3>2
        <4>3. f[s] = step[Max(s)][f[s \ {Max(s)}]]
          BY <2>1, <2>6, <4>1 DEF FoldsSets
        <4> QED  BY <3>2, <4>2, <4>3
      <3> QED  BY <3>1, <3>2
    <2> HIDE DEF g
    <2>7. Folds(g, n)
      BY <2>4, <2>5, <2>6 DEF FoldsSets
    <2> HIDE DEF Folds
    <2> QED  BY <2>2, <2>7
  <1> HIDE DEF S
  <1>3. 0 .. M \subseteq S
    BY <1>1, <1>2, SetInduction
  <1>4. M \in S
    BY <1>3
  <1> QED  BY <1>4 DEF S

(* Max picks an element.                                                   *)
LEMMA MaxIn ==
    ASSUME NEW M \in Nat, NEW s \in SUBSET (1 .. M), s # {}
    PROVE  Max(s) \in s
  <1> DEFINE U == {M - x : x \in s}
  <1>1. U \in SUBSET Nat /\ U # {}
    <2>1. \A x \in s : M - x \in Nat
      OBVIOUS
    <2> QED  BY <2>1
  <1> DEFINE u == Min(U)
  <1>2. u \in U /\ \A y \in U : u <= y
    BY <1>1, MinIn
  <1>3. PICK x \in s : u = M - x
    BY <1>2
  <1> HIDE DEF u
  <1>4. \A y \in s : M - y \in U
    OBVIOUS
  <1>5. \A y \in s : x >= y
    BY <1>2, <1>3, <1>4
  <1> QED  BY <1>5 DEF Max

(* The numbers up to n are such a set, from which n is taken.               *)
LEMMA UptoDoes ==
    ASSUME NEW M \in Nat, NEW n \in 1 .. M
    PROVE  /\ 1 .. n \in SUBSET (1 .. M) /\ 1 .. n # {}
           /\ Max(1 .. n) = n /\ (1 .. n) \ {n} = 1 .. n - 1
  <1>1. 1 .. n \in SUBSET (1 .. n) /\ n \in 1 .. n
    OBVIOUS
  <1>2. Max(1 .. n) = n
    BY <1>1, MaxIs
  <1>3. (1 .. n) \ {n} = 1 .. n - 1
    OBVIOUS
  <1> QED  BY <1>1, <1>2, <1>3
-------------------------------------------------------------------------------
(* Tables without an entry twice; what an interface may have.              *)
Table == {t \in Seq(Entry) : IsInjective(t)}
LocalAddress == [local : Addr, masklen : MaskLength]

(* Table u is t with more entries behind it.                               *)
Extends(t, u) == Len(t) <= Len(u) /\ \A k \in 1 .. Len(t) : u[k] = t[k]

(* What is left of the first n entries.                                    *)
LEMMA WithoutSteps ==
    ASSUME NEW t \in Seq(Entry), NEW gone
    PROVE  \E f : /\ f[0] = <<>> /\ f[Len(t)] = Without(t, gone)
                  /\ \A n \in 1 .. Len(t) :
                        f[n] = (IF t[n] \in gone THEN f[n - 1] ELSE Append(f[n - 1], t[n]))
  <1> DEFINE L == Seq(Entry)
             M == Len(t)
             step == [n \in 1 .. M |-> [x \in L |->
                        (IF t[n] \in gone THEN x ELSE Append(x, t[n]))]]
  <1>1. M \in Nat /\ DOMAIN t = 1 .. M /\ <<>> \in L
    OBVIOUS
  <1>2. ASSUME NEW n \in 1 .. M, NEW x \in L
        PROVE  (IF t[n] \in gone THEN x ELSE Append(x, t[n])) \in L
    OBVIOUS
  <1> HIDE DEF L, M
  <1>3. PICK f : f \in [SUBSET (1 .. M) -> L] /\ FoldsSets(f, M, <<>>, step)
    <2>1. step \in [1 .. M -> [L -> L]]
      BY <1>2
    <2> HIDE DEF step
    <2> QED  BY <1>1, <2>1, FoldExists
  <1> DEFINE Body(h) == [s \in SUBSET DOMAIN t |->
                IF s = {} THEN <<>>
                ELSE (IF t[Max(s)] \in gone THEN h[s \ {Max(s)}] ELSE Append(h[s \ {Max(s)}], t[Max(s)]))]
  <1>4. f = Body(f)
    <2>1. ASSUME NEW s \in SUBSET (1 .. M), s # {}
          PROVE  /\ Max(s) \in 1 .. M /\ s \ {Max(s)} \in SUBSET (1 .. M)
      BY <1>1, <2>1, MaxIn
    <2>2. ASSUME NEW s \in SUBSET (1 .. M)
          PROVE  f[s] = Body(f)[s]
      <3>1. CASE s = {}
        BY <1>1, <1>3, <3>1 DEF FoldsSets
      <3>2. CASE s # {}
        <4>1. f[s \ {Max(s)}] \in L
          BY <1>3, <2>1, <3>2
        <4>2. f[s] = step[Max(s)][f[s \ {Max(s)}]]
          BY <1>3, <3>2 DEF FoldsSets
        <4> QED  BY <1>1, <2>1, <3>2, <4>1, <4>2
      <3> QED  BY <3>1, <3>2
    <2> QED  BY <1>1, <1>3, <2>2
  <1> DEFINE g == CHOOSE h : h = Body(h)
  <1>5. g = Body(g)
    <2> HIDE DEF Body
    <2> QED  BY <1>4
  <1>6. Without(t, gone) = g[DOMAIN t]
    BY DEF Without, FoldLeft, MapThenFoldSet
  <1> DEFINE h == [n \in 0 .. M |-> g[1 .. n]]
  <1> HIDE DEF g
  <1>7. h[0] = <<>>
    <2>1. 1 .. 0 = {} /\ {} \in SUBSET DOMAIN t /\ 0 \in 0 .. M
      BY <1>1
    <2> QED  BY <1>5, <2>1
  <1>8. ASSUME NEW n \in 1 .. M
        PROVE  h[n] = (IF t[n] \in gone THEN h[n - 1] ELSE Append(h[n - 1], t[n]))
    <2>1. /\ 1 .. n \in SUBSET DOMAIN t /\ 1 .. n # {}
          /\ Max(1 .. n) = n /\ (1 .. n) \ {n} = 1 .. n - 1
      BY <1>1, UptoDoes
    <2>2. n \in 0 .. M /\ n - 1 \in 0 .. M
      BY <1>1
    <2>3. g[1 .. n] = Body(g)[1 .. n]
      BY <1>5
    <2> QED  BY <2>1, <2>2, <2>3
  <1>9. h[M] = Without(t, gone)
    BY <1>1, <1>6
  <1> HIDE DEF h
  <1> QED  BY <1>7, <1>8, <1>9 DEF M

(* The table after the first n routes.                                     *)
LEMMA AddRoutesSteps ==
    ASSUME NEW t \in Seq(Entry), NEW routes \in Seq(Entry)
    PROVE  \E f : /\ f[0] = t /\ f[Len(routes)] = AddRoutes(t, routes)
                  /\ \A n \in 1 .. Len(routes) :
                        f[n] = AddNetworkRouteTo(f[n - 1], routes[n])
  <1> DEFINE L == Seq(Entry)
             M == Len(routes)
             step == [n \in 1 .. M |-> [x \in L |->
                        AddNetworkRouteTo(x, routes[n])]]
  <1>1. M \in Nat /\ DOMAIN routes = 1 .. M /\ t \in L
    OBVIOUS
  <1>2. ASSUME NEW n \in 1 .. M, NEW x \in L
        PROVE  AddNetworkRouteTo(x, routes[n]) \in L
    BY DEF AddNetworkRouteTo
  <1> HIDE DEF L, M
  <1>3. PICK f : f \in [SUBSET (1 .. M) -> L] /\ FoldsSets(f, M, t, step)
    <2>1. step \in [1 .. M -> [L -> L]]
      BY <1>2
    <2> HIDE DEF step
    <2> QED  BY <1>1, <2>1, FoldExists
  <1> DEFINE Body(h) == [s \in SUBSET DOMAIN routes |->
                IF s = {} THEN t
                ELSE AddNetworkRouteTo(h[s \ {Max(s)}], routes[Max(s)])]
  <1>4. f = Body(f)
    <2>1. ASSUME NEW s \in SUBSET (1 .. M), s # {}
          PROVE  /\ Max(s) \in 1 .. M /\ s \ {Max(s)} \in SUBSET (1 .. M)
      BY <1>1, <2>1, MaxIn
    <2>2. ASSUME NEW s \in SUBSET (1 .. M)
          PROVE  f[s] = Body(f)[s]
      <3>1. CASE s = {}
        BY <1>1, <1>3, <3>1 DEF FoldsSets
      <3>2. CASE s # {}
        <4>1. f[s \ {Max(s)}] \in L
          BY <1>3, <2>1, <3>2
        <4>2. f[s] = step[Max(s)][f[s \ {Max(s)}]]
          BY <1>3, <3>2 DEF FoldsSets
        <4> QED  BY <1>1, <2>1, <3>2, <4>1, <4>2
      <3> QED  BY <3>1, <3>2
    <2> QED  BY <1>1, <1>3, <2>2
  <1> DEFINE g == CHOOSE h : h = Body(h)
  <1>5. g = Body(g)
    <2> HIDE DEF Body
    <2> QED  BY <1>4
  <1>6. AddRoutes(t, routes) = g[DOMAIN routes]
    BY DEF AddRoutes, FoldLeft, MapThenFoldSet
  <1> DEFINE h == [n \in 0 .. M |-> g[1 .. n]]
  <1> HIDE DEF g
  <1>7. h[0] = t
    <2>1. 1 .. 0 = {} /\ {} \in SUBSET DOMAIN routes /\ 0 \in 0 .. M
      BY <1>1
    <2> QED  BY <1>5, <2>1
  <1>8. ASSUME NEW n \in 1 .. M
        PROVE  h[n] = AddNetworkRouteTo(h[n - 1], routes[n])
    <2>1. /\ 1 .. n \in SUBSET DOMAIN routes /\ 1 .. n # {}
          /\ Max(1 .. n) = n /\ (1 .. n) \ {n} = 1 .. n - 1
      BY <1>1, UptoDoes
    <2>2. n \in 0 .. M /\ n - 1 \in 0 .. M
      BY <1>1
    <2>3. g[1 .. n] = Body(g)[1 .. n]
      BY <1>5
    <2> QED  BY <2>1, <2>2, <2>3
  <1>9. h[M] = AddRoutes(t, routes)
    BY <1>1, <1>6
  <1> HIDE DEF h
  <1> QED  BY <1>7, <1>8, <1>9 DEF M

(* The best entry among the first n.                                       *)
LEMMA LookupSteps ==
    ASSUME NEW t \in Seq(Entry), NEW dest, NEW oif
    PROVE  \E f : /\ f[0] = NoEntry /\ f[Len(t)] = Lookup(t, dest, oif)
                  /\ \A n \in 1 .. Len(t) :
                        f[n] = (IF Applies(t[n], dest, oif) /\ Replaces(f[n - 1], t[n]) THEN t[n] ELSE f[n - 1])
  <1> DEFINE L == Entry \cup {NoEntry}
             M == Len(t)
             step == [n \in 1 .. M |-> [x \in L |->
                        (IF Applies(t[n], dest, oif) /\ Replaces(x, t[n]) THEN t[n] ELSE x)]]
  <1>1. M \in Nat /\ DOMAIN t = 1 .. M /\ NoEntry \in L
    OBVIOUS
  <1>2. ASSUME NEW n \in 1 .. M, NEW x \in L
        PROVE  (IF Applies(t[n], dest, oif) /\ Replaces(x, t[n]) THEN t[n] ELSE x) \in L
    OBVIOUS
  <1> HIDE DEF L, M
  <1>3. PICK f : f \in [SUBSET (1 .. M) -> L] /\ FoldsSets(f, M, NoEntry, step)
    <2>1. step \in [1 .. M -> [L -> L]]
      BY <1>2
    <2> HIDE DEF step
    <2> QED  BY <1>1, <2>1, FoldExists
  <1> DEFINE Body(h) == [s \in SUBSET DOMAIN t |->
                IF s = {} THEN NoEntry
                ELSE (IF Applies(t[Max(s)], dest, oif) /\ Replaces(h[s \ {Max(s)}], t[Max(s)]) THEN t[Max(s)] ELSE h[s \ {Max(s)}])]
  <1>4. f = Body(f)
    <2>1. ASSUME NEW s \in SUBSET (1 .. M), s # {}
          PROVE  /\ Max(s) \in 1 .. M /\ s \ {Max(s)} \in SUBSET (1 .. M)
      BY <1>1, <2>1, MaxIn
    <2>2. ASSUME NEW s \in SUBSET (1 .. M)
          PROVE  f[s] = Body(f)[s]
      <3>1. CASE s = {}
        BY <1>1, <1>3, <3>1 DEF FoldsSets
      <3>2. CASE s # {}
        <4>1. f[s \ {Max(s)}] \in L
          BY <1>3, <2>1, <3>2
        <4>2. f[s] = step[Max(s)][f[s \ {Max(s)}]]
          BY <1>3, <3>2 DEF FoldsSets
        <4> QED  BY <1>1, <2>1, <3>2, <4>1, <4>2
      <3> QED  BY <3>1, <3>2
    <2> QED  BY <1>1, <1>3, <2>2
  <1> DEFINE g == CHOOSE h : h = Body(h)
  <1>5. g = Body(g)
    <2> HIDE DEF Body
    <2> QED  BY <1>4
  <1>6. Lookup(t, dest, oif) = g[DOMAIN t]
    BY DEF Lookup, FoldLeft, MapThenFoldSet
  <1> DEFINE h == [n \in 0 .. M |-> g[1 .. n]]
  <1> HIDE DEF g
  <1>7. h[0] = NoEntry
    <2>1. 1 .. 0 = {} /\ {} \in SUBSET DOMAIN t /\ 0 \in 0 .. M
      BY <1>1
    <2> QED  BY <1>5, <2>1
  <1>8. ASSUME NEW n \in 1 .. M
        PROVE  h[n] = (IF Applies(t[n], dest, oif) /\ Replaces(h[n - 1], t[n]) THEN t[n] ELSE h[n - 1])
    <2>1. /\ 1 .. n \in SUBSET DOMAIN t /\ 1 .. n # {}
          /\ Max(1 .. n) = n /\ (1 .. n) \ {n} = 1 .. n - 1
      BY <1>1, UptoDoes
    <2>2. n \in 0 .. M /\ n - 1 \in 0 .. M
      BY <1>1
    <2>3. g[1 .. n] = Body(g)[1 .. n]
      BY <1>5
    <2> QED  BY <2>1, <2>2, <2>3
  <1>9. h[M] = Lookup(t, dest, oif)
    BY <1>1, <1>6
  <1> HIDE DEF h
  <1> QED  BY <1>7, <1>8, <1>9 DEF M
-------------------------------------------------------------------------------
(* An entry behind others.                                                 *)
LEMMA AppendDoes ==
    ASSUME NEW X, NEW t \in Seq(X), NEW route \in X
    PROVE  LET u == Append(t, route) IN
           /\ u \in Seq(X) /\ ToSet(u) = ToSet(t) \cup {route}
           /\ Extends(t, u)
           /\ IsInjective(t) /\ route \notin ToSet(t) => IsInjective(u)
  <1> DEFINE u == Append(t, route)
  <1>1. /\ u \in Seq(X) /\ Len(u) = Len(t) + 1 /\ Len(t) \in Nat
        /\ \A k \in 1 .. Len(t) : u[k] = t[k]
        /\ u[Len(t) + 1] = route
        /\ DOMAIN u = 1 .. Len(t) + 1 /\ DOMAIN t = 1 .. Len(t)
    OBVIOUS
  <1> HIDE DEF u
  <1>2. 1 .. Len(t) + 1 = (1 .. Len(t)) \cup {Len(t) + 1}
    BY <1>1
  <1>3. ToSet(u) = ToSet(t) \cup {route}
    BY <1>1, <1>2 DEF ToSet
  <1>4. ASSUME IsInjective(t), route \notin ToSet(t)
        PROVE  IsInjective(u)
    BY <1>1, <1>2, <1>4 DEF IsInjective, ToSet
  <1> QED  BY <1>1, <1>3, <1>4 DEF u, Extends

(* A route is added once.                                                  *)
LEMMA AddDoes ==
    ASSUME NEW t \in Table, NEW route \in Entry
    PROVE  LET u == AddNetworkRouteTo(t, route) IN
           /\ u \in Table /\ ToSet(u) = ToSet(t) \cup {route}
           /\ Extends(t, u)
  <1>1. t \in Seq(Entry) /\ IsInjective(t)
    BY DEF Table
  <1>2. Contains(t, route) <=> route \in ToSet(t)
    BY <1>1 DEF Contains, ToSet
  <1>3. Extends(t, t)
    BY <1>1 DEF Extends
  <1> QED  BY <1>1, <1>2, <1>3, AppendDoes DEF AddNetworkRouteTo, Table

(* Entries that are erased leave the others, in their order.               *)
LEMMA WithoutDoes ==
    ASSUME NEW t \in Seq(Entry), NEW gone
    PROVE  /\ Without(t, gone) \in Seq(Entry)
           /\ ToSet(Without(t, gone)) = ToSet(t) \ gone
           /\ IsInjective(t) => IsInjective(Without(t, gone))
  <1>1. PICK f : /\ f[0] = <<>> /\ f[Len(t)] = Without(t, gone)
                 /\ \A n \in 1 .. Len(t) :
                       f[n] = IF t[n] \in gone THEN f[n - 1]
                              ELSE Append(f[n - 1], t[n])
    BY WithoutSteps
  <1> DEFINE First(n) == {t[k] : k \in 1 .. n}
             Good(n, u) == /\ u \in Seq(Entry) /\ ToSet(u) = First(n) \ gone
                           /\ IsInjective(t) => IsInjective(u)
             S == {n \in 0 .. Len(t) : Good(n, f[n])}
  <1>2. 0 \in S
    <2>1. <<>> \in Seq(Entry) /\ ToSet(<<>>) = {} /\ IsInjective(<<>>)
      BY DEF ToSet, IsInjective
    <2>2. First(0) = {} /\ 0 \in 0 .. Len(t)
      OBVIOUS
    <2> QED  BY <1>1, <2>1, <2>2
  <1>3. ASSUME NEW n \in 0 .. Len(t) - 1, n \in S
        PROVE  n + 1 \in S
    <2> DEFINE m == n + 1
    <2>1. /\ m \in 1 .. Len(t) /\ m \in 0 .. Len(t) /\ m - 1 = n
          /\ t[m] \in Entry /\ Good(n, f[n])
      BY <1>3
    <2>2. First(m) = First(n) \cup {t[m]}
      <3>1. 1 .. m = (1 .. n) \cup {m}
        OBVIOUS
      <3> QED  BY <3>1
    <2>3. IsInjective(t) => t[m] \notin First(n)
      <3>1. \A k \in 1 .. n : k \in DOMAIN t /\ m \in DOMAIN t /\ k # m
        OBVIOUS
      <3> HIDE DEF m
      <3> QED  BY <3>1 DEF IsInjective
    <2> HIDE DEF m, First
    <2>4. CASE t[m] \in gone
      <3>1. f[m] = f[n]
        BY <1>1, <2>1, <2>4
      <3> QED  BY <2>1, <2>2, <2>4, <3>1 DEF m
    <2>5. CASE t[m] \notin gone
      <3>1. f[m] = Append(f[n], t[m])
        BY <1>1, <2>1, <2>5
      <3>2. Good(m, f[m])
        BY <2>1, <2>2, <2>3, <2>5, <3>1, AppendDoes
      <3> QED  BY <2>1, <3>2 DEF m
    <2> QED  BY <2>4, <2>5
  <1>4. Len(t) \in Nat /\ First(Len(t)) = ToSet(t)
    BY DEF ToSet
  <1> HIDE DEF S
  <1>5. 0 .. Len(t) \subseteq S
    BY <1>2, <1>3, <1>4, SetInduction
  <1>6. Good(Len(t), f[Len(t)])
    <2>1. Len(t) \in S
      BY <1>4, <1>5
    <2> QED  BY <2>1 DEF S
  <1> QED  BY <1>1, <1>4, <1>6

(* Several routes, one after the other.                                    *)
LEMMA AddRoutesDoes ==
    ASSUME NEW t \in Table, NEW routes \in Seq(Entry)
    PROVE  LET u == AddRoutes(t, routes) IN
           /\ u \in Table /\ ToSet(u) = ToSet(t) \cup ToSet(routes)
           /\ Extends(t, u)
           /\ \A k \in Len(t) + 1 .. Len(u) : u[k] \in ToSet(routes)
  <1>0. t \in Seq(Entry)
    BY DEF Table
  <1> DEFINE M == Len(routes)
             First(n) == {routes[k] : k \in 1 .. n}
             Good(n, u) == /\ u \in Table /\ ToSet(u) = ToSet(t) \cup First(n)
                           /\ Extends(t, u)
  <1>1. PICK f : /\ f[0] = t /\ f[M] = AddRoutes(t, routes)
                 /\ \A n \in 1 .. M :
                       f[n] = AddNetworkRouteTo(f[n - 1], routes[n])
    BY <1>0, AddRoutesSteps
  <1> DEFINE S == {n \in 0 .. M : Good(n, f[n])}
  <1>2. 0 \in S
    <2>1. First(0) = {} /\ 0 \in 0 .. M
      OBVIOUS
    <2>2. Extends(t, t)
      BY <1>0 DEF Extends
    <2> QED  BY <1>1, <2>1, <2>2
  <1>3. ASSUME NEW n \in 0 .. M - 1, n \in S
        PROVE  n + 1 \in S
    <2> DEFINE m == n + 1
    <2>1. /\ m \in 1 .. M /\ m \in 0 .. M /\ m - 1 = n
          /\ routes[m] \in Entry /\ Good(n, f[n])
      BY <1>3
    <2>2. First(m) = First(n) \cup {routes[m]}
      <3>1. 1 .. m = (1 .. n) \cup {m}
        OBVIOUS
      <3> QED  BY <3>1
    <2> HIDE DEF m, First
    <2>3. f[m] = AddNetworkRouteTo(f[n], routes[m])
      BY <1>1, <2>1
    <2>4. /\ f[m] \in Table /\ ToSet(f[m]) = ToSet(f[n]) \cup {routes[m]}
          /\ Extends(f[n], f[m])
      BY <2>1, <2>3, AddDoes
    <2>5. Extends(t, f[m])
      <3>1. f[n] \in Seq(Entry) /\ f[m] \in Seq(Entry)
        BY <2>1, <2>4 DEF Table
      <3> QED  BY <1>0, <2>1, <2>4, <3>1 DEF Extends
    <2>6. Good(m, f[m])
      BY <2>1, <2>2, <2>4, <2>5
    <2> QED  BY <2>1, <2>6 DEF m
  <1>4. M \in Nat /\ First(M) = ToSet(routes)
    BY DEF ToSet
  <1> HIDE DEF S
  <1>5. 0 .. M \subseteq S
    BY <1>2, <1>3, <1>4, SetInduction
  <1>6. Good(M, f[M])
    <2>1. M \in S
      BY <1>4, <1>5
    <2> QED  BY <2>1 DEF S
  <1> DEFINE u == AddRoutes(t, routes)
  <1>7. /\ u \in Table /\ ToSet(u) = ToSet(t) \cup ToSet(routes)
        /\ Extends(t, u)
    BY <1>1, <1>4, <1>6
  <1> HIDE DEF u
  <1>8. ASSUME NEW k \in Len(t) + 1 .. Len(u)
        PROVE  u[k] \in ToSet(routes)
    <2>1. u \in Seq(Entry) /\ IsInjective(u)
      BY <1>7 DEF Table
    <2>2. k \in DOMAIN u /\ u[k] \in ToSet(u)
      BY <1>0, <2>1 DEF ToSet
    <2>3. u[k] \notin ToSet(t)
      <3> SUFFICES ASSUME NEW j \in DOMAIN t, t[j] = u[k] PROVE FALSE
        BY DEF ToSet
      <3>1. u[j] = u[k] /\ j \in DOMAIN u /\ j # k
        BY <1>0, <1>7, <2>1 DEF Extends
      <3> QED  BY <2>1, <2>2, <3>1 DEF IsInjective
    <2> QED  BY <1>7, <2>2, <2>3
  <1> QED  BY <1>7, <1>8 DEF u

(* A route is erased, or an address.                                       *)
LEMMA RemoveAtDoes ==
    ASSUME NEW X, NEW t \in Seq(X), NEW k \in DOMAIN t
    PROVE  LET u == RemoveAt(t, k) IN
           /\ u \in Seq(X) /\ ToSet(u) \subseteq ToSet(t)
           /\ ToSet(t) \subseteq ToSet(u) \cup {t[k]}
           /\ IsInjective(t) => IsInjective(u) /\ t[k] \notin ToSet(u)
  <1> DEFINE u == RemoveAt(t, k)
  <1>1. /\ u \in Seq(X) /\ Len(u) = Len(t) - 1 /\ Len(t) \in Nat
        /\ k \in 1 .. Len(t)
        /\ DOMAIN u = 1 .. Len(t) - 1 /\ DOMAIN t = 1 .. Len(t)
        /\ \A n \in 1 .. Len(t) - 1 : u[n] = IF n < k THEN t[n] ELSE t[n + 1]
    <2> DEFINE before == SubSeq(t, 1, k - 1)
               after == SubSeq(t, k + 1, Len(t))
    <2>1. /\ Len(t) \in Nat /\ k \in 1 .. Len(t) /\ DOMAIN t = 1 .. Len(t)
      OBVIOUS
    <2>2. /\ before \in Seq(X) /\ Len(before) = k - 1
          /\ \A n \in 1 .. k - 1 : before[n] = t[n]
      BY <2>1
    <2>3. /\ after \in Seq(X) /\ Len(after) = Len(t) - k
          /\ \A n \in 1 .. Len(t) - k : after[n] = t[k + n]
      BY <2>1
    <2>4. u = before \o after
      BY DEF RemoveAt
    <2> HIDE DEF before, after, u
    <2>5. /\ u \in Seq(X) /\ Len(u) = Len(before) + Len(after)
          /\ \A n \in 1 .. Len(before) + Len(after) :
                u[n] = IF n <= Len(before) THEN before[n]
                       ELSE after[n - Len(before)]
      BY <2>2, <2>3, <2>4, ConcatProperties
    <2>7. Len(u) = Len(t) - 1
      BY <2>1, <2>2, <2>3, <2>5
    <2>8. DOMAIN u = 1 .. Len(t) - 1
      BY <2>5, <2>7
    <2>6. ASSUME NEW n \in 1 .. Len(t) - 1
          PROVE  u[n] = IF n < k THEN t[n] ELSE t[n + 1]
      <3>1. CASE n < k
        BY <2>1, <2>2, <2>3, <2>5, <3>1
      <3>2. CASE n >= k
        <4>1. n - (k - 1) \in 1 .. Len(t) - k /\ k + (n - (k - 1)) = n + 1
          BY <2>1, <3>2
        <4>2. u[n] = after[n - (k - 1)]
          BY <2>1, <2>2, <2>3, <2>5, <3>2
        <4> QED  BY <2>1, <2>3, <3>2, <4>1, <4>2
      <3> QED  BY <2>1, <3>1, <3>2
    <2> QED  BY <2>1, <2>5, <2>6, <2>7, <2>8
  <1> HIDE DEF u
  <1>2. ToSet(u) \subseteq ToSet(t)
    BY <1>1 DEF ToSet
  <1>3. ASSUME NEW n \in DOMAIN t, n # k
        PROVE  t[n] \in ToSet(u)
    <2>1. CASE n < k
      <3>1. n \in DOMAIN u /\ u[n] = t[n]
        BY <1>1, <2>1
      <3> QED  BY <3>1 DEF ToSet
    <2>2. CASE n > k
      <3>1. n - 1 \in DOMAIN u /\ u[n - 1] = t[n]
        BY <1>1, <2>2
      <3> QED  BY <3>1 DEF ToSet
    <2> QED  BY <1>1, <1>3, <2>1, <2>2
  <1>4. ToSet(t) \subseteq ToSet(u) \cup {t[k]}
    BY <1>3 DEF ToSet
  <1>5. ASSUME IsInjective(t)
        PROVE  IsInjective(u)
    <2> SUFFICES ASSUME NEW m \in DOMAIN u, NEW n \in DOMAIN u, u[m] = u[n]
                 PROVE  m = n
      BY DEF IsInjective
    <2> DEFINE Old(j) == IF j < k THEN j ELSE j + 1
    <2>1. /\ Old(m) \in DOMAIN t /\ Old(n) \in DOMAIN t
          /\ u[m] = t[Old(m)] /\ u[n] = t[Old(n)]
      BY <1>1
    <2>2. Old(m) = Old(n)
      <3> HIDE DEF Old
      <3> QED  BY <1>5, <2>1 DEF IsInjective
    <2> QED  BY <1>1, <2>2
  <1>6. ASSUME IsInjective(t), t[k] \in ToSet(u)
        PROVE  FALSE
    <2>1. PICK n \in DOMAIN u : u[n] = t[k]
      BY <1>6 DEF ToSet
    <2>2. CASE n < k
      <3>1. n \in DOMAIN t /\ t[n] = t[k] /\ n # k
        BY <1>1, <2>1, <2>2
      <3> QED  BY <1>6, <3>1 DEF IsInjective
    <2>3. CASE n >= k
      <3>1. n + 1 \in DOMAIN t /\ t[n + 1] = t[k] /\ n + 1 # k
        BY <1>1, <2>1, <2>3
      <3> QED  BY <1>6, <3>1 DEF IsInjective
    <2> QED  BY <1>1, <2>2, <2>3
  <1> QED  BY <1>1, <1>2, <1>4, <1>5, <1>6 DEF u

(* The network of an address.                                              *)
LEMMA NetworkDoes ==
    ASSUME NEW i \in Interface, NEW a \in LocalAddress
    PROVE  /\ Network(i, a) \in Entry /\ Network(i, a).interface = i
           /\ Network(i, a).masklen = a.masklen
  <1>1. CombineMask(a.local, a.masklen) \in Addr /\ Zero \in Addr
    BY DEF LocalAddress, CombineMask, Addr, Zero
  <1>2. 0 \in 0 .. MaxMetric
    BY NodeAssumption
  <1> QED  BY <1>1, <1>2 DEF Network, Direct, Entry, LocalAddress

(* The networks an interface adds when it comes up.                        *)
Connected(i, taken) ==
    {Network(i, taken[k]) : k \in {n \in DOMAIN taken : taken[n].masklen # Bits}}

(* An interface that comes up adds the networks of its addresses.          *)
LEMMA UpDoes ==
    ASSUME NEW t \in Table, NEW i \in Interface, NEW taken \in Seq(LocalAddress)
    PROVE  LET u == NotifyInterfaceUp(t, i, taken) IN
           u \in Table /\ ToSet(u) = ToSet(t) \cup Connected(i, taken)
  <1>0. DOMAIN taken = 1 .. Len(taken) /\ Len(taken) \in Nat
    BY LenProperties
  <1>1. ASSUME NEW k \in DOMAIN taken
        PROVE  /\ taken[k] \in LocalAddress /\ Network(i, taken[k]) \in Entry
               /\ Network(i, taken[k]).masklen = taken[k].masklen
    <2>1. taken[k] \in LocalAddress
      BY <1>0, ElementOfSeq
    <2> QED  BY <2>1, NetworkDoes
  <1> DEFINE networks == Networks(i, taken)
             hosts == {route \in ToSet(networks) : route.masklen = Bits}
  <1>2. networks \in Seq(Entry)
    <2>2. networks = [k \in 1 .. Len(taken) |-> Network(i, taken[k])]
      BY <1>0 DEF Networks
    <2> HIDE DEF networks
    <2> QED  BY <1>0, <1>1, <2>2
  <1>3. ToSet(networks) \ hosts = Connected(i, taken)
    BY <1>1 DEF Networks, Connected, ToSet
  <1>4. NotifyInterfaceUp(t, i, taken) = AddRoutes(t, Without(networks, hosts))
    BY DEF NotifyInterfaceUp
  <1> HIDE DEF networks, hosts
  <1>5. /\ Without(networks, hosts) \in Seq(Entry)
        /\ ToSet(Without(networks, hosts)) = Connected(i, taken)
    BY <1>2, <1>3, WithoutDoes
  <1> QED  BY <1>4, <1>5, AddRoutesDoes

(* One that goes down takes all its entries along.                         *)
LEMMA DownDoes ==
    ASSUME NEW t \in Table, NEW i
    PROVE  LET u == NotifyInterfaceDown(t, i) IN
           /\ u \in Table
           /\ ToSet(u) = {route \in ToSet(t) : route.interface # i}
  <1> DEFINE gone == {route \in ToSet(t) : route.interface = i}
  <1>1. NotifyInterfaceDown(t, i) = Without(t, gone)
    BY DEF NotifyInterfaceDown
  <1>2. ToSet(t) \ gone = {route \in ToSet(t) : route.interface # i}
    OBVIOUS
  <1> HIDE DEF gone
  <1> QED  BY <1>1, <1>2, WithoutDoes DEF Table

(* An address that goes takes the entries of its network along.            *)
LEMMA RemoveAddressDoes ==
    ASSUME NEW t \in Table, NEW i \in Interface, NEW a \in LocalAddress,
           NEW isUp
    PROVE  LET u == NotifyRemoveAddress(t, i, a, isUp) IN
           /\ u \in Table /\ ToSet(u) \subseteq ToSet(t)
           /\ isUp /\ a.masklen # Bits => Network(i, a) \notin ToSet(u)
  <1>1. CASE ~isUp
    BY <1>1 DEF NotifyRemoveAddress
  <1>2. CASE isUp
    <2> DEFINE gone == SameNetwork(t, i, CombineMask(a.local, a.masklen),
                                   a.masklen)
    <2>1. NotifyRemoveAddress(t, i, a, isUp) = Without(t, gone)
      BY <1>2 DEF NotifyRemoveAddress
    <2>2. a.masklen # Bits /\ Network(i, a) \in ToSet(t) => Network(i, a) \in gone
      BY DEF SameNetwork, Network, Direct
    <2> HIDE DEF gone
    <2>3. /\ Without(t, gone) \in Table
          /\ ToSet(Without(t, gone)) = ToSet(t) \ gone
      BY WithoutDoes DEF Table
    <2> QED  BY <2>1, <2>2, <2>3
  <1> QED  BY <1>1, <1>2

(* The interfaces in the order of SetIpv4, and what is done with one.      *)
Ports == [n \in 1 .. NInterfaces |-> n - 1]
Notified(t, i) ==
    IF up[i] THEN NotifyInterfaceUp(t, i, addresses[i])
    ELSE NotifyInterfaceDown(t, i)

(* An interface adds its networks, or loses its entries.                   *)
LEMMA NotifiedDoes ==
    ASSUME NEW t \in Table, NEW i \in Interface,
           addresses \in [Interface -> Seq(LocalAddress)]
    PROVE  /\ Notified(t, i) \in Table
           /\ up[i] => ToSet(Notified(t, i)) =
                          ToSet(t) \cup Connected(i, addresses[i])
           /\ ~up[i] => ToSet(Notified(t, i)) =
                          {route \in ToSet(t) : route.interface # i}
  <1>1. addresses[i] \in Seq(LocalAddress)
    OBVIOUS
  <1> QED  BY <1>1, UpDoes, DownDoes DEF Notified

(* The table of a switch after its first n interfaces.                     *)
LEMMA SetIpv4Steps ==
    ASSUME NEW t \in Table, scenario.protocol # "eps",
           addresses \in [Interface -> Seq(LocalAddress)]
    PROVE  \E f : /\ f[0] = t /\ f[Len(Ports)] = SetIpv4(t)
                  /\ \A n \in 1 .. Len(Ports) :
                        f[n] = Notified(f[n - 1], Ports[n])
  <1> DEFINE L == Table
             M == Len(Ports)
             step == [n \in 1 .. M |-> [x \in L |->
                        Notified(x, Ports[n])]]
  <1>0. NInterfaces \in Nat
    BY NodeAssumption
  <1>1. M \in Nat /\ DOMAIN Ports = 1 .. M /\ t \in L
    BY <1>0 DEF Ports
  <1>2. ASSUME NEW n \in 1 .. M, NEW x \in L
        PROVE  Notified(x, Ports[n]) \in L
    <2>1. Ports[n] \in Interface
      BY <1>0, <1>1 DEF Ports, Interface
    <2> QED  BY <2>1, NotifiedDoes

  <1> HIDE DEF L, M
  <1>3. PICK f : f \in [SUBSET (1 .. M) -> L] /\ FoldsSets(f, M, t, step)
    <2>1. step \in [1 .. M -> [L -> L]]
      BY <1>2
    <2> HIDE DEF step
    <2> QED  BY <1>1, <2>1, FoldExists
  <1> DEFINE Body(h) == [s \in SUBSET DOMAIN Ports |->
                IF s = {} THEN t
                ELSE Notified(h[s \ {Max(s)}], Ports[Max(s)])]
  <1>4. f = Body(f)
    <2>1. ASSUME NEW s \in SUBSET (1 .. M), s # {}
          PROVE  /\ Max(s) \in 1 .. M /\ s \ {Max(s)} \in SUBSET (1 .. M)
      BY <1>1, <2>1, MaxIn
    <2>2. ASSUME NEW s \in SUBSET (1 .. M)
          PROVE  f[s] = Body(f)[s]
      <3>1. CASE s = {}
        BY <1>1, <1>3, <3>1 DEF FoldsSets
      <3>2. CASE s # {}
        <4>1. f[s \ {Max(s)}] \in L
          BY <1>3, <2>1, <3>2
        <4>2. f[s] = step[Max(s)][f[s \ {Max(s)}]]
          BY <1>3, <3>2 DEF FoldsSets
        <4> QED  BY <1>1, <2>1, <3>2, <4>1, <4>2
      <3> QED  BY <3>1, <3>2
    <2> QED  BY <1>1, <1>3, <2>2
  <1> DEFINE g == CHOOSE h : h = Body(h)
  <1>5. g = Body(g)
    <2> HIDE DEF Body
    <2> QED  BY <1>4
  <1>6. SetIpv4(t) = g[DOMAIN Ports]
    BY DEF SetIpv4, Ports, Notified, FoldLeft, MapThenFoldSet
  <1> DEFINE h == [n \in 0 .. M |-> g[1 .. n]]
  <1> HIDE DEF g
  <1>7. h[0] = t
    <2>1. 1 .. 0 = {} /\ {} \in SUBSET DOMAIN Ports /\ 0 \in 0 .. M
      BY <1>1
    <2> QED  BY <1>5, <2>1
  <1>8. ASSUME NEW n \in 1 .. M
        PROVE  h[n] = Notified(h[n - 1], Ports[n])
    <2>1. /\ 1 .. n \in SUBSET DOMAIN Ports /\ 1 .. n # {}
          /\ Max(1 .. n) = n /\ (1 .. n) \ {n} = 1 .. n - 1
      BY <1>1, UptoDoes
    <2>2. n \in 0 .. M /\ n - 1 \in 0 .. M
      BY <1>1
    <2>3. g[1 .. n] = Body(g)[1 .. n]
      BY <1>5
    <2> QED  BY <2>1, <2>2, <2>3
  <1>9. h[M] = SetIpv4(t)
    BY <1>1, <1>6
  <1> HIDE DEF h
  <1> QED  BY <1>7, <1>8, <1>9 DEF M

(* A switch that is attached connects the networks of its interfaces, and  *)
(* keeps no entry through one that is down.                                *)
LEMMA SetIpv4Does ==
    ASSUME NEW t \in Table, scenario.protocol # "eps",
           addresses \in [Interface -> Seq(LocalAddress)]
    PROVE  /\ SetIpv4(t) \in Table
           /\ ToSet(SetIpv4(t)) =
                 {route \in ToSet(t) : up[route.interface]} \cup
                 UNION {Connected(i, addresses[i]) : i \in {j \in Interface : up[j]}}
  <1>0. NInterfaces \in Nat /\ Len(Ports) = NInterfaces
    BY NodeAssumption DEF Ports
  <1> DEFINE M == NInterfaces
             Kept(n) == {route \in ToSet(t) :
                            route.interface \in 0 .. n - 1 => up[route.interface]}
             Added(n) == UNION {Connected(i, addresses[i]) :
                                   i \in {j \in 0 .. n - 1 : up[j]}}
             Good(n, u) == u \in Table /\ ToSet(u) = Kept(n) \cup Added(n)
  <1>1. \A route \in ToSet(t) : route.interface \in Interface
    <2>1. ToSet(t) \subseteq Entry
      BY DEF Table, ToSet
    <2> QED  BY <2>1 DEF Entry
  <1>2. PICK f : /\ f[0] = t /\ f[M] = SetIpv4(t)
                 /\ \A n \in 1 .. M : f[n] = Notified(f[n - 1], Ports[n])
    BY <1>0, SetIpv4Steps
  <1> DEFINE S == {n \in 0 .. M : Good(n, f[n])}
  <1>3. 0 \in S
    <2>1. Kept(0) = ToSet(t) /\ Added(0) = {} /\ 0 \in 0 .. M
      BY <1>0
    <2> QED  BY <1>2, <2>1
  <1>4. ASSUME NEW n \in 0 .. M - 1, n \in S
        PROVE  n + 1 \in S
    <2> DEFINE m == n + 1
    <2>1. /\ m \in 1 .. M /\ m \in 0 .. M /\ m - 1 = n
          /\ Good(n, f[n])
      BY <1>0, <1>4
    <2>2. n \in Interface /\ Ports[m] = n /\ addresses[n] \in Seq(LocalAddress)
      BY <1>0, <2>1 DEF Ports, Interface
    <2>3. 0 .. m - 1 = (0 .. n - 1) \cup {n} /\ 0 .. n - 1 \subseteq Interface
      BY <1>0 DEF Interface
    <2> HIDE DEF m
    <2>4. ASSUME NEW route \in Added(n)
          PROVE  route.interface # n
      <3>1. PICK i \in 0 .. n - 1 : route \in Connected(i, addresses[i])
        BY <2>4
      <3>2. PICK k \in DOMAIN addresses[i] : route = Network(i, addresses[i][k])
        BY <3>1 DEF Connected
      <3>3. i \in Interface /\ addresses[i] \in Seq(LocalAddress)
        BY <2>3
      <3>4. addresses[i][k] \in LocalAddress
        BY <3>3, LenProperties, ElementOfSeq
      <3> QED  BY <3>2, <3>3, <3>4, NetworkDoes
    <2>5. f[m] = Notified(f[n], n)
      BY <1>2, <2>1, <2>2
    <2>6. f[m] \in Table
      BY <2>1, <2>2, <2>5, NotifiedDoes
    <2>7. CASE up[n]
      <3>1. ToSet(f[m]) = Kept(n) \cup Added(n) \cup Connected(n, addresses[n])
        BY <2>1, <2>2, <2>5, <2>7, NotifiedDoes
      <3>2. Added(m) = Added(n) \cup Connected(n, addresses[n])
        BY <2>3, <2>7
      <3>3. Kept(m) = Kept(n)
        BY <2>3, <2>7
      <3> HIDE DEF Kept, Added
      <3> QED  BY <2>1, <2>6, <3>1, <3>2, <3>3 DEF m
    <2>8. CASE ~up[n]
      <3>1. ToSet(f[m]) = {route \in Kept(n) \cup Added(n) : route.interface # n}
        BY <2>1, <2>2, <2>5, <2>8, NotifiedDoes
      <3>2. Added(m) = Added(n)
        BY <2>3, <2>8
      <3>3. Kept(m) = {route \in Kept(n) : route.interface # n}
        BY <2>3, <2>8
      <3> HIDE DEF Kept, Added
      <3> QED  BY <2>1, <2>4, <2>6, <3>1, <3>2, <3>3 DEF m
    <2> QED  BY <2>7, <2>8
  <1> HIDE DEF S
  <1>5. 0 .. M \subseteq S
    BY <1>0, <1>3, <1>4, SetInduction
  <1>6. Good(M, f[M])
    <2>1. M \in S
      BY <1>0, <1>5
    <2> QED  BY <2>1 DEF S
  <1>7. 0 .. M - 1 = Interface
    BY DEF Interface
  <1>8. Kept(M) = {route \in ToSet(t) : up[route.interface]}
    BY <1>1, <1>7
  <1> QED  BY <1>2, <1>6, <1>7, <1>8
-------------------------------------------------------------------------------
(* The inductive invariant, in terms of the set of entries.                *)
Routes == ToSet(m_networkRoutes)

Typed ==
    /\ scenario \in Scenario /\ m_networkRoutes \in Table
    /\ attached \in BOOLEAN /\ initialized \in BOOLEAN
    /\ up \in [Interface -> BOOLEAN]
    /\ addresses \in [Interface -> Seq(LocalAddress)]
    /\ \A i \in Interface : ToSet(addresses[i]) \subseteq scenario.local[i]
    /\ ~attached => ~initialized
    /\ ~attached /\ ~scenario.live => m_networkRoutes = <<>>

(* Entries are those of interfaces that are up, or added late; before the  *)
(* routing is attached, all are added by calls.                            *)
UpOrLate ==
    /\ late \subseteq ApiRoute \cup ToSet(RackRoute)
    /\ attached => ThroughDown(Routes) \subseteq late
    /\ ~attached => Routes \subseteq ApiRoute

(* An entry of a network has been added by a call or for an address.       *)
Reasoned ==
    \A route \in Routes :
        route.masklen # Bits =>
            \/ route \in ApiRoute \cup ToSet(RackRoute)
            \/ \E a \in ToSet(addresses[route.interface]) :
                  route = Network(route.interface, a)

(* A switch knows the networks that were not withdrawn.                    *)
Known ==
    scenario.protocol = "ocs" /\ attached =>
        \A i \in Interface : \A a \in ToSet(addresses[i]) :
            up[i] /\ a.masklen # Bits
                /\ [interface |-> i, address |-> a] \notin withdrawn
            => Network(i, a) \in Routes

IInv == Typed /\ UpOrLate /\ Reasoned /\ Known

(* What a scenario consists of.                                            *)
LEMMA ScenarioDoes ==
    ASSUME scenario \in Scenario
    PROVE  /\ RackRoute \in Seq(Entry) /\ ApiRoute \subseteq Entry
           /\ \A i \in Interface : scenario.local[i] \subseteq LocalAddress
           /\ scenario.protocol \in {"ocs", "eps"}
  BY DEF Scenario, RackRoute, ApiRoute, LocalAddress

(* Attaching the routing.                                                  *)
LEMMA AttachDoes ==
    ASSUME Typed, Attach
    PROVE  /\ Typed'
           /\ scenario.protocol = "eps" => Routes' = Routes
           /\ scenario.protocol = "ocs" =>
                Routes' = (Routes \ ThroughDown(Routes)) \cup
                          UNION {Connected(i, addresses[i]) :
                                    i \in {j \in Interface : up[j]}}
  <1>1. /\ ~attached /\ m_networkRoutes \in Table
        /\ addresses \in [Interface -> Seq(LocalAddress)]
        /\ m_networkRoutes' = SetIpv4(m_networkRoutes)
    BY DEF Typed, Attach
  <1>2. CASE scenario.protocol = "eps"
    <2>1. m_networkRoutes' = m_networkRoutes
      BY <1>1, <1>2 DEF SetIpv4
    <2> QED  BY <1>1, <1>2, <2>1 DEF Typed, Attach, Routes
  <1>3. CASE scenario.protocol # "eps"
    <2>0. /\ m_networkRoutes' \in Table
          /\ ToSet(m_networkRoutes') =
                {route \in ToSet(m_networkRoutes) : up[route.interface]} \cup
                UNION {Connected(i, addresses[i]) : i \in {j \in Interface : up[j]}}
      BY <1>1, <1>3, SetIpv4Does
    <2>1. /\ m_networkRoutes' \in Table
          /\ ToSet(m_networkRoutes') =
                (Routes \ ThroughDown(Routes)) \cup
                UNION {Connected(i, addresses[i]) : i \in {j \in Interface : up[j]}}
      BY <2>0 DEF Routes, ThroughDown
    <2> QED  BY <1>1, <1>3, <2>1, ScenarioDoes DEF Typed, Attach, Routes
  <1> QED  BY <1>2, <1>3

(* The routes to the racks.                                                *)
LEMMA InitializeDoes ==
    ASSUME Typed, Initialize
    PROVE  Typed' /\ Routes' = Routes \cup ToSet(RackRoute)
  <1>1. m_networkRoutes \in Table /\ RackRoute \in Seq(Entry)
    BY ScenarioDoes DEF Typed
  <1>2. /\ m_networkRoutes' \in Table
        /\ ToSet(m_networkRoutes') = ToSet(m_networkRoutes) \cup ToSet(RackRoute)
    BY <1>1, AddRoutesDoes DEF Initialize
  <1> QED  BY <1>2 DEF Typed, Initialize, Routes

(* An interface comes up.                                                  *)
LEMMA SetUpDoes ==
    ASSUME Typed, NEW i \in Interface, SetUp(i)
    PROVE  /\ Typed' /\ up'[i] /\ \A j \in Interface : j # i => up'[j] = up[j]
           /\ attached => Routes' = Routes \cup Connected(i, addresses[i])
           /\ ~attached => Routes' = Routes
  <1>1. m_networkRoutes \in Table /\ addresses[i] \in Seq(LocalAddress)
    BY DEF Typed
  <1>2. up' \in [Interface -> BOOLEAN] /\ up'[i]
        /\ \A j \in Interface : j # i => up'[j] = up[j]
    BY DEF Typed, SetUp
  <1>3. CASE attached
    <2>1. /\ m_networkRoutes' \in Table
          /\ ToSet(m_networkRoutes') =
                ToSet(m_networkRoutes) \cup Connected(i, addresses[i])
      BY <1>1, <1>3, UpDoes DEF SetUp
    <2> QED  BY <1>2, <1>3, <2>1 DEF Typed, SetUp, Routes
  <1>4. CASE ~attached
    BY <1>2, <1>4 DEF Typed, SetUp, Routes
  <1> QED  BY <1>3, <1>4 DEF Typed

(* An interface goes down.                                                 *)
LEMMA SetDownDoes ==
    ASSUME Typed, NEW i \in Interface, SetDown(i)
    PROVE  /\ Typed' /\ ~up'[i] /\ \A j \in Interface : j # i => up'[j] = up[j]
           /\ attached => Routes' = {route \in Routes : route.interface # i}
           /\ ~attached => Routes' = Routes
  <1>1. m_networkRoutes \in Table
    BY DEF Typed
  <1>2. up' \in [Interface -> BOOLEAN] /\ ~up'[i]
        /\ \A j \in Interface : j # i => up'[j] = up[j]
    BY DEF Typed, SetDown
  <1>3. CASE attached
    <2>1. /\ m_networkRoutes' \in Table
          /\ ToSet(m_networkRoutes') =
                {route \in ToSet(m_networkRoutes) : route.interface # i}
      BY <1>1, <1>3, DownDoes DEF SetDown
    <2> QED  BY <1>2, <1>3, <2>1 DEF Typed, SetDown, Routes
  <1>4. CASE ~attached
    BY <1>2, <1>4 DEF Typed, SetDown, Routes
  <1> QED  BY <1>3, <1>4 DEF Typed

(* An interface gets an address.                                           *)
LEMMA AddAddressDoes ==
    ASSUME Typed, NEW i \in Interface, NEW a \in scenario.local[i],
           AddAddress(i, a)
    PROVE  /\ Typed' /\ a \in LocalAddress
           /\ ToSet(addresses'[i]) = ToSet(addresses[i]) \cup {a}
           /\ \A j \in Interface : j # i => addresses'[j] = addresses[j]
           /\ attached /\ up[i] => Routes' = Routes \cup {Network(i, a)}
           /\ ~(attached /\ up[i]) => Routes' = Routes
  <1>1. /\ m_networkRoutes \in Table /\ addresses[i] \in Seq(LocalAddress)
        /\ a \in LocalAddress /\ Network(i, a) \in Entry
    BY ScenarioDoes, NetworkDoes DEF Typed
  <1>2. addresses' = [addresses EXCEPT ![i] = Append(addresses[i], a)]
    BY DEF AddAddress
  <1>3. /\ Append(addresses[i], a) \in Seq(LocalAddress)
        /\ ToSet(Append(addresses[i], a)) = ToSet(addresses[i]) \cup {a}
    BY <1>1, AppendDoes
  <1>4. /\ addresses' \in [Interface -> Seq(LocalAddress)]
        /\ addresses'[i] = Append(addresses[i], a)
        /\ \A j \in Interface : j # i => addresses'[j] = addresses[j]
    BY <1>2, <1>3 DEF Typed
  <1>5. \A j \in Interface : ToSet(addresses'[j]) \subseteq scenario.local[j]
    BY <1>3, <1>4 DEF Typed
  <1>6. CASE attached /\ up[i]
    <2>1. /\ m_networkRoutes' \in Table
          /\ ToSet(m_networkRoutes') = ToSet(m_networkRoutes) \cup {Network(i, a)}
      BY <1>1, <1>6, AddDoes DEF AddAddress, NotifyAddAddress
    <2> QED  BY <1>1, <1>3, <1>4, <1>5, <1>6, <2>1 DEF Typed, AddAddress, Routes
  <1>7. CASE ~(attached /\ up[i])
    <2>1. m_networkRoutes' = m_networkRoutes
      BY <1>7 DEF AddAddress, NotifyAddAddress
    <2> QED  BY <1>1, <1>3, <1>4, <1>5, <1>7, <2>1 DEF Typed, AddAddress, Routes
  <1> QED  BY <1>6, <1>7

(* An interface loses an address.                                          *)
LEMMA RemoveAddressStep ==
    ASSUME Typed, NEW i \in Interface, NEW k \in DOMAIN addresses[i],
           RemoveAddress(i, k)
    PROVE  LET a == addresses[i][k] IN
           /\ Typed' /\ a \in LocalAddress
           /\ ToSet(addresses'[i]) \subseteq ToSet(addresses[i])
           /\ ToSet(addresses[i]) \subseteq ToSet(addresses'[i]) \cup {a}
           /\ \A j \in Interface : j # i => addresses'[j] = addresses[j]
           /\ Routes' \subseteq Routes
           /\ attached /\ up[i] /\ a.masklen # Bits => Network(i, a) \notin Routes'
  <1> DEFINE a == addresses[i][k]
  <1>1. /\ m_networkRoutes \in Table /\ addresses[i] \in Seq(LocalAddress)
    BY DEF Typed
  <1>2. a \in LocalAddress
    BY <1>1, LenProperties, ElementOfSeq
  <1>3. addresses' = [addresses EXCEPT ![i] = RemoveAt(addresses[i], k)]
    BY DEF RemoveAddress
  <1>4. LET u == RemoveAt(addresses[i], k) IN
        /\ u \in Seq(LocalAddress) /\ ToSet(u) \subseteq ToSet(addresses[i])
        /\ ToSet(addresses[i]) \subseteq ToSet(u) \cup {a}
    BY <1>1, RemoveAtDoes
  <1>5. /\ addresses' \in [Interface -> Seq(LocalAddress)]
        /\ addresses'[i] = RemoveAt(addresses[i], k)
        /\ \A j \in Interface : j # i => addresses'[j] = addresses[j]
    BY <1>3, <1>4 DEF Typed
  <1>6. \A j \in Interface : ToSet(addresses'[j]) \subseteq scenario.local[j]
    BY <1>4, <1>5 DEF Typed
  <1>7. /\ m_networkRoutes' \in Table /\ Routes' \subseteq Routes
        /\ ~attached => m_networkRoutes' = m_networkRoutes
        /\ attached /\ up[i] /\ a.masklen # Bits => Network(i, a) \notin Routes'
    <2>1. CASE attached
      <3>1. m_networkRoutes' = NotifyRemoveAddress(m_networkRoutes, i, a, up[i])
        BY <2>1 DEF RemoveAddress
      <3> HIDE DEF a
      <3> QED  BY <1>1, <1>2, <2>1, <3>1, RemoveAddressDoes DEF Routes
    <2>2. CASE ~attached
      BY <1>1, <2>2 DEF RemoveAddress, Routes
    <2> QED  BY <2>1, <2>2 DEF Typed
  <1> HIDE DEF a
  <1>8. Typed'
    BY <1>5, <1>6, <1>7 DEF Typed, RemoveAddress
  <1> QED  BY <1>2, <1>4, <1>5, <1>7, <1>8 DEF a

(* A route is added by a call.                                             *)
LEMMA AddRouteDoes ==
    ASSUME Typed, NEW route \in ApiRoute, AddRoute(route)
    PROVE  Typed' /\ Routes' = Routes \cup {route}
  <1>1. m_networkRoutes \in Table /\ route \in Entry
    BY ScenarioDoes DEF Typed
  <1>2. /\ m_networkRoutes' \in Table
        /\ ToSet(m_networkRoutes') = ToSet(m_networkRoutes) \cup {route}
    BY <1>1, AddDoes DEF AddRoute
  <1> QED  BY <1>2 DEF Typed, AddRoute, Routes

(* A route is removed by a call.                                           *)
LEMMA DropRouteDoes ==
    ASSUME Typed, NEW k \in DOMAIN m_networkRoutes, DropRoute(k)
    PROVE  Typed' /\ Routes' \subseteq Routes \ {m_networkRoutes[k]}
  <1>1. m_networkRoutes \in Seq(Entry) /\ IsInjective(m_networkRoutes)
    BY DEF Typed, Table
  <1>2. /\ m_networkRoutes' \in Table
        /\ ToSet(m_networkRoutes') \subseteq
              ToSet(m_networkRoutes) \ {m_networkRoutes[k]}
    BY <1>1, RemoveAtDoes DEF DropRoute, RemoveRoute, Table
  <1> QED  BY <1>2 DEF Typed, DropRoute, Routes

(* Entries are entries, and the networks of an interface are its own.      *)
LEMMA RoutesDo ==
    ASSUME Typed
    PROVE  /\ Routes \subseteq Entry
           /\ \A route \in Routes : route.interface \in Interface
           /\ \A i \in Interface : \A route \in Connected(i, addresses[i]) :
                 /\ route.interface = i /\ route.masklen # Bits
                 /\ \E a \in ToSet(addresses[i]) : route = Network(i, a)
  <1>1. Routes \subseteq Entry
    BY DEF Typed, Table, Routes, ToSet
  <1>2. \A route \in Entry : route.interface \in Interface
    BY DEF Entry
  <1>3. ASSUME NEW i \in Interface, NEW route \in Connected(i, addresses[i])
        PROVE  /\ route.interface = i /\ route.masklen # Bits
               /\ \E a \in ToSet(addresses[i]) : route = Network(i, a)
    <2>1. PICK k \in DOMAIN addresses[i] :
             addresses[i][k].masklen # Bits /\ route = Network(i, addresses[i][k])
      BY <1>3 DEF Connected
    <2>2. addresses[i] \in Seq(LocalAddress)
      BY DEF Typed
    <2>3. addresses[i][k] \in LocalAddress
      BY <2>2, LenProperties, ElementOfSeq
    <2> QED  BY <2>1, <2>3, NetworkDoes DEF ToSet
  <1> QED  BY <1>1, <1>2, <1>3

(* An entry through an interface that is down comes by a call; those there *)
(* are go with the interface.                                              *)
LEMMA UpOrLateStep ==
    ASSUME Typed, UpOrLate, Next
    PROVE  UpOrLate'
  <1>0. ApiRoute' = ApiRoute /\ RackRoute' = RackRoute
    BY DEF Next, Attach, Initialize, SetUp, SetDown, AddAddress, RemoveAddress,
           AddRoute, DropRoute, ApiRoute, RackRoute
  <1>1. CASE Attach
    <2>1. up' = up /\ attached' /\ Routes \subseteq ApiRoute
      BY <1>1 DEF Attach, UpOrLate
    <2>2. CASE scenario.protocol = "eps"
      <3>1. Routes' = Routes /\ late' = ThroughDown(Routes)
        BY <1>1, <2>2, AttachDoes DEF Attach, Routes
      <3> QED  BY <1>0, <2>1, <3>1 DEF UpOrLate, ThroughDown
    <2>3. CASE scenario.protocol = "ocs"
      <3>1. late' = {}
        BY <1>1, <2>3 DEF Attach
      <3>2. \A route \in Routes' : up[route.interface]
        BY <1>1, <2>3, AttachDoes, RoutesDo DEF ThroughDown
      <3> QED  BY <1>0, <2>1, <3>1, <3>2 DEF UpOrLate, ThroughDown
    <2> QED  BY <2>2, <2>3, ScenarioDoes DEF Typed
  <1>2. CASE Initialize
    <2>1. /\ up' = up /\ attached /\ attached' = attached
          /\ late' = late \cup ThroughDown(ToSet(RackRoute))
          /\ Routes' = Routes \cup ToSet(RackRoute)
      BY <1>2, InitializeDoes DEF Initialize
    <2> QED  BY <1>0, <2>1 DEF UpOrLate, ThroughDown
  <1>3. ASSUME NEW i \in Interface, SetUp(i)
        PROVE  UpOrLate'
    <2>1. CASE attached
      <3>1. /\ attached' /\ late' = LateExcept(i)
            /\ Routes' = Routes \cup Connected(i, addresses[i])
        BY <1>3, <2>1, SetUpDoes DEF SetUp
      <3>2. \A route \in Routes' :
               ~up'[route.interface] => /\ route \in Routes /\ route.interface # i
                                        /\ ~up[route.interface]
        BY <1>3, <3>1, SetUpDoes, RoutesDo
      <3> QED  BY <1>0, <2>1, <3>1, <3>2 DEF UpOrLate, ThroughDown, LateExcept
    <2>2. CASE ~attached
      <3>1. ~attached' /\ late' = late /\ Routes' = Routes
        BY <1>3, <2>2, SetUpDoes DEF SetUp
      <3> QED  BY <1>0, <2>2, <3>1 DEF UpOrLate
    <2> QED  BY <2>1, <2>2 DEF Typed
  <1>4. ASSUME NEW i \in Interface, SetDown(i)
        PROVE  UpOrLate'
    <2>1. CASE attached
      <3>1. /\ attached' /\ late' = LateExcept(i)
            /\ Routes' = {route \in Routes : route.interface # i}
        BY <1>4, <2>1, SetDownDoes DEF SetDown
      <3>2. \A route \in Routes' :
               ~up'[route.interface] => /\ route \in Routes /\ route.interface # i
                                        /\ ~up[route.interface]
        BY <1>4, <3>1, SetDownDoes, RoutesDo
      <3> QED  BY <1>0, <2>1, <3>1, <3>2 DEF UpOrLate, ThroughDown, LateExcept
    <2>2. CASE ~attached
      <3>1. ~attached' /\ late' = late /\ Routes' = Routes
        BY <1>4, <2>2, SetDownDoes DEF SetDown
      <3> QED  BY <1>0, <2>2, <3>1 DEF UpOrLate
    <2> QED  BY <2>1, <2>2 DEF Typed
  <1>5. ASSUME NEW i \in Interface, NEW a \in scenario.local[i], AddAddress(i, a)
        PROVE  UpOrLate'
    <2>1. up' = up /\ attached' = attached /\ late' = late
      BY <1>5 DEF AddAddress
    <2>2. CASE attached /\ up[i]
      <3>1. Routes' = Routes \cup {Network(i, a)}
        BY <1>5, <2>2, AddAddressDoes
      <3>2. Network(i, a).interface = i
        BY <1>5, AddAddressDoes, NetworkDoes
      <3> QED  BY <1>0, <2>1, <2>2, <3>1, <3>2 DEF UpOrLate, ThroughDown
    <2>3. CASE ~(attached /\ up[i])
      <3>1. Routes' = Routes
        BY <1>5, <2>3, AddAddressDoes
      <3> QED  BY <1>0, <2>1, <3>1 DEF UpOrLate, ThroughDown
    <2> QED  BY <2>2, <2>3
  <1>6. ASSUME NEW i \in Interface, NEW k \in DOMAIN addresses[i],
               RemoveAddress(i, k)
        PROVE  UpOrLate'
    <2>1. /\ up' = up /\ attached' = attached /\ late' = late
          /\ Routes' \subseteq Routes
      BY <1>6, RemoveAddressStep DEF RemoveAddress
    <2> QED  BY <1>0, <2>1 DEF UpOrLate, ThroughDown
  <1>7. ASSUME NEW route \in ApiRoute, AddRoute(route)
        PROVE  UpOrLate'
    <2>1. /\ up' = up /\ attached' = attached
          /\ late' = IF attached THEN late \cup ThroughDown({route}) ELSE late
          /\ Routes' = Routes \cup {route}
      BY <1>7, AddRouteDoes DEF AddRoute
    <2> QED  BY <1>0, <2>1 DEF UpOrLate, ThroughDown
  <1>8. ASSUME NEW k \in DOMAIN m_networkRoutes, DropRoute(k)
        PROVE  UpOrLate'
    <2>1. /\ up' = up /\ attached' = attached
          /\ late' = late \ {m_networkRoutes[k]}
          /\ Routes' \subseteq Routes \ {m_networkRoutes[k]}
      BY <1>8, DropRouteDoes DEF DropRoute
    <2> QED  BY <1>0, <2>1 DEF UpOrLate, ThroughDown
  <1> QED  BY <1>1, <1>2, <1>3, <1>4, <1>5, <1>6, <1>7, <1>8 DEF Next

(* An address is removed with the entries of its network, unless the       *)
(* interface is down: then there are none but those calls have added.      *)
LEMMA ReasonedStep ==
    ASSUME Typed, UpOrLate, Reasoned, Next
    PROVE  Reasoned'
  <1>0. /\ scenario' = scenario
        /\ ApiRoute' = ApiRoute /\ RackRoute' = RackRoute
    BY DEF Next, Attach, Initialize, SetUp, SetDown, AddAddress, RemoveAddress,
           AddRoute, DropRoute, ApiRoute, RackRoute
  <1>1. CASE Attach
    <2>1. addresses' = addresses
      BY <1>1 DEF Attach
    <2>2. Routes' \subseteq Routes \cup
                            UNION {Connected(i, addresses[i]) : i \in Interface}
      BY <1>1, AttachDoes, ScenarioDoes DEF Typed
    <2> QED  BY <1>0, <2>1, <2>2, RoutesDo DEF Reasoned
  <1>2. CASE Initialize
    <2>1. addresses' = addresses /\ Routes' = Routes \cup ToSet(RackRoute)
      BY <1>2, InitializeDoes DEF Initialize
    <2> QED  BY <1>0, <2>1 DEF Reasoned
  <1>3. ASSUME NEW i \in Interface, SetUp(i)
        PROVE  Reasoned'
    <2>1. addresses' = addresses
      BY <1>3 DEF SetUp
    <2>2. Routes' \subseteq Routes \cup Connected(i, addresses[i])
      BY <1>3, SetUpDoes DEF Typed
    <2> QED  BY <1>0, <2>1, <2>2, RoutesDo DEF Reasoned
  <1>4. ASSUME NEW i \in Interface, SetDown(i)
        PROVE  Reasoned'
    <2>1. addresses' = addresses
      BY <1>4 DEF SetDown
    <2>2. Routes' \subseteq Routes
      BY <1>4, SetDownDoes DEF Typed
    <2> QED  BY <1>0, <2>1, <2>2 DEF Reasoned
  <1>5. ASSUME NEW i \in Interface, NEW a \in scenario.local[i], AddAddress(i, a)
        PROVE  Reasoned'
    <2>1. Network(i, a).interface = i
      BY <1>5, AddAddressDoes, NetworkDoes
    <2>2. \A j \in Interface : ToSet(addresses[j]) \subseteq ToSet(addresses'[j])
      BY <1>5, AddAddressDoes
    <2>3. a \in ToSet(addresses'[i]) /\ Routes' \subseteq Routes \cup {Network(i, a)}
      BY <1>5, AddAddressDoes
    <2> QED  BY <1>0, <2>1, <2>2, <2>3, RoutesDo DEF Reasoned
  <1>6. ASSUME NEW i \in Interface, NEW k \in DOMAIN addresses[i],
               RemoveAddress(i, k)
        PROVE  Reasoned'
    <2> DEFINE a == addresses[i][k]
    <2>1. /\ a \in LocalAddress
          /\ ToSet(addresses[i]) \subseteq ToSet(addresses'[i]) \cup {a}
          /\ \A j \in Interface : j # i => addresses'[j] = addresses[j]
          /\ Routes' \subseteq Routes
          /\ attached /\ up[i] /\ a.masklen # Bits => Network(i, a) \notin Routes'
      BY <1>6, RemoveAddressStep
    <2> HIDE DEF a
    <2>2. SUFFICES ASSUME NEW route \in Routes', route.masklen # Bits,
                          route \notin ApiRoute \cup ToSet(RackRoute)
                   PROVE  \E b \in ToSet(addresses'[route.interface]) :
                             route = Network(route.interface, b)
      BY <1>0 DEF Reasoned
    <2>3. PICK b \in ToSet(addresses[route.interface]) :
              route = Network(route.interface, b)
      BY <2>1, <2>2 DEF Reasoned
    <2>4. route \in Routes /\ route.interface \in Interface
      BY <2>1, RoutesDo
    <2>5. attached /\ up[route.interface]
      BY <2>2, <2>4 DEF UpOrLate, ThroughDown
    <2>6. CASE route.interface # i
      BY <2>1, <2>3, <2>4, <2>6
    <2>7. CASE route.interface = i
      <3>1. b # a
        <4> SUFFICES ASSUME b = a PROVE FALSE
          OBVIOUS
        <4>1. a.masklen # Bits
          BY <2>1, <2>2, <2>3, <2>4, <2>7, NetworkDoes
        <4> QED  BY <2>1, <2>2, <2>3, <2>4, <2>5, <2>7, <4>1
      <3> QED  BY <2>1, <2>3, <2>7, <3>1
    <2> QED  BY <2>6, <2>7
  <1>7. ASSUME NEW route \in ApiRoute, AddRoute(route)
        PROVE  Reasoned'
    <2>1. addresses' = addresses /\ Routes' = Routes \cup {route}
      BY <1>7, AddRouteDoes DEF AddRoute
    <2> QED  BY <1>0, <2>1 DEF Reasoned
  <1>8. ASSUME NEW k \in DOMAIN m_networkRoutes, DropRoute(k)
        PROVE  Reasoned'
    <2>1. addresses' = addresses /\ Routes' \subseteq Routes
      BY <1>8, DropRouteDoes DEF DropRoute
    <2> QED  BY <1>0, <2>1 DEF Reasoned
  <1> QED  BY <1>1, <1>2, <1>3, <1>4, <1>5, <1>6, <1>7, <1>8 DEF Next

(* Contains, of a sequence.                                                *)
LEMMA ContainsIs ==
    ASSUME NEW t \in Seq(Entry), NEW route
    PROVE  Contains(t, route) <=> route \in ToSet(t)
  BY DEF Contains, ToSet

(* What is withdrawn when entries go.                                      *)
LEMMA WithdrawnDoes ==
    ASSUME Typed, Typed', NEW i \in Interface, NEW a \in ToSet(addresses'[i]),
           withdrawn' = WithdrawnBy(m_networkRoutes, m_networkRoutes'),
           [interface |-> i, address |-> a] \notin withdrawn',
           Network(i, a) \in Routes
    PROVE  Network(i, a) \in Routes'
  <1> DEFINE w == [interface |-> i, address |-> a]
             W == UNION {[interface : {j}, address : ToSet(addresses'[j])] :
                            j \in Interface}
  <1>1. w \in W
    <2>1. w \in [interface : {i}, address : ToSet(addresses'[i])]
      OBVIOUS
    <2> QED  BY <2>1
  <1>2. w.interface = i /\ w.address = a
    OBVIOUS
  <1> HIDE DEF w, W
  <1>3. WithdrawnBy(m_networkRoutes, m_networkRoutes') =
           {x \in W : \/ x \in withdrawn
                     \/ /\ Contains(m_networkRoutes, Network(x.interface, x.address))
                        /\ ~Contains(m_networkRoutes',
                                     Network(x.interface, x.address))}
    BY DEF WithdrawnBy, W
  <1>4. w \notin withdrawn'
    BY DEF w
  <1>5. ~ /\ Contains(m_networkRoutes, Network(i, a))
          /\ ~Contains(m_networkRoutes', Network(i, a))
    BY <1>1, <1>2, <1>3, <1>4
  <1>6. m_networkRoutes \in Seq(Entry) /\ m_networkRoutes' \in Seq(Entry)
    BY DEF Typed, Table
  <1> QED  BY <1>5, <1>6, ContainsIs DEF Routes

(* What was withdrawn before, too.                                         *)
LEMMA WithdrawnGrows ==
    ASSUME NEW i \in Interface, NEW a \in ToSet(addresses'[i]),
           withdrawn' = WithdrawnBy(m_networkRoutes, m_networkRoutes'),
           [interface |-> i, address |-> a] \in withdrawn
    PROVE  [interface |-> i, address |-> a] \in withdrawn'
  <1> DEFINE w == [interface |-> i, address |-> a]
             W == UNION {[interface : {j}, address : ToSet(addresses'[j])] :
                            j \in Interface}
  <1>1. w \in W
    <2>1. w \in [interface : {i}, address : ToSet(addresses'[i])]
      OBVIOUS
    <2> QED  BY <2>1
  <1>2. w \in withdrawn
    OBVIOUS
  <1> HIDE DEF w, W
  <1>3. WithdrawnBy(m_networkRoutes, m_networkRoutes') =
           {x \in W : \/ x \in withdrawn
                     \/ /\ Contains(m_networkRoutes, Network(x.interface, x.address))
                        /\ ~Contains(m_networkRoutes',
                                     Network(x.interface, x.address))}
    BY DEF WithdrawnBy, W
  <1>4. w \in withdrawn'
    BY <1>1, <1>2, <1>3
  <1> QED  BY <1>4 DEF w

(* A network of an interface that is up is there, or has been withdrawn.   *)
LEMMA KnownStep ==
    ASSUME Typed, Typed', Known, Next
    PROVE  Known'
  <1> DEFINE w(i, a) == [interface |-> i, address |-> a]
  <1>0. scenario' = scenario
    BY DEF Next, Attach, Initialize, SetUp, SetDown, AddAddress, RemoveAddress,
           AddRoute, DropRoute
  <1>1. SUFFICES ASSUME scenario.protocol = "ocs", attached',
                        NEW i \in Interface, NEW a \in ToSet(addresses'[i]),
                        up'[i], a.masklen # Bits, w(i, a) \notin withdrawn'
                 PROVE  Network(i, a) \in Routes'
    BY <1>0 DEF Known
  <1>2. a \in ToSet(addresses[i]) /\ attached /\ up[i] /\ w(i, a) \notin withdrawn
          => Network(i, a) \in Routes
    BY <1>1 DEF Known
  <1>3. addresses'[i] = addresses[i] => Network(i, a) \in Connected(i, addresses[i])
    BY <1>1 DEF Connected, ToSet
  <1> HIDE DEF w
  <1>4. CASE Attach
    <2>1. addresses' = addresses /\ up' = up
      BY <1>4 DEF Attach
    <2> QED  BY <1>1, <1>3, <1>4, <2>1, AttachDoes
  <1>5. CASE Initialize
    <2>1. addresses' = addresses /\ up' = up /\ withdrawn' = withdrawn /\ attached
      BY <1>5 DEF Initialize
    <2> QED  BY <1>1, <1>2, <1>5, <2>1, InitializeDoes
  <1>6. ASSUME NEW j \in Interface, SetUp(j)
        PROVE  Network(i, a) \in Routes'
    <2>1. addresses' = addresses /\ attached
      BY <1>1, <1>6 DEF SetUp
    <2>2. CASE i = j
      BY <1>3, <1>6, <2>1, <2>2, SetUpDoes
    <2>3. CASE i # j
      <3>1. withdrawn' = Fresh(j)
        BY <1>6, <2>1 DEF SetUp
      <3>2. w(i, a) \notin withdrawn
        BY <1>1, <2>3, <3>1 DEF Fresh, w
      <3> QED  BY <1>1, <1>2, <1>6, <2>1, <2>3, <3>2, SetUpDoes
    <2> QED  BY <2>2, <2>3
  <1>7. ASSUME NEW j \in Interface, SetDown(j)
        PROVE  Network(i, a) \in Routes'
    <2>1. addresses' = addresses /\ attached /\ withdrawn' = Fresh(j)
      BY <1>1, <1>7 DEF SetDown
    <2>2. i # j /\ up[i]
      BY <1>1, <1>7, SetDownDoes
    <2>3. w(i, a) \notin withdrawn
      BY <1>1, <2>1, <2>2 DEF Fresh, w
    <2>4. Network(i, a) \in Routes /\ Network(i, a).interface = i
      <3>1. Network(i, a).interface = i
        BY DEF Network, Direct
      <3> QED  BY <1>1, <1>2, <2>1, <2>2, <2>3, <3>1
    <2> QED  BY <1>7, <2>1, <2>2, <2>4, SetDownDoes
  <1>8. ASSUME NEW j \in Interface, NEW b \in scenario.local[j], AddAddress(j, b)
        PROVE  Network(i, a) \in Routes'
    <2>1. up' = up /\ attached
      BY <1>1, <1>8 DEF AddAddress
    <2>2. withdrawn' = {x \in withdrawn :
                          Network(x.interface, x.address) # Network(j, b)}
      BY <1>8, <2>1 DEF AddAddress
    <2>3. CASE Network(i, a) = Network(j, b)
      <3>1. i = j
        BY <2>3 DEF Network, Direct
      <3> QED  BY <1>1, <1>8, <2>1, <2>3, <3>1, AddAddressDoes
    <2>4. CASE Network(i, a) # Network(j, b)
      <3>1. w(i, a) \notin withdrawn
        BY <1>1, <2>2, <2>4 DEF w
      <3>2. i # j \/ a # b
        BY <2>4
      <3>3. a \in ToSet(addresses[i])
        BY <1>1, <1>8, <3>2, AddAddressDoes
      <3> QED  BY <1>1, <1>2, <1>8, <2>1, <3>1, <3>3, AddAddressDoes
    <2> QED  BY <2>3, <2>4
  <1>9. ASSUME NEW j \in Interface, NEW k \in DOMAIN addresses[j],
               RemoveAddress(j, k)
        PROVE  Network(i, a) \in Routes'
    <2>1. /\ up' = up /\ attached
          /\ withdrawn' = WithdrawnBy(m_networkRoutes, m_networkRoutes')
      BY <1>1, <1>9 DEF RemoveAddress
    <2>2. a \in ToSet(addresses[i])
      BY <1>1, <1>9, RemoveAddressStep
    <2>3. w(i, a) \notin withdrawn
      BY <1>1, <2>1, WithdrawnGrows DEF w
    <2>4. Network(i, a) \in Routes
      BY <1>1, <1>2, <2>1, <2>2, <2>3
    <2> QED  BY <1>1, <2>1, <2>4, WithdrawnDoes DEF w
  <1>10. ASSUME NEW route \in ApiRoute, AddRoute(route)
         PROVE  Network(i, a) \in Routes'
    <2>1. addresses' = addresses /\ up' = up /\ withdrawn' = withdrawn /\ attached
      BY <1>1, <1>10 DEF AddRoute
    <2> QED  BY <1>1, <1>2, <1>10, <2>1, AddRouteDoes
  <1>11. ASSUME NEW k \in DOMAIN m_networkRoutes, DropRoute(k)
         PROVE  Network(i, a) \in Routes'
    <2>1. /\ up' = up /\ attached /\ addresses' = addresses
          /\ withdrawn' = WithdrawnBy(m_networkRoutes, m_networkRoutes')
      BY <1>1, <1>11 DEF DropRoute
    <2>3. w(i, a) \notin withdrawn
      BY <1>1, <2>1, WithdrawnGrows DEF w
    <2>4. Network(i, a) \in Routes
      BY <1>1, <1>2, <2>1, <2>3
    <2> QED  BY <1>1, <2>1, <2>4, WithdrawnDoes DEF w
  <1> QED  BY <1>4, <1>5, <1>6, <1>7, <1>8, <1>9, <1>10, <1>11 DEF Next

(* The types are kept.                                                     *)
LEMMA TypedStep ==
    ASSUME Typed, Next
    PROVE  Typed'
  BY AttachDoes, InitializeDoes, SetUpDoes, SetDownDoes, AddAddressDoes,
     RemoveAddressStep, AddRouteDoes, DropRouteDoes DEF Next

(* A node before its routing is attached has an empty table.               *)
LEMMA InvInit ==
    ASSUME Init
    PROVE  IInv
  <1>1. <<>> \in Table /\ ToSet(<<>>) = {}
    BY DEF Table, IsInjective, ToSet
  <1>2. Routes = {}
    BY <1>1 DEF Init, Routes
  <1>3. /\ up \in [Interface -> BOOLEAN]
        /\ addresses \in [Interface -> Seq(LocalAddress)]
        /\ \A i \in Interface : ToSet(addresses[i]) = {}
    BY <1>1 DEF Init
  <1>4. Typed
    BY <1>1, <1>3, NodeAssumption DEF Init, Typed
  <1> QED  BY <1>2, <1>4 DEF IInv, UpOrLate, Reasoned, Known, Init

(* The inductive invariant.                                                *)
THEOREM InvCorrect == Spec => []IInv
  <1>1. Init => IInv
    BY InvInit
  <1>2. IInv /\ [Next]_vars => IInv'
    <2>1. CASE Next
      BY <2>1, TypedStep, UpOrLateStep, ReasonedStep, KnownStep DEF IInv
    <2>2. CASE UNCHANGED vars
      BY <2>2 DEF vars, IInv, Typed, UpOrLate, Reasoned, Known, Routes, ApiRoute,
                  RackRoute, ThroughDown
    <2> QED  BY <2>1, <2>2
  <1> QED  BY <1>1, <1>2, PTL DEF Spec

(* The table holds entries, none of them twice (TypeOK): AddNetworkRouteTo *)
(* looks for the route first, whatever calls come in between.              *)
THEOREM TypeCorrect == Spec => []TypeOK
  <1>1. IInv => TypeOK
    BY DEF IInv, Typed, TypeOK, Table
  <1> QED  BY <1>1, InvCorrect, PTL

(* With an interface go all routes through it, and only a call brings one  *)
(* back while it is down (RoutesGoDown), in whatever order the handlers    *)
(* and the calls come.                                                     *)
THEOREM DownCorrect == Spec => []RoutesGoDown
  <1>1. IInv => RoutesGoDown
    BY DEF IInv, UpOrLate, Routes, RoutesGoDown
  <1> QED  BY <1>1, InvCorrect, PTL

(* An entry of a network has been added by a call, or an address of its    *)
(* interface is in the network (NetworksHaveReason): NotifyRemoveAddress   *)
(* leaves no other.                                                        *)
THEOREM ReasonCorrect == Spec => []NetworksHaveReason
  <1>1. IInv => NetworksHaveReason
    <2> SUFFICES ASSUME IInv, NEW k \in DOMAIN m_networkRoutes,
                        m_networkRoutes[k].masklen # Bits
                 PROVE  HasReason(m_networkRoutes[k])
      BY DEF NetworksHaveReason
    <2>1. m_networkRoutes[k] \in Routes
      BY DEF Routes, ToSet
    <2> QED  BY <2>1 DEF IInv, Reasoned, HasReason, ToSet
  <1> QED  BY <1>1, InvCorrect, PTL

(* A switch reaches the networks of its interfaces that are up, unless     *)
(* their entry was withdrawn (ConnectedNetworksKnown).                     *)
THEOREM KnownCorrect == Spec => []ConnectedNetworksKnown
  <1>1. IInv => ConnectedNetworksKnown
    <2> SUFFICES ASSUME IInv, scenario.protocol = "ocs", attached,
                        NEW i \in Interface, NEW k \in DOMAIN addresses[i],
                        up[i], addresses[i][k].masklen # Bits,
                        [interface |-> i, address |-> addresses[i][k]]
                            \notin withdrawn
                 PROVE  Contains(m_networkRoutes, Network(i, addresses[i][k]))
      BY DEF ConnectedNetworksKnown
    <2>1. Network(i, addresses[i][k]) \in Routes
      BY DEF IInv, Known, ToSet
    <2>2. m_networkRoutes \in Seq(Entry)
      BY DEF IInv, Typed, Table
    <2> QED  BY <2>1, <2>2, ContainsIs DEF Routes
  <1> QED  BY <1>1, InvCorrect, PTL
-------------------------------------------------------------------------------
(* Entry m is the best of the entries in A: its mask is the longest; it is *)
(* the first for a host, or the last of those with the smallest metric.    *)
BestOf(t, A, m) ==
    /\ m \in A /\ \A k \in A : t[k].masklen <= t[m].masklen
    /\ t[m].masklen = Bits =>
          \A k \in A : t[k].masklen = Bits => m <= k
    /\ t[m].masklen # Bits =>
          \A k \in A : t[k].masklen = t[m].masklen =>
              /\ t[m].metric <= t[k].metric
              /\ t[k].metric = t[m].metric => k <= m

(* A null route is no entry.                                               *)
LEMMA NoEntryIsNone == NoEntry \notin Entry
  <1> SUFFICES ASSUME NoEntry \in Entry PROVE FALSE
    OBVIOUS
  <1>1. DOMAIN NoEntry = {"dest"}
    BY DEF NoEntry
  <1>2. "masklen" \in DOMAIN NoEntry
    BY DEF Entry
  <1> QED  BY <1>1, <1>2

(* Of the next entry, too: it replaces the best one so far if it is better. *)
LEMMA ReplacesDoes ==
    ASSUME NEW t \in Seq(Entry), NEW n \in DOMAIN t, NEW A \in SUBSET (1 .. n - 1),
           NEW m \in A, BestOf(t, A, m)
    PROVE  BestOf(t, A \cup {n}, IF Replaces(t[m], t[n]) THEN n ELSE m)
  <1>1. ASSUME NEW k \in A \cup {n}
        PROVE  /\ t[k] \in Entry /\ t[k].masklen \in 0 .. Bits
               /\ t[k].metric \in 0 .. MaxMetric
               /\ k \in 1 .. n /\ (k # n => k < n)
    <2>1. /\ n \in 1 .. Len(t) /\ k \in 1 .. n /\ k \in 1 .. Len(t)
      OBVIOUS
    <2>2. t[k] \in Entry
      BY <2>1
    <2>3. t[k].masklen \in 0 .. Bits /\ t[k].metric \in 0 .. MaxMetric
      BY <2>2 DEF Entry, MaskLength
    <2>4. k # n => k \in 1 .. n - 1
      OBVIOUS
    <2>5. k # n => k < n
      BY <2>1, <2>4
    <2> QED  BY <2>1, <2>2, <2>3, <2>5
  <1>2. t[m] # NoEntry
    BY <1>1, NoEntryIsNone
  <1> DEFINE len(k) == t[k].masklen
             cost(k) == t[k].metric
  <1>3. Bits \in Nat /\ MaxMetric \in Nat
    BY NodeAssumption
  <1>4. Replaces(t[m], t[n]) <=>
           /\ len(m) < Bits
           /\ (len(n) > len(m) \/ (len(n) = len(m) /\ cost(n) <= cost(m)))
    BY <1>2 DEF Replaces
  <1>5. /\ n \in Nat /\ m < n
        /\ \A k \in A : /\ k \in Nat /\ k < n /\ len(k) \in 0 .. Bits
                       /\ cost(k) \in Nat
        /\ len(n) \in 0 .. Bits /\ cost(n) \in Nat
    BY <1>1
  <1>6. /\ \A k \in A : len(k) <= len(m)
        /\ len(m) = Bits => \A k \in A : len(k) = Bits => m <= k
        /\ len(m) # Bits =>
              \A k \in A : len(k) = len(m) =>
                  cost(m) <= cost(k) /\ (cost(k) = cost(m) => k <= m)
    BY DEF BestOf
  <1>7. CASE Replaces(t[m], t[n])
    <2>1. len(m) <= len(n) /\ len(m) # Bits
      BY <1>3, <1>4, <1>5, <1>7
    <2>2. \A k \in A : len(k) <= len(n)
      BY <1>3, <1>5, <1>6, <2>1
    <2>3. ASSUME NEW k \in A, len(k) = len(n)
          PROVE  cost(n) <= cost(k) /\ k <= n
      <3>1. len(n) = len(m)
        BY <1>3, <1>5, <1>6, <2>1, <2>3
      <3>2. cost(n) <= cost(m)
        BY <1>3, <1>4, <1>5, <1>7, <3>1
      <3>3. cost(m) <= cost(k)
        BY <1>6, <2>1, <2>3, <3>1
      <3> QED  BY <1>5, <3>2, <3>3
    <2>4. len(n) = Bits => \A k \in A : len(k) # Bits
      BY <1>3, <1>5, <1>6, <2>1
    <2> HIDE DEF len, cost
    <2>5. /\ \A k \in A \cup {n} : len(k) <= len(n)
          /\ len(n) = Bits => \A k \in A \cup {n} : len(k) = Bits => n <= k
          /\ len(n) # Bits =>
                \A k \in A \cup {n} : len(k) = len(n) =>
                    cost(n) <= cost(k) /\ (cost(k) = cost(n) => k <= n)
      BY <1>3, <1>5, <2>2, <2>3, <2>4
    <2> QED  BY <1>7, <2>5 DEF BestOf, len, cost
  <1>8. CASE ~Replaces(t[m], t[n])
    <2>1. len(n) <= len(m)
      BY <1>3, <1>4, <1>5, <1>8
    <2>2. len(m) # Bits /\ len(n) = len(m) => cost(m) < cost(n)
      BY <1>3, <1>4, <1>5, <1>8
    <2> HIDE DEF len, cost
    <2>3. /\ \A k \in A \cup {n} : len(k) <= len(m)
          /\ len(m) = Bits => \A k \in A \cup {n} : len(k) = Bits => m <= k
          /\ len(m) # Bits =>
                \A k \in A \cup {n} : len(k) = len(m) =>
                    cost(m) <= cost(k) /\ (cost(k) = cost(m) => k <= m)
      BY <1>3, <1>5, <1>6, <2>1, <2>2
    <2> QED  BY <1>8, <2>3 DEF BestOf, len, cost
  <1> QED  BY <1>7, <1>8

(* What the loop of LookupOcs ends with.                                   *)
LEMMA LookupDoes ==
    ASSUME NEW t \in Seq(Entry), NEW dest, NEW oif
    PROVE  LET A == {k \in DOMAIN t : Applies(t[k], dest, oif)} IN
           \/ A = {} /\ Lookup(t, dest, oif) = NoEntry
           \/ \E m \in A : BestOf(t, A, m) /\ Lookup(t, dest, oif) = t[m]
  <1> DEFINE M == Len(t)
             Upto(n) == {k \in 1 .. n : Applies(t[k], dest, oif)}
             Good(n, best) ==
                \/ Upto(n) = {} /\ best = NoEntry
                \/ \E m \in Upto(n) : BestOf(t, Upto(n), m) /\ best = t[m]
  <1>0. M \in Nat /\ DOMAIN t = 1 .. M
    BY LenProperties
  <1>1. PICK f : /\ f[0] = NoEntry /\ f[M] = Lookup(t, dest, oif)
                 /\ \A n \in 1 .. M :
                       f[n] = IF Applies(t[n], dest, oif) /\ Replaces(f[n - 1], t[n])
                              THEN t[n] ELSE f[n - 1]
    BY LookupSteps
  <1> DEFINE S == {n \in 0 .. M : Good(n, f[n])}
  <1> HIDE DEF M
  <1>2. 0 \in S
    <2>1. Upto(0) = {} /\ 0 \in 0 .. M
      BY <1>0
    <2> QED  BY <1>1, <2>1
  <1>3. ASSUME NEW n \in 0 .. M - 1, n \in S
        PROVE  n + 1 \in S
    <2> DEFINE l == n + 1
    <2>1. /\ l \in 1 .. M /\ l \in 0 .. M /\ l - 1 = n
          /\ l \in DOMAIN t /\ Good(n, f[n])
      BY <1>0, <1>3
    <2>2. 1 .. l = (1 .. n) \cup {l} /\ l \notin 1 .. n
      BY <1>0
    <2>3. Upto(n) \in SUBSET (1 .. l - 1)
      BY <2>1
    <2> HIDE DEF l
    <2>4. f[l] = IF Applies(t[l], dest, oif) /\ Replaces(f[n], t[l])
                 THEN t[l] ELSE f[n]
      BY <1>1, <2>1
    <2>5. CASE ~Applies(t[l], dest, oif)
      <3>1. Upto(l) = Upto(n) /\ f[l] = f[n]
        BY <2>2, <2>4, <2>5
      <3>2. Good(l, f[l])
        BY <2>1, <3>1
      <3> QED  BY <2>1, <3>2 DEF l
    <2>6. CASE Applies(t[l], dest, oif)
      <3>1. Upto(l) = Upto(n) \cup {l}
        BY <2>2, <2>6
      <3>2. CASE Upto(n) = {} /\ f[n] = NoEntry
        <4>1. Upto(l) = {l} /\ f[l] = t[l]
          BY <2>4, <2>6, <3>1, <3>2 DEF Replaces
        <4>2. t[l].masklen \in 0 .. Bits /\ t[l].metric \in 0 .. MaxMetric
              /\ Bits \in Nat /\ MaxMetric \in Nat
          <5>1. t[l] \in Entry
            BY <2>1
          <5> QED  BY <5>1, NodeAssumption DEF Entry, MaskLength
        <4>3. BestOf(t, {l}, l)
          BY <2>1, <4>2 DEF BestOf
        <4> HIDE DEF Upto
        <4>4. Good(l, f[l])
          BY <4>1, <4>3
        <4> QED  BY <2>1, <4>4 DEF l
      <3>3. ASSUME NEW m \in Upto(n), BestOf(t, Upto(n), m), f[n] = t[m]
            PROVE  l \in S
        <4> DEFINE j == IF Replaces(t[m], t[l]) THEN l ELSE m
        <4> HIDE DEF Upto
        <4>1. BestOf(t, Upto(l), j)
          BY <2>1, <2>3, <3>1, <3>3, ReplacesDoes
        <4>2. f[l] = t[j] /\ j \in Upto(l)
          BY <2>4, <2>6, <3>1, <3>3
        <4> HIDE DEF j
        <4>3. Good(l, f[l])
          BY <4>1, <4>2
        <4> QED  BY <2>1, <4>3
      <3> QED  BY <2>1, <3>2, <3>3 DEF l
    <2> QED  BY <2>5, <2>6
  <1>4. Upto(M) = {k \in DOMAIN t : Applies(t[k], dest, oif)}
    BY <1>0
  <1> HIDE DEF S
  <1>5. 0 .. M \subseteq S
    BY <1>0, <1>2, <1>3, SetInduction
  <1>6. Good(M, f[M])
    <2>1. M \in S
      BY <1>0, <1>5
    <2> QED  BY <2>1 DEF S
  <1> QED  BY <1>1, <1>4, <1>6

(* The best of the entries that apply is what Best defines.                *)
LEMMA BestIs ==
    ASSUME NEW t \in Seq(Entry), NEW dest, NEW oif, NEW m,
           BestOf(t, {k \in DOMAIN t : Applies(t[k], dest, oif)}, m)
    PROVE  Best(t, dest, oif) = t[m]
  <1> DEFINE A == {k \in DOMAIN t : Applies(t[k], dest, oif)}
             longest == {k \in A : \A j \in A : t[j].masklen <= t[k].masklen}
             cheapest == {k \in longest :
                            \A j \in longest : t[k].metric <= t[j].metric}
  <1>1. A \subseteq DOMAIN t /\ DOMAIN t = 1 .. Len(t) /\ Len(t) \in Nat
    BY LenProperties
  <1>2. Best(t, dest, oif) =
           CASE A = {} -> NoEntry
             [] \E k \in longest : t[k].masklen = Bits -> t[Min(longest)]
             [] OTHER -> t[Max(cheapest)]
    BY DEF Best
  <1> HIDE DEF A
  <1>3. /\ m \in A /\ \A k \in A : t[k].masklen <= t[m].masklen
        /\ t[m].masklen = Bits =>
              \A k \in A : t[k].masklen = Bits => m <= k
        /\ t[m].masklen # Bits =>
              \A k \in A : t[k].masklen = t[m].masklen =>
                  /\ t[m].metric <= t[k].metric
                  /\ t[k].metric = t[m].metric => k <= m
    BY DEF BestOf, A
  <1>4. ASSUME NEW k \in A
        PROVE  t[k].masklen \in 0 .. Bits /\ t[k].metric \in 0 .. MaxMetric /\ k \in Nat
    <2>1. t[k] \in Entry /\ k \in 1 .. Len(t)
      BY <1>1
    <2> QED  BY <1>1, <2>1 DEF Entry, MaskLength
  <1>5. Bits \in Nat /\ MaxMetric \in Nat
    BY NodeAssumption
  <1>6. m \in longest /\ \A k \in longest : k \in A /\ t[k].masklen = t[m].masklen
    BY <1>3, <1>4, <1>5
  <1>7. CASE t[m].masklen = Bits
    <2>1. \A k \in longest : m <= k
      BY <1>3, <1>6, <1>7
    <2>2. \A x \in longest : (\A y \in longest : x <= y) => x = m
      BY <1>4, <1>6, <2>1
    <2> HIDE DEF longest
    <2>3. Min(longest) = m
      BY <1>6, <2>1, <2>2 DEF Min
    <2>4. A # {} /\ \E k \in longest : t[k].masklen = Bits
      BY <1>3, <1>6, <1>7
    <2> HIDE DEF cheapest
    <2>5. (CASE A = {} -> NoEntry
            [] \E k \in longest : t[k].masklen = Bits -> t[Min(longest)]
            [] OTHER -> t[Max(cheapest)]) = t[Min(longest)]
      BY <2>4
    <2> QED  BY <1>2, <2>3, <2>5
  <1>8. CASE t[m].masklen # Bits
    <2>1. m \in cheapest /\ \A k \in cheapest : k \in longest /\ k <= m
      <3>1. m \in cheapest
        BY <1>3, <1>6, <1>8
      <3>2. ASSUME NEW k \in cheapest
            PROVE  k \in longest /\ k <= m
        <4>1. k \in longest /\ t[k].metric <= t[m].metric
          BY <1>6
        <4>2. t[m].metric <= t[k].metric
          BY <1>3, <1>6, <1>8, <4>1
        <4>3. t[k].metric = t[m].metric
          BY <1>3, <1>4, <1>5, <1>6, <4>1, <4>2
        <4> QED  BY <1>3, <1>6, <1>8, <4>1, <4>3
      <3> QED  BY <3>1, <3>2
    <2>2. ~ \E k \in longest : t[k].masklen = Bits
      BY <1>6, <1>8
    <2>3. A # {}
      BY <1>3
    <2> HIDE DEF longest
    <2>4. \A k \in cheapest : m >= k /\ k \in Nat
      BY <1>4, <1>6, <2>1
    <2> HIDE DEF cheapest
    <2>5. \A x \in cheapest : (\A y \in cheapest : x >= y) => x = m
      BY <2>1, <2>4
    <2>6. Max(cheapest) = m
      BY <2>1, <2>4, <2>5 DEF Max
    <2>7. (CASE A = {} -> NoEntry
            [] \E k \in longest : t[k].masklen = Bits -> t[Min(longest)]
            [] OTHER -> t[Max(cheapest)]) = t[Max(cheapest)]
      BY <2>2, <2>3
    <2> QED  BY <1>2, <2>6, <2>7
  <1> QED  BY <1>7, <1>8

(* The one pass of LookupOcs finds the best entry, for every destination,  *)
(* with and without an output device (LookupFindsBest).                    *)
THEOREM LookupCorrect == Spec => []LookupFindsBest
  <1>1. IInv => LookupFindsBest
    <2> SUFFICES ASSUME IInv, NEW dest \in Addr,
                        NEW oif \in Interface \cup {AnyInterface}
                 PROVE  Lookup(m_networkRoutes, dest, oif)
                            = Best(m_networkRoutes, dest, oif)
      BY DEF LookupFindsBest
    <2>1. m_networkRoutes \in Seq(Entry)
      BY DEF IInv, Typed, Table
    <2> DEFINE A == {k \in DOMAIN m_networkRoutes :
                        Applies(m_networkRoutes[k], dest, oif)}
    <2>2. CASE A = {} /\ Lookup(m_networkRoutes, dest, oif) = NoEntry
      BY <2>2 DEF Best
    <2>3. CASE \E m \in A : /\ BestOf(m_networkRoutes, A, m)
                           /\ Lookup(m_networkRoutes, dest, oif) = m_networkRoutes[m]
      BY <2>1, <2>3, BestIs
    <2> QED  BY <2>1, <2>2, <2>3, LookupDoes
  <1> QED  BY <1>1, InvCorrect, PTL
-------------------------------------------------------------------------------
(* The networks of a node, and its table once its routes have been added:  *)
(* the networks first, then the racks, all of them.                        *)
Nets == {Network(i, a) : i \in Interface, a \in LocalAddress}
OwnNets ==
    {route \in Nets : \E i \in Interface : \E a \in scenario.local[i] :
                         route = Network(i, a)}
RacksLast(n) ==
    /\ n \in 0 .. Len(m_networkRoutes)
    /\ \A k \in 1 .. n : m_networkRoutes[k] \in OwnNets
    /\ \A k \in n + 1 .. Len(m_networkRoutes) :
          m_networkRoutes[k] \in ToSet(RackRoute)
    /\ ToSet(RackRoute) \subseteq Routes

Built ==
    ~scenario.live =>
        /\ Planned(scenario)
        /\ ~initialized => Routes \subseteq OwnNets
        /\ initialized => attached /\ \E n \in Nat : RacksLast(n)

(* The networks an interface connects are the node's own.                  *)
LEMMA ConnectedOwn ==
    ASSUME Typed, NEW i \in Interface
    PROVE  Connected(i, addresses[i]) \subseteq OwnNets
  <1> SUFFICES ASSUME NEW route \in Connected(i, addresses[i])
               PROVE  route \in OwnNets
    OBVIOUS
  <1>1. PICK a \in ToSet(addresses[i]) : route = Network(i, a)
    BY RoutesDo
  <1>2. a \in scenario.local[i] /\ a \in LocalAddress
    BY <1>1, ScenarioDoes DEF Typed
  <1> QED  BY <1>1, <1>2 DEF OwnNets, Nets

(* Once attached, only Initialize changes the table.                       *)
LEMMA BuiltStep ==
    ASSUME Typed, Typed', Built, Next
    PROVE  Built'
  <1>0. /\ scenario' = scenario
        /\ RackRoute' = RackRoute /\ OwnNets' = OwnNets
    BY DEF Next, Attach, Initialize, SetUp, SetDown, AddAddress, RemoveAddress,
           AddRoute, DropRoute, RackRoute, OwnNets
  <1>1. SUFFICES ASSUME ~scenario.live
                 PROVE  Built'
    BY <1>0 DEF Built
  <1>2. CASE Attach
    <2>1. ~initialized /\ initialized' = initialized
      BY <1>2 DEF Attach, Typed
    <2>2. /\ Routes = {}
          /\ Routes' \subseteq Routes \cup
                 UNION {Connected(i, addresses[i]) : i \in Interface}
      <3>1. m_networkRoutes = <<>> /\ ToSet(<<>>) = {}
        BY <1>1, <1>2 DEF Attach, Typed, ToSet
      <3> QED  BY <1>2, <3>1, AttachDoes, ScenarioDoes DEF Typed, Routes
    <2>3. Routes' \subseteq OwnNets
      BY <2>2, ConnectedOwn
    <2> QED  BY <1>0, <2>1, <2>3 DEF Built
  <1>3. CASE Initialize
    <2> DEFINE t == m_networkRoutes
    <2>1. t \in Table /\ RackRoute \in Seq(Entry)
      BY ScenarioDoes DEF Typed
    <2>2. /\ initialized' /\ attached' /\ ~initialized
          /\ m_networkRoutes' = AddRoutes(t, RackRoute)
      BY <1>3 DEF Initialize
    <2>3. /\ m_networkRoutes' \in Table
          /\ ToSet(m_networkRoutes') = ToSet(t) \cup ToSet(RackRoute)
          /\ Extends(t, m_networkRoutes')
          /\ \A k \in Len(t) + 1 .. Len(m_networkRoutes') :
                m_networkRoutes'[k] \in ToSet(RackRoute)
      BY <2>1, <2>2, AddRoutesDoes
    <2>4. PICK n \in Nat : n = Len(t) /\ DOMAIN t = 1 .. n
      BY <2>1, LenProperties DEF Table
    <2>5. \A k \in 1 .. n : t[k] \in OwnNets
      BY <1>1, <2>2, <2>4 DEF Built, Routes, ToSet
    <2>6. RacksLast(n)'
      <3>1. n \in 0 .. Len(m_networkRoutes')
        <4>1. Len(m_networkRoutes') \in Nat
          BY <2>3, LenProperties DEF Table
        <4> QED  BY <2>3, <2>4, <4>1 DEF Extends
      <3>2. \A k \in 1 .. n : m_networkRoutes'[k] \in OwnNets'
        BY <1>0, <2>3, <2>4, <2>5 DEF Extends
      <3> QED  BY <1>0, <2>3, <2>4, <3>1, <3>2 DEF RacksLast, Routes
    <2> QED  BY <1>0, <1>1, <2>2, <2>4, <2>6 DEF Built
  <1>4. ASSUME NEW i \in Interface, SetUp(i) \/ SetDown(i)
        PROVE  Built'
    <2>1. ~attached /\ m_networkRoutes' = m_networkRoutes
          /\ initialized' = initialized
      BY <1>1, <1>4 DEF SetUp, SetDown, Changeable
    <2> QED  BY <1>0, <1>1, <2>1 DEF Built, Typed, Routes
  <1>5. ASSUME NEW i \in Interface, NEW a, AddAddress(i, a) \/ RemoveAddress(i, a)
        PROVE  Built'
    <2>1. ~attached /\ m_networkRoutes' = m_networkRoutes
          /\ initialized' = initialized
      BY <1>1, <1>5 DEF AddAddress, RemoveAddress, Changeable
    <2> QED  BY <1>0, <1>1, <2>1 DEF Built, Typed, Routes
  <1> QED  BY <1>1, <1>2, <1>3, <1>4, <1>5 DEF Next, AddRoute, DropRoute

(* The entry of a rack is the best for every destination in the rack: the  *)
(* networks before it have no longer a mask, and no other rack applies.    *)
LEMMA RackIsBest ==
    ASSUME Typed, ~scenario.live, Planned(scenario), NEW n \in Nat, RacksLast(n),
           NEW j \in DOMAIN RackRoute, NEW dest \in Addr,
           Applies(RackRoute[j], dest, AnyInterface)
    PROVE  \E p \in DOMAIN m_networkRoutes :
              /\ m_networkRoutes[p] = RackRoute[j]
              /\ BestOf(m_networkRoutes,
                        {k \in DOMAIN m_networkRoutes :
                            Applies(m_networkRoutes[k], dest, AnyInterface)}, p)
  <1> DEFINE t == m_networkRoutes
             rack == RackRoute[j]
             A == {k \in DOMAIN t : Applies(t[k], dest, AnyInterface)}
  <1>1. t \in Seq(Entry) /\ IsInjective(t)
    BY DEF Typed, Table
  <1>2. Len(t) \in Nat /\ DOMAIN t = 1 .. Len(t)
    BY <1>1, LenProperties
  <1>3. /\ rack.masklen # Bits /\ rack.metric = 0
        /\ \A m \in DOMAIN RackRoute \ {j} : ~Overlap(rack, RackRoute[m])
        /\ \A i \in Interface : \A a \in scenario.local[i] :
              /\ rack # Network(i, a)
              /\ Overlap(rack, Network(i, a)) => a.masklen <= rack.masklen
    BY DEF Planned, RackRoute
  <1> HIDE DEF t, rack
  <1>4. PICK p \in DOMAIN t : t[p] = rack
    <2>1. rack \in ToSet(t)
      BY DEF RacksLast, Routes, ToSet, t, rack
    <2> QED  BY <2>1 DEF ToSet
  <1>5. p > n
    <2> SUFFICES ASSUME p <= n PROVE FALSE
      BY <1>2
    <2>1. t[p] \in OwnNets
      BY <1>2 DEF RacksLast, t
    <2> QED  BY <1>3, <1>4, <2>1 DEF OwnNets
  <1>6. ASSUME NEW k \in DOMAIN t
        PROVE  t[k] \in Entry /\ t[k].metric \in Nat /\ t[k].masklen \in Nat
    <2>1. t[k] \in Entry
      BY <1>1, <1>2, ElementOfSeq
    <2> QED  BY <2>1, NodeAssumption DEF Entry, MaskLength
  <1>7. ASSUME NEW k \in A, k # p
        PROVE  k < p /\ t[k].masklen <= rack.masklen
    <2>1. Overlap(rack, t[k])
      BY <1>7 DEF Overlap, rack
    <2>2. CASE k <= n
      <3>1. t[k] \in OwnNets
        BY <1>2, <2>2 DEF RacksLast, t
      <3>2. PICK i \in Interface : \E a \in scenario.local[i] : t[k] = Network(i, a)
        BY <3>1 DEF OwnNets
      <3>3. PICK a \in scenario.local[i] : t[k] = Network(i, a)
        BY <3>2
      <3>4. t[k].masklen = a.masklen
        BY <3>3 DEF Network, Direct
      <3>5. a.masklen <= rack.masklen
        BY <1>3, <2>1, <3>3
      <3> QED  BY <1>2, <1>5, <2>2, <3>4, <3>5
    <2>3. CASE k > n
      <3>1. t[k] \in ToSet(RackRoute)
        BY <1>2, <2>3 DEF RacksLast, t
      <3>2. PICK m \in DOMAIN RackRoute : t[k] = RackRoute[m]
        BY <3>1 DEF ToSet
      <3>3. m = j
        BY <1>3, <2>1, <3>2
      <3>4. t[k] = t[p]
        BY <1>4, <3>2, <3>3 DEF rack
      <3> QED  BY <1>1, <1>7, <3>4 DEF IsInjective
    <2> QED  BY <1>2, <2>2, <2>3
  <1>8. p \in A
    BY <1>4 DEF rack
  <1>9. BestOf(t, A, p)
    <2>1. \A k \in A : k \in DOMAIN t /\ k \in Nat
      BY <1>2
    <2>2. ASSUME NEW k \in A
          PROVE  /\ t[k].masklen <= t[p].masklen /\ k <= p
                 /\ t[p].metric <= t[k].metric
      <3>1. CASE k = p
        BY <1>6, <1>8, <2>1, <3>1
      <3>2. CASE k # p
        <4>1. k < p /\ t[k].masklen <= t[p].masklen
          BY <1>4, <1>7, <3>2
        <4>2. t[p].metric = 0 /\ t[k].metric \in Nat
          BY <1>3, <1>4, <1>6
        <4> QED  BY <1>2, <2>1, <4>1, <4>2
      <3> QED  BY <3>1, <3>2
    <2>3. t[p].masklen # Bits
      BY <1>3, <1>4
    <2> HIDE DEF A
    <2> QED  BY <1>8, <2>2, <2>3 DEF BestOf
  <1> QED  BY <1>4, <1>9 DEF t, rack

(* Every destination in another rack finds the entry of that rack          *)
(* (RacksFound), at a switch and a ToR built as the drivers do.            *)
THEOREM RacksCorrect == Spec => []RacksFound
  <1>1. Init => Built
    <2>1. ASSUME Init
          PROVE  Routes = {}
      BY <2>1 DEF Init, Routes, ToSet
    <2> QED  BY <2>1, PlanAssumption DEF Init, Built
  <1>2. IInv /\ IInv' /\ Built /\ [Next]_vars => Built'
    <2>1. ASSUME IInv, IInv', Built, Next
          PROVE  Built'
      BY <2>1, BuiltStep DEF IInv
    <2>2. CASE UNCHANGED vars
      BY <2>2 DEF vars, Built, Routes, OwnNets, RacksLast, RackRoute
    <2> QED  BY <2>1, <2>2
  <1>3. IInv /\ Built => RacksFound
    <2> SUFFICES ASSUME IInv, Built, initialized, ~scenario.live,
                        NEW j \in DOMAIN RackRoute, NEW dest \in Addr,
                        IsMatch(dest, RackRoute[j].dest, RackRoute[j].masklen)
                 PROVE  Lookup(m_networkRoutes, dest, AnyInterface) = RackRoute[j]
      BY DEF RacksFound
    <2> DEFINE t == m_networkRoutes
               A == {k \in DOMAIN t : Applies(t[k], dest, AnyInterface)}
    <2>1. Typed /\ t \in Seq(Entry)
      BY DEF IInv, Typed, Table
    <2>2. Applies(RackRoute[j], dest, AnyInterface)
      BY DEF Applies
    <2>3. PICK n \in Nat : RacksLast(n)
      BY DEF Built
    <2>4. PICK p \in DOMAIN t : t[p] = RackRoute[j] /\ BestOf(t, A, p)
      BY <2>1, <2>2, <2>3, RackIsBest DEF Built
    <2>5. Best(t, dest, AnyInterface) = RackRoute[j]
      BY <2>1, <2>4, BestIs
    <2>6. A # {}
      BY <2>4 DEF BestOf
    <2>7. PICK m \in A : BestOf(t, A, m) /\ Lookup(t, dest, AnyInterface) = t[m]
      BY <2>1, <2>6, LookupDoes
    <2>8. Best(t, dest, AnyInterface) = t[m]
      BY <2>1, <2>7, BestIs
    <2> QED  BY <2>5, <2>7, <2>8
  <1> QED  BY <1>1, <1>2, <1>3, InvCorrect, PTL DEF Spec
===============================================================================
