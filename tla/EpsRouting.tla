------------------------------- MODULE EpsRouting -------------------------------
(***************************************************************************)
(* The routing of one ToR for traffic that leaves its rack                 *)
(* (Ipv4EpsRouting::RouteInput): which flows are elephants, and which of   *)
(* their packets take the optical path, take the electrical one, or are    *)
(* dropped.                                                                *)
(*                                                                         *)
(* The rotor enters through one fact, OcsSchedule!WindowIsNextDays: a      *)
(* destination at distance d is reachable (d - current) days from now, its *)
(* slot is in the window if that is less than Q and works today if it is   *)
(* 0.  The length of a device queue is left open.                          *)
(*                                                                         *)
(* Times are ages in ticks.  An age that no comparison can tell from an    *)
(* older one stops growing; the counters of a flow do so at SentCap.       *)
(* SYN packets, downward traffic and packets without ports change nothing  *)
(* and are left out.                                                       *)
(***************************************************************************)
EXTENDS Integers, Functions, FiniteSetsExt

CONSTANTS
    N, Q,           \* as in OcsSchedule
    Key,            \* values of Flow::HashPacket
    Packet,         \* [key, dst: distance of the ToR, udp: BOOLEAN]
    rownum, Cell,   \* the Count-Min sketch: rows and cells of a row
    Column,         \* the cell of a key in the first row: hashv % colnum
    ElephantThresh, \* elephantthresh
    SSThresh,       \* ssthresh, a flow's initial_warmup_thresh
    SentThresh,     \* sentp_thresh
    Cycle,          \* ticks of a day and a night
    LossTimeout,    \* 0.000520 s, two cycles
    IdleTimeout,    \* 0.000520*50 s
    Strategies,     \* the BypassStrategy values to consider
    MaxInserts      \* bound: packets counted by the sketch

ASSUME RoutingAssumption ==
    /\ N \in Nat /\ Q \in Nat /\ 1 <= Q /\ Q <= N - 1
    /\ Packet \subseteq [key : Key, dst : 1 .. N - 1, udp : BOOLEAN]
    /\ rownum \in Nat \ {0} /\ Column \in [Key -> Cell] /\ IsFiniteSet(Key)
    /\ ElephantThresh \in Nat /\ SSThresh \in Nat /\ SentThresh \in Nat
    /\ Cycle \in Nat \ {0} /\ LossTimeout \in Nat /\ IdleTimeout \in Nat
    /\ Strategies \subseteq {"nobypass", "randomize", "cwndbased", "pktonly"}
    /\ MaxInserts \in Nat

Row == 0 .. rownum - 1

None == -1      \* droptime 0, "not dropped"; no streak
SentCap == Max({2 * SSThresh, SentThresh})

(* An age after one more tick; beyond `limit` they are all alike.          *)
Older(age, limit) ==
    IF age = None THEN None ELSE IF age > limit THEN age ELSE age + 1

FlowState ==
    [enqueued : BOOLEAN,
     sentp : 0 .. SentCap, prev_sent : 0 .. SentCap,
     warmup_thresh : {SSThresh, 2 * SSThresh},
     lostflag : BOOLEAN,
     droptime : None .. LossTimeout + 1,    \* age of the first drop
     accurancetime : 0 .. IdleTimeout + 1]  \* age of the last packet

VARIABLES
    current,        \* the interval of today's matching
    phase,          \* ticks since the last BeginConfig
    m_bypass,       \* the strategy, fixed at the start
    sketch,         \* the Count-Min sketch
    all_upflows,    \* the elephants, by key
    inserted,       \* history: packets of each key the sketch has counted
    early,          \* history: packets queued for a later day since the
                    \* flow's last drop
    streak          \* history: age of the first of the drops in a row

vars == <<current, phase, m_bypass, sketch, all_upflows, inserted, early,
          streak>>
-------------------------------------------------------------------------------
DaysAhead(d) == IF d >= current THEN d - current ELSE d - current + N - 1
InWindow(d) == DaysAhead(d) < Q
WorksToday(d) == DaysAhead(d) = 0

(* The cells a packet of key k may fall into, one of each row.  Those of   *)
(* the first row are fixed.  The others come from two Hashers, which are   *)
(* never cleared: they hash all keys inserted so far, so that a packet     *)
(* falls into any cell, whatever cells the last one of its flow had.       *)
Cells(k) == {cells \in [Row -> Cell] : cells[0] = Column[k]}

(* Count_MinSketch::Insert_and_Get, in two parts.                          *)
Insert(s, cells) == [r \in Row |-> [s[r] EXCEPT ![cells[r]] = @ + 1]]
EstimateLargest(s, cells) == Max({s[r][cells[r]] : r \in Row})
Estimate(s, cells) == Min({s[r][cells[r]] : r \in Row})

IsElephant(estimate) == estimate > ElephantThresh

(* The constructor of Flow, which leaves `enqueued` uninitialised.         *)
NewFlow(garbage) ==
    [enqueued |-> garbage, sentp |-> 0, prev_sent |-> 0,
     warmup_thresh |-> SSThresh, lostflag |-> TRUE, droptime |-> None,
     accurancetime |-> 0]

ReceiveSequence(f) ==
    [f EXCEPT !.sentp = IF @ < SentCap THEN @ + 1 ELSE @]

(* Flow::DropPacket.  Only the first drop after a packet was sent sets the *)
(* time and the count the next warm-up depends on.                         *)
DropPacketUnprotected(f) ==
    [f EXCEPT !.enqueued = FALSE, !.prev_sent = f.sentp, !.sentp = 0,
              !.droptime = 0,
              !.warmup_thresh =
                  IF f.sentp < SentThresh THEN 2 * SSThresh ELSE SSThresh]
DropPacketDoubles(f) ==
    LET prev == IF f.sentp # 0 THEN f.sentp ELSE f.prev_sent IN
    [f EXCEPT !.enqueued = FALSE, !.prev_sent = prev, !.sentp = 0,
              !.droptime = IF f.sentp # 0 THEN 0 ELSE @,
              !.warmup_thresh = IF prev < SentThresh THEN 2 * @ ELSE SSThresh]
DropPacket(f) ==
    LET prev == IF f.sentp # 0 THEN f.sentp ELSE f.prev_sent IN
    [f EXCEPT !.enqueued = FALSE, !.prev_sent = prev, !.sentp = 0,
              !.droptime = IF f.sentp # 0 THEN 0 ELSE @,
              !.warmup_thresh =
                  IF prev < SentThresh THEN 2 * SSThresh ELSE SSThresh]

Choice(f, way) == [flow |-> f, way |-> way]

(* The end of RouteInput: the packet takes the optical path.               *)
Forward(f) ==
    Choice([ReceiveSequence(f) EXCEPT !.lostflag = FALSE, !.droptime = None],
           "optical")

(* The destination has no slot.                                            *)
Unreachable(f) ==
    IF f.lostflag THEN Choice(f, "electrical")
    ELSE IF f.droptime # None /\ f.droptime >= LossTimeout
    THEN Choice([f EXCEPT !.lostflag = TRUE], "electrical")
    ELSE Choice(DropPacket(f), "drop")

(* The destination has a slot, but for a later day: with room in its queue *)
(* and no packet of the flow in it, the strategy decides.                  *)
AheadForgets(f, udp) ==
    LET g == [f EXCEPT !.lostflag = FALSE] IN
    {Choice(g, "electrical"), Forward(g)}
Ahead(f, udp) ==
    LET g == [f EXCEPT !.lostflag = FALSE]
        warming == m_bypass = "cwndbased" /\ ~udp /\ g.sentp < g.warmup_thresh
    IN
    {Choice(g, "electrical")} \cup
    IF g.enqueued THEN {}
    ELSE IF warming THEN {Choice(ReceiveSequence(g), "electrical")}
    ELSE {Forward([g EXCEPT !.enqueued = TRUE])}

(* What RouteInput may do with a packet of a known flow.  An untagged one  *)
(* (an acknowledgement) stays electrical.                                  *)
Decide(f, p, tagged) ==
    IF ~tagged THEN {Choice(f, "electrical")}
    ELSE IF ~InWindow(p.dst) THEN {Unreachable(f)}
    ELSE IF WorksToday(p.dst) THEN {Forward(f)}
    ELSE Ahead(f, p.udp)
-------------------------------------------------------------------------------
Init ==
    /\ current = 1
    /\ phase = 0
    /\ m_bypass \in Strategies
    /\ sketch = [r \in Row |-> [c \in Cell |-> 0]]
    /\ all_upflows = [k \in {} |-> NewFlow(FALSE)]
    /\ inserted = [k \in Key |-> 0]
    /\ early = [k \in Key |-> 0]
    /\ streak = [k \in Key |-> None]

Known(k) == k \in DOMAIN all_upflows

(* The packet of an unknown flow is counted.                               *)
Total(counts) == MapThenSumSet(LAMBDA x : counts[x], Key)
Count(k, cells) ==
    /\ Total(inserted) < MaxInserts
    /\ sketch' = Insert(sketch, cells)
    /\ inserted' = [inserted EXCEPT ![k] = @ + 1]

(* It remains a mouse and stays electrical.                                *)
RouteMouse(p) ==
    /\ m_bypass # "pktonly"
    /\ ~Known(p.key)
    /\ \E cells \in Cells(p.key) :
          Count(p.key, cells) /\ ~IsElephant(Estimate(sketch', cells))
    /\ UNCHANGED <<current, phase, m_bypass, all_upflows, early, streak>>

(* The flow state f, known or new, decides about the packet.               *)
RouteFlow(p, f) ==
    \E tagged \in BOOLEAN :
    \E c \in Decide([f EXCEPT !.accurancetime = 0], p, tagged) :
       /\ all_upflows' =
              [k \in DOMAIN all_upflows \cup {p.key} |->
                 IF k = p.key THEN c.flow ELSE all_upflows[k]]
       /\ early' = [early EXCEPT ![p.key] =
             CASE c.way = "drop" -> 0
               [] c.way = "optical" /\ ~WorksToday(p.dst) -> @ + 1
               [] OTHER -> @]
       /\ streak' = [streak EXCEPT ![p.key] =
             IF c.way # "drop" THEN None ELSE IF @ = None THEN 0 ELSE @]
       /\ UNCHANGED <<current, phase, m_bypass>>

(* AddUpFlow.  Its limit of 80 flows is per route object, and LookupEps    *)
(* returns a new one for every packet: it never applies.                   *)
RouteNewElephant(p) ==
    /\ m_bypass # "pktonly"
    /\ ~Known(p.key)
    /\ \E cells \in Cells(p.key) :
          Count(p.key, cells) /\ IsElephant(Estimate(sketch', cells))
    /\ \E garbage \in BOOLEAN : RouteFlow(p, NewFlow(garbage))

RouteElephant(p) ==
    /\ m_bypass # "pktonly"
    /\ Known(p.key)
    /\ RouteFlow(p, all_upflows[p.key])
    /\ UNCHANGED <<sketch, inserted>>

(* Time passes.  At the end of a cycle BeginConfig moves the window on and *)
(* erases the flows that were silent (EraseFlow).                          *)
Aged(f) ==
    [f EXCEPT !.droptime = Older(@, LossTimeout),
              !.accurancetime = Older(@, IdleTimeout)]
BeginConfig(flows) ==
    /\ current' = IF current = N - 1 THEN 1 ELSE current + 1
    /\ all_upflows' =
           Restrict(flows,
                    {k \in DOMAIN flows :
                        flows[k].accurancetime <= IdleTimeout})
Tick ==
    LET flows == [k \in DOMAIN all_upflows |-> Aged(all_upflows[k])] IN
    /\ phase' = (phase + 1) % Cycle
    /\ \/ phase' = 0 /\ BeginConfig(flows)
       \/ phase' # 0 /\ all_upflows' = flows /\ UNCHANGED current
    /\ early' = [k \in Key |-> IF k \in DOMAIN all_upflows' THEN early[k] ELSE 0]
    /\ streak' = [k \in Key |-> IF k \in DOMAIN all_upflows'
                                THEN Older(streak[k], LossTimeout) ELSE None]
    /\ UNCHANGED <<m_bypass, sketch, inserted>>

Next ==
    \/ Tick
    \/ \E p \in Packet :
           RouteMouse(p) \/ RouteNewElephant(p) \/ RouteElephant(p)

Spec == Init /\ [][Next]_vars
-------------------------------------------------------------------------------
(* Types of the window, the sketch and the flow table.                     *)
TypeOK ==
    /\ current \in 1 .. N - 1 /\ phase \in 0 .. Cycle - 1
    /\ m_bypass \in Strategies
    /\ sketch \in [Row -> [Cell -> 0 .. MaxInserts]]
    /\ DOMAIN all_upflows \subseteq Key
    /\ \A k \in DOMAIN all_upflows : all_upflows[k] \in FlowState
    /\ inserted \in [Key -> 0 .. MaxInserts]
    /\ streak \in [Key -> None .. LossTimeout + 1]

(* A mouse is not taken for an elephant because of other rows: of a flow   *)
(* that is known more than ElephantThresh packets have been counted, its   *)
(* own and those of the keys it shares its cell of the first row with;     *)
(* whatever cells the hashers gave them, also after EraseFlow.             *)
CountedIn(c) == Total([k \in Key |-> IF Column[k] = c THEN inserted[k] ELSE 0])
ElephantsAreHeavy ==
    \A k \in DOMAIN all_upflows : CountedIn(Column[k]) > ElephantThresh

(* Every key is hashed on its own ("Call clear() between calls to the      *)
(* getter to reset the internal state and hash each buffer separately"):   *)
(* in each row all packets of a flow are in one cell, and no flow is       *)
(* counted short.                                                          *)
SketchNeverUnder ==
    \A k \in Key, r \in Row : \E c \in Cell : inserted[k] <= sketch[r][c]

(* Between two visits of its destination to the window, that is two drops, *)
(* a flow puts at most one packet into the queue of a later day; whatever  *)
(* the uninitialised `enqueued` holds.                                     *)
OneEarlyPacket == \A k \in Key : early[k] <= 1

(* The time of a drop is that of the first drop in a row, or before it: a  *)
(* flow whose timer runs is not dropped for longer than LossTimeout,       *)
(* however fast it sends.                                                  *)
DropTimerCoversStreak ==
    \A k \in DOMAIN all_upflows :
        all_upflows[k].droptime # None /\ streak[k] # None
            => all_upflows[k].droptime >= streak[k]
===============================================================================
