------------------------------ MODULE RotorService -----------------------------
(***************************************************************************)
(* What the rotor controller promises, without saying how: light and dark  *)
(* periods alternate; in a light period the switch carries a perfect       *)
(* matching of the ToRs; within a round no ordered pair is connected twice *)
(* and a new round starts only when all pairs have been connected.  The    *)
(* code's comment (route-schedule.h:3-8) fixes one particular order of the *)
(* matchings; the service leaves it open.                                  *)
(***************************************************************************)
EXTENDS Integers

CONSTANT N      \* the number of ToRs

Port == 0 .. N - 1
Pairs == {p \in Port \X Port : p[1] # p[2]}

VARIABLES
    links,      \* the circuits that are lit, a set of pairs
    due         \* the pairs still to be connected in this round

vars == <<links, due>>

(* The perfect matchings that use allowed pairs only.                      *)
MatchingsOf(allowed) ==
    {m \in SUBSET allowed :
        /\ \A i \in Port : \E j \in Port : <<i, j>> \in m
        /\ \A j \in Port : \E i \in Port : <<i, j>> \in m
        /\ \A p, q \in m : (p[1] = q[1] \/ p[2] = q[2]) => p = q}

RoundPairs == IF due = {} THEN Pairs ELSE due

Init == links = {} /\ due = {}

LightUp ==
    /\ links = {}
    /\ links' \in MatchingsOf(RoundPairs)
    /\ due' = RoundPairs \ links'

GoDark ==
    /\ links # {}
    /\ links' = {}
    /\ UNCHANGED due

Next == LightUp \/ GoDark

Spec == Init /\ [][Next]_vars
===============================================================================
