------------------------------- MODULE EventList -------------------------------
(***************************************************************************)
(* The event list of the simulator core, as far as the models need it.     *)
(* An event is kept with the time left until it is due; the sequence is in *)
(* the order of insertion, which is the order of the uid that breaks ties  *)
(* between events of the same time stamp.                                  *)
(***************************************************************************)
EXTENDS Integers, Sequences, SequencesExt

(* DefaultSimulatorImpl::Schedule and ScheduleWithContext.                 *)
Schedule(list, delay, what) ==
    Append(list, [left |-> delay, what |-> what])

IsDue(entry) == entry.left = 0
HasDue(list) == \E k \in DOMAIN list : IsDue(list[k])

(* Scheduler::RemoveNext: of the events that are due, the one inserted     *)
(* first.                                                                  *)
NextIndex(list) == SelectInSeq(list, IsDue)
NextEvent(list) == list[NextIndex(list)].what
RemoveNext(list) == RemoveAt(list, NextIndex(list))

(* m_currentTs advances by one unit; no event may be overdue.              *)
Elapse(list) == [k \in DOMAIN list |-> [list[k] EXCEPT !.left = @ - 1]]

(* How many events of a class are scheduled.                               *)
CountEvents(list, class) ==
    Cardinality({k \in DOMAIN list : list[k].what \in class})
===============================================================================
