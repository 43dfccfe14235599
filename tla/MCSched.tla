------------------------------ MODULE MCSched ------------------------------
(***************************************************************************)
(* Small worlds of Sched.                                                  *)
(***************************************************************************)
EXTENDS Sched

OnePrio == [t \in Slots |-> IF t = Idle THEN 0 ELSE 1]
TwoPrios == [t \in Slots |-> IF t = Idle THEN 0 ELSE IF t = 1 THEN 2 ELSE 1]

Quiet == [threads |-> {1, 2}, prio |-> OnePrio, budgets |-> {0}, waits |-> {}, timeouts |-> {},
          outside |-> {}, killing |-> FALSE, aborting |-> FALSE, early |-> FALSE]

\* Nested donations of scheduling contexts over IPC.
Donation == [Quiet EXCEPT !.threads = {1, 2, 3}, !.budgets = {0, 1}, !.waits = {"IPC"}]

\* Threads that die as donor and as donee.
Death == [Quiet EXCEPT !.budgets = {0, 1, 2}, !.waits = {"IPC"}, !.killing = TRUE]

\* Timed parking with unpark, pause and more due deadlines than one tick releases.
Deadline == [Quiet EXCEPT !.waits = {"PARK"}, !.timeouts = {2, 3}, !.outside = {"PAUSE"}]

\* Timed calls that are aborted, or whose server dies.
Aborted == [Quiet EXCEPT !.waits = {"IPC"}, !.timeouts = {2}, !.killing = TRUE, !.aborting = TRUE]

\* Two priorities, budgets, parking and overlapping block reasons imposed from outside.
Imposed == [Quiet EXCEPT !.prio = TwoPrios, !.budgets = {0, 1}, !.waits = {"PARK", "IPC"},
                         !.outside = {"PAUSE", "LOAD", "DEBUG"}, !.killing = TRUE]

FiveWorlds == {Donation, Death, Deadline, Aborted, Imposed}

\* The redundant state of the scheduler agrees: queues and block reasons, the counters and the
\* cached deadline that decide whether a scan runs at all, wake tokens and parked threads.
StateAgrees == ReadyExact /\ CountersExact /\ NaechsteSound /\ TokenNotSlept
=============================================================================
