----------------------------- MODULE MCSpinLock -----------------------------
(***************************************************************************)
(* The two locks of the kernel and, beside them, the mutex and completion  *)
(* of caprock-wait.  They share no state but the cores: a behaviour        *)
(* belongs to one part and the others stand still.                         *)
(*   lock   the ticket lock                                                *)
(*   rw     the reader-writer lock; two of the cores also write            *)
(*   wait   three threads with two places to wait at each object; one is   *)
(*          stopped or not, one has a deadline or not                      *)
(***************************************************************************)
EXTENDS SpinLock, RwSpinLock, Wait

CONSTANTS a, b, c, c1, c2

VARIABLE part

NoneOrOne == {{}, {a}}
TwoWriters == {<<c1, 0>>, <<c2, 0>>}

ASSUME WaitAssumption

ticketVars == <<next_ticket, now_serving, ticket>>
rwWords == <<state, writers_waiting>>

MCInit ==
  /\ Init /\ RwInit /\ WaitInit
  /\ \/ part = "lock" /\ strays = {} /\ timers = {}
     \/ part = "rw" /\ next_ticket = 0 /\ strays = {} /\ timers = {}
     \/ part = "wait" /\ next_ticket = 0

MCNext ==
  /\ UNCHANGED part
  /\ \/ part = "lock" /\ Next /\ UNCHANGED <<rwWords, waitVars>>
     \/ part = "rw" /\ RwNext /\ UNCHANGED <<ticketVars, waitVars>>
     \/ part = "wait" /\ WaitNext /\ UNCHANGED <<vars, rwWords>>

\* The fairness of the three specifications, each for its own part.
MCSpec ==
  /\ MCInit /\ [][MCNext]_<<part, vars, rwWords, waitVars>>
  /\ \A d \in Cores :
       /\ WF_vars(part = "lock" /\ \E l \in {0, 1} : InLock(<<d, l>>))
       /\ WF_rwVars(part = "rw" /\ \E l \in {0, 1} : RwInLock(<<d, l>>))
       /\ WF_ctxVars(Return(d))
  /\ \A t \in Threads : WF_moving(part = "wait" /\ Step(t))

\* Whoever has drawn a ticket gets the lock; whoever sleeps on the mutex is woken.
EveryoneServed == Served /\ LockWakes
=============================================================================
