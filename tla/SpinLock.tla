------------------------------ MODULE SpinLock ------------------------------
(***************************************************************************)
(* The ticket lock of caprock-sync.  Tickets are u32 and wrap around.      *)
(***************************************************************************)
EXTENDS LockContext

CONSTANT TicketValues  \* 2^32 in the code

ASSUME TicketAssumption ==
  /\ IsFiniteSet(Cores)
  /\ TicketValues \in Nat /\ Cardinality(Ctx) < TicketValues

VARIABLES next_ticket, now_serving, ticket

vars == <<next_ticket, now_serving, ticket, ctxVars>>

Tickets == 0 .. TicketValues - 1
Places == {"idle", "draw", "spin", "hold", "restore"}

\* The variables of the lock have their types: tickets never leave the range of the u32.
TypeOK ==
  /\ lvl \in [Cores -> {0, 1}] /\ masked \in [Cores -> BOOLEAN] /\ saved \in [Ctx -> BOOLEAN]
  /\ pc \in [Ctx -> Places]
  /\ next_ticket \in Tickets /\ now_serving \in Tickets /\ ticket \in [Ctx -> Tickets]

\* A free lock at any count of tickets.
Init ==
  /\ CtxInit
  /\ next_ticket \in Tickets /\ now_serving = next_ticket
  /\ ticket = [x \in Ctx |-> 0]

\* fetch_add(1) on an AtomicU32.
Succ(t) == IF t = TicketValues - 1 THEN 0 ELSE t + 1

Mask(x) == irq_save_disable(x, "draw") /\ UNCHANGED <<next_ticket, now_serving, ticket>>

Draw(x) ==
  /\ At(x, "draw") /\ Goto(x, "spin")
  /\ ticket' = [ticket EXCEPT ![x] = next_ticket]
  /\ next_ticket' = Succ(next_ticket)
  /\ UNCHANGED now_serving

\* Mutant of Enter: waiting for "not before my ticket" instead of "my ticket".
EnterPast(x) ==
  /\ At(x, "spin") /\ now_serving >= ticket[x] /\ Goto(x, "hold")
  /\ UNCHANGED <<next_ticket, now_serving, ticket>>

\* The loop of lock() ends.
Enter(x) ==
  /\ At(x, "spin") /\ now_serving = ticket[x] /\ Goto(x, "hold")
  /\ UNCHANGED <<next_ticket, now_serving, ticket>>

\* Mutant of Drop: the next ticket is served only if one has been drawn.
DropIfWaiting(x) ==
  /\ At(x, "hold") /\ Goto(x, "restore")
  /\ now_serving' = IF Succ(now_serving) = next_ticket THEN now_serving ELSE Succ(now_serving)
  /\ ticket' = [ticket EXCEPT ![x] = 0]
  /\ UNCHANGED next_ticket

\* SpinGuard::drop.  (The ticket was a local of lock() and has no meaning any more.)
Drop(x) ==
  /\ At(x, "hold") /\ Goto(x, "restore")
  /\ now_serving' = Succ(now_serving)
  /\ ticket' = [ticket EXCEPT ![x] = 0]
  /\ UNCHANGED next_ticket

Restore(x) == irq_restore(x) /\ UNCHANGED <<next_ticket, now_serving, ticket>>

InLock(x) == Draw(x) \/ Enter(x) \/ Drop(x) \/ Restore(x)
Irq(c) == (Interrupt(c) \/ Return(c)) /\ UNCHANGED <<next_ticket, now_serving, ticket>>

Next ==
  \/ \E x \in Ctx : Mask(x) \/ InLock(x)
  \/ \E c \in Cores : Irq(c)

\* A core executes its instructions: a context inside the lock goes on when it can, and a
\* handler comes to its end.
Fairness == \A c \in Cores :
  /\ WF_vars(\E l \in {0, 1} : InLock(<<c, l>>))
  /\ WF_vars(Return(c) /\ UNCHANGED <<next_ticket, now_serving, ticket>>)

Safe == Init /\ [][Next]_vars
Spec == Safe /\ Fairness

-----------------------------------------------------------------------------
(* Properties                                                              *)

Drawn == {x \in Ctx : pc[x] \in {"spin", "hold"}}
Holding == {x \in Ctx : pc[x] = "hold"}

\* How many tickets t is ahead of s, across the wrap.
Dist(s, t) == IF s <= t THEN t - s ELSE t - s + TicketValues

Lock == INSTANCE LockSpec WITH Holders <- Ctx, shared <- {}, excl <- Holding

\* lock() and SpinGuard::drop implement an exclusive lock, whatever interrupts come in between
\* and wherever the tickets wrap.
ImplementsLock == Lock!LockSpecification

\* The tickets that are out are exactly the ones from now_serving up to next_ticket, each once:
\* no ticket is lost, none is drawn twice, and the holder has the one that is served.
TicketsInOrder ==
  /\ \A x \in Drawn : Dist(now_serving, ticket[x]) < Dist(now_serving, next_ticket)
  /\ \A x, y \in Drawn : x # y => ticket[x] # ticket[y]
  /\ Dist(now_serving, next_ticket) = Cardinality(Drawn)
  /\ \A x \in Holding : ticket[x] = now_serving

\* "Otherwise the timer tick may take the same lock again": a thread that is interrupted is not
\* inside the lock.
NotInterruptedInside == \A c \in Cores : lvl[c] = 1 => pc[<<c, 0>>] = "idle"

\* Whoever has drawn a ticket gets the lock.
Served == \A x \in Ctx : pc[x] = "spin" ~> pc[x] = "hold"
=============================================================================
