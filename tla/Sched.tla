------------------------------- MODULE Sched -------------------------------
(***************************************************************************)
(* The scheduler of one core (crates/caprock-sched): ready queues, block   *)
(* reasons, scheduling contexts with budget, donation and refill, parking  *)
(* and deadlines, and the IPC rendezvous that move donations around.       *)
(*                                                                         *)
(* Every operation runs under the core's scheduler lock and is a function  *)
(* from scheduler to scheduler, as the methods of the code are.  Points in *)
(* time are kept as the ticks left until them, 0 when they are past: the   *)
(* code only ever compares them with now.                                  *)
(***************************************************************************)
EXTENDS Integers, Sequences, FiniteSets, SequencesExt

CONSTANTS NThreads,       \* slots of the TCB table; slot 0 holds the idle thread
          NPrio,          \* number of priorities
          Period,         \* replenishment period of every scheduling context
          MaxTime,        \* the latest point in time, in ticks from now
          FristenJeTick,  \* deadlines one tick may release
          Worlds          \* what a behaviour may start with: see World

Slots == 0..(NThreads - 1)
Idle == 0
Threads == Slots \ {Idle}
None == -1
Outside == {"PAUSE", "HANDLER", "LOAD", "DEBUG", "FREEZE"}
Reasons == {"IPC", "BUDGET", "PARK"} \cup Outside
Never == MaxTime + 1

\* The threads there are and their priorities; the budgets bound to them (0: none); the waits
\* they enter and with which timeouts; the block reasons others impose; whether threads end,
\* calls are aborted, and reasons are imposed on threads not yet admitted.
World == [threads : SUBSET Threads, prio : [Slots -> 0..(NPrio - 1)],
          budgets : SUBSET (0..Period), waits : SUBSET {"IPC", "PARK"},
          timeouts : SUBSET (1..MaxTime), outside : SUBSET Outside,
          killing : BOOLEAN, aborting : BOOLEAN, early : BOOLEAN]

ASSUME SchedAssumption ==
  /\ NThreads \in Nat \ {0} /\ NPrio \in Nat \ {0} /\ FristenJeTick \in Nat \ {0}
  /\ Period \in Nat \ {0} /\ MaxTime \in Nat /\ MaxTime >= Period
  /\ \A w \in Worlds : w \in World

VARIABLES
  sched,   \* the Scheduler of the core
  ipc,     \* how a thread takes part in IPC: not, as receiver, as queued or served caller
  client,  \* the caller a server owes an answer
  world    \* what the threads do and what is done to them, which stays as it is

moving == <<sched, ipc, client>>
vars == <<moving, world>>

Tcb == [used : BOOLEAN, admitted : BOOLEAN, reasons : SUBSET Reasons,
        frist : 0..Never, grund : {"IPC", "PARK"},
        budget : 0..Period, remaining : Nat, refill : 0..Period,
        depleted : BOOLEAN, wake : BOOLEAN, donor : Slots \cup {None}, donee : Slots \cup {None}]

EmptyTcb ==
  [used |-> FALSE, admitted |-> FALSE, reasons |-> {}, frist |-> Never, grund |-> "IPC",
   budget |-> 0, remaining |-> 0, refill |-> 0, depleted |-> FALSE, wake |-> FALSE,
   donor |-> None, donee |-> None]

\* init_core: the idle thread runs.
Init ==
  /\ sched = [tcbs |-> [t \in Slots |-> IF t = Idle THEN [EmptyTcb EXCEPT !.used = TRUE]
                                                    ELSE EmptyTcb],
              queues |-> [p \in 0..(NPrio - 1) |-> <<>>], current |-> Idle,
              depleted_count |-> 0, budget_blocked_count |-> 0, naechste |-> Never]
  /\ ipc = [t \in Slots |-> "none"]
  /\ client = [t \in Slots |-> None]
  /\ world \in Worlds

-----------------------------------------------------------------------------
(* The private helpers.                                                     *)

\* v itself, evaluated here and once.
Value(v) == CHOOSE x \in {v} : x = x

Queued(s, t) == \E p \in DOMAIN s.queues : t \in ToSet(s.queues[p])

enqueue_ready(s, t) ==
  IF Queued(s, t) THEN s ELSE [s EXCEPT !.queues[world.prio[t]] = Append(@, t)]

remove_from_ready(s, t) ==
  Value([s EXCEPT !.queues = [p \in DOMAIN @ |-> SelectSeq(@[p], LAMBDA u : u # t)]])

\* The way back into the ready queue: no reason left, and budget left.
wecke_falls_lauffaehig(s, t) ==
  IF s.tcbs[t].reasons = {} /\ ~s.tcbs[t].depleted /\ s.current # t
  THEN enqueue_ready(s, t) ELSE s

\* The head of the highest queue becomes current; the idle thread is always ready.
dequeue_highest(s) ==
  LET waiting == {p \in DOMAIN s.queues : s.queues[p] # <<>>}
      top == CHOOSE p \in waiting : \A q \in waiting : q <= p
  IN [s EXCEPT !.current = Head(s.queues[top]), !.queues[top] = Tail(@)]

SomeReady(s) == \E p \in DOMAIN s.queues : s.queues[p] # <<>>

set_budget_blocked(s, t, an) ==
  IF ("BUDGET" \in s.tcbs[t].reasons) = an THEN s
  ELSE [s EXCEPT !.tcbs[t].reasons = IF an THEN @ \cup {"BUDGET"} ELSE @ \ {"BUDGET"},
                 !.budget_blocked_count = IF an THEN @ + 1 ELSE @ - 1]

\* The account that time of thread t is charged to.
Account(s, t) == IF s.tcbs[t].donor = None THEN t ELSE s.tcbs[t].donor

InOrder(S) == SetToSortSeq(S, LAMBDA a, b : a < b)

\* wecke_falls_lauffaehig for each thread of a list.
wecke_alle(s, list) ==
  LET woken == SelectSeq(list, LAMBDA t : /\ s.tcbs[t].reasons = {} /\ ~s.tcbs[t].depleted
                                          /\ s.current # t /\ ~Queued(s, t))
  IN Value([s EXCEPT !.queues = [p \in DOMAIN @ |->
                                   @[p] \o SelectSeq(woken, LAMBDA t : world.prio[t] = p)]])

\* Other threads that wait for the budget of account a.
BudgetWaiters(s, a) ==
  {d \in Slots \ {a} : s.tcbs[d].used /\ "BUDGET" \in s.tcbs[d].reasons /\ s.tcbs[d].donor = a}

\* The BUDGET reason falls for a set of threads.
lift_budget(s, D) ==
  Value([s EXCEPT !.tcbs = [t \in Slots |->
                    IF t \in D THEN [@[t] EXCEPT !.reasons = @ \ {"BUDGET"}] ELSE @[t]],
                  !.budget_blocked_count = @ - Cardinality(D)])

\* Mutant of refill_depleted: the account does not wake itself.
RefillWithoutSelf(s) ==
  LET R == {t \in Slots : s.tcbs[t].used /\ s.tcbs[t].depleted /\ s.tcbs[t].refill = 0}
      filled == [s EXCEPT !.tcbs = [t \in Slots |->
                   IF t \in R THEN [@[t] EXCEPT !.remaining = s.tcbs[t].budget, !.depleted = FALSE]
                              ELSE @[t]],
                          !.depleted_count = @ - Cardinality(R)]
      D == UNION {BudgetWaiters(s, a) : a \in R}
  IN wecke_alle(lift_budget(Value(filled), D), InOrder(D))

\* Each slot whose refill is due is refilled, its donees are woken and then itself, unless its
\* donee link is set.  A donee that is refilled later in the same pass is still depleted when
\* its account is, and an account is woken only if its own BUDGET reason has already fallen.
refill_depleted(s) ==
  LET R == {t \in Slots : /\ s.tcbs[t].used /\ s.tcbs[t].budget > 0
                          /\ s.tcbs[t].depleted /\ s.tcbs[t].refill = 0}
      Donees(a) == IF s.budget_blocked_count > 0 THEN BudgetWaiters(s, a) ELSE {}
      D == UNION {Donees(a) : a \in R}
      filled == Value([s EXCEPT !.tcbs = [t \in Slots |->
                   IF t \in R THEN [@[t] EXCEPT !.remaining = s.tcbs[t].budget, !.depleted = FALSE]
                              ELSE @[t]],
                                !.depleted_count = @ - Cardinality(R)])
      self(a) == s.tcbs[a].donee \in {None, a} /\ ~\E b \in R : b > a /\ a \in Donees(b)
      woken(a) == InOrder({d \in Donees(a) : d \in R => d < a})
                    \o (IF self(a) THEN <<a>> ELSE <<>>)
  IN wecke_alle(lift_budget(filled, D),
                FlattenSeq([i \in 1..NThreads |-> IF i - 1 \in R THEN woken(i - 1) ELSE <<>>]))

\* Mutant of record_zombie: its depleted account stays in the count.
ZombieStillCounted(s, t) ==
  [remove_from_ready(s, t) EXCEPT !.tcbs[t] = EmptyTcb,
     !.budget_blocked_count = IF "BUDGET" \in s.tcbs[t].reasons THEN @ - 1 ELSE @]

\* The donees of a dying thread go back to their own accounts.
record_zombie(s, t) ==
  LET mine == {d \in Slots \ {t} : s.tcbs[d].used /\ s.tcbs[d].donor = t}
      a == s.tcbs[t].donor
      cut == Value([s EXCEPT !.tcbs = [d \in Slots |->
                IF d \in mine THEN [@[d] EXCEPT !.donor = None] ELSE @[d]]])
      freed == remove_from_ready(
                 wecke_alle(lift_budget(cut, BudgetWaiters(s, t)), InOrder(BudgetWaiters(s, t))), t)
      unlent == IF a # None /\ freed.tcbs[a].donee = t
                THEN [freed EXCEPT !.tcbs[a].donee = None] ELSE freed
  IN [unlent EXCEPT !.depleted_count = IF s.tcbs[t].depleted THEN @ - 1 ELSE @,
                    !.budget_blocked_count =
                      IF "BUDGET" \in s.tcbs[t].reasons THEN @ - 1 ELSE @,
                    !.tcbs[t] = EmptyTcb]

-----------------------------------------------------------------------------
(* The public operations.                                                   *)

admit(s, t) == enqueue_ready([s EXCEPT !.tcbs[t].admitted = TRUE], t)

block_current_mit(s, grund) ==
  dequeue_highest([s EXCEPT !.tcbs[s.current].reasons = @ \cup {grund}])

switch_to(s, t) ==
  LET cur == s.current
      x == [s EXCEPT !.tcbs[cur].reasons = @ \cup {"IPC"}, !.tcbs[t].reasons = @ \ {"IPC"}]
      account == Account(s, cur)
  IN IF x.tcbs[t].reasons # {} THEN dequeue_highest(x)
     ELSE [remove_from_ready(x, t) EXCEPT !.tcbs[t].donor = account,
                                          !.tcbs[account].donee = t, !.current = t]

unblock(s, t) ==
  LET a == Account(s, t)
      x == [s EXCEPT !.tcbs[t].reasons = @ \ {"IPC"}]
  IN IF s.tcbs[t].reasons = {} THEN s
     ELSE IF a # t /\ s.tcbs[a].depleted THEN set_budget_blocked(x, t, TRUE)
     ELSE IF x.tcbs[t].reasons = {} /\ ~x.tcbs[t].depleted THEN enqueue_ready(x, t) ELSE x

\* Mutant of frist_setzen: the shortcut is not brought forward.
FristHidden(s, ticks, grund) ==
  [s EXCEPT !.tcbs[s.current].frist = ticks, !.tcbs[s.current].grund = grund]

frist_setzen(s, ticks, grund) ==
  [s EXCEPT !.tcbs[s.current].frist = ticks, !.tcbs[s.current].grund = grund,
            !.naechste = IF ticks < @ THEN ticks ELSE @]

\* Mutant of fristen_faellig: the cap comes after the effect, the deadline is used up.
FristLost(s) ==
  LET due == {t \in Slots : s.tcbs[t].used /\ s.tcbs[t].frist = 0}
      hit == {t \in due : s.tcbs[t].grund \in s.tcbs[t].reasons}
      out == {t \in hit : Cardinality({u \in hit : u < t}) < FristenJeTick}
      left == {s.tcbs[t].frist : t \in {u \in Slots \ due : s.tcbs[u].used}}
      freed == Value([s EXCEPT !.tcbs = [t \in Slots |->
                 IF t \in out THEN [@[t] EXCEPT !.frist = Never, !.reasons = @ \ {s.tcbs[t].grund}]
                 ELSE IF t \in due THEN [@[t] EXCEPT !.frist = Never] ELSE @[t]],
                         !.naechste = Min({Never} \cup left)])
  IN [s |-> wecke_alle(freed, InOrder(out)), out |-> out]

\* The deadlines that are due, in the order of the slots, until one tick's share of threads is
\* released; a deadline whose reason is gone is dropped.  A released thread is reported in out.
fristen_faellig(s) ==
  LET due == {t \in Slots : s.tcbs[t].used /\ s.tcbs[t].frist = 0}
      hit == {t \in due : s.tcbs[t].grund \in s.tcbs[t].reasons}
      done == {t \in due : Cardinality({u \in hit : u < t}) < FristenJeTick}
      out == hit \cap done
      left == {s.tcbs[t].frist : t \in {u \in Slots \ done : s.tcbs[u].used}}
      freed == Value([s EXCEPT !.tcbs = [t \in Slots |->
                 IF t \in out THEN [@[t] EXCEPT !.frist = Never, !.reasons = @ \ {s.tcbs[t].grund}]
                 ELSE IF t \in done THEN [@[t] EXCEPT !.frist = Never] ELSE @[t]],
                         !.naechste = Min({Never} \cup left)])
      ready == SelectSeq(InOrder(out), LAMBDA t : freed.tcbs[t].reasons = {} /\ ~Queued(s, t))
  IN IF s.naechste > 0 THEN [s |-> s, out |-> {}]
     ELSE [s |-> [freed EXCEPT !.queues = [p \in DOMAIN @ |->
                    @[p] \o SelectSeq(ready, LAMBDA t : world.prio[t] = p)]],
           out |-> out]

\* Mutant of unpark: the token is left behind, whether the thread was parked or not.
UnparkLeavesToken(s, t) ==
  [s EXCEPT !.tcbs[t].wake = TRUE]

unpark(s, t) ==
  IF "PARK" \in s.tcbs[t].reasons
  THEN wecke_falls_lauffaehig([s EXCEPT !.tcbs[t].reasons = @ \ {"PARK"},
                                        !.tcbs[t].wake = FALSE], t)
  ELSE [s EXCEPT !.tcbs[t].wake = TRUE]

\* pause, mark_handler_wait, debug_stop, freeze_group
impose(s, t, grund) ==
  remove_from_ready([s EXCEPT !.tcbs[t].reasons = @ \cup {grund}], t)

\* resume, handler_reply, load_reply, debug_continue, thaw_group
lift(s, t, grund) ==
  wecke_falls_lauffaehig([s EXCEPT !.tcbs[t].reasons = @ \ {grund}], t)

set_budget(s, t, budget) ==
  LET x == [s EXCEPT !.tcbs[t].budget = budget, !.tcbs[t].remaining = budget,
                     !.tcbs[t].depleted = FALSE, !.tcbs[t].refill = 0]
      D == BudgetWaiters(s, t)
      y == wecke_alle(lift_budget([x EXCEPT !.depleted_count = @ - 1], D), InOrder(D))
  IN IF s.tcbs[t].depleted THEN wecke_falls_lauffaehig(y, t) ELSE x

end_donation(s) ==
  LET a == s.tcbs[s.current].donor
      x == [s EXCEPT !.tcbs[s.current].donor = None]
  IN IF a # None /\ s.tcbs[a].donee = s.current THEN [x EXCEPT !.tcbs[a].donee = None] ELSE x

\* Mutant of charge: a donee is not stopped when the budget it runs on is used up.
ChargeDoneeRunsOn(s) ==
  LET cur == s.current
      a == Account(s, cur)
      left == IF s.tcbs[a].remaining > 0 THEN s.tcbs[a].remaining - 1 ELSE 0
      paid == [s EXCEPT !.tcbs[a].remaining = left]
      gone == [paid EXCEPT !.tcbs[a].depleted = TRUE, !.tcbs[a].refill = Period,
                           !.depleted_count = @ + 1]
      next == IF s.tcbs[a].budget = 0 THEN s ELSE IF left > 0 THEN paid ELSE gone
  IN IF s.tcbs[cur].reasons = {} /\ (left > 0 \/ a # cur \/ s.tcbs[a].budget = 0)
     THEN enqueue_ready(next, cur) ELSE next

\* The charging half of on_tick, with a tick of the clock.
charge(s) ==
  LET cur == s.current
      a == Account(s, cur)
      left == IF s.tcbs[a].remaining > 0 THEN s.tcbs[a].remaining - 1 ELSE 0
      paid == [s EXCEPT !.tcbs[a].remaining = left]
      gone == [paid EXCEPT !.tcbs[a].depleted = TRUE, !.tcbs[a].refill = Period,
                           !.depleted_count = @ + 1]
      requeued == IF s.tcbs[cur].reasons = {} THEN enqueue_ready(s, cur) ELSE s
  IN IF s.tcbs[a].budget = 0 THEN requeued
     ELSE IF left > 0
     THEN [requeued EXCEPT !.tcbs[a].remaining = left]
     ELSE IF a # cur THEN set_budget_blocked(gone, cur, TRUE) ELSE gone

\* One tick passes for every point in time that is still ahead.
pass(s) ==
  LET down(k) == IF k = 0 \/ k = Never THEN k ELSE k - 1
  IN Value([s EXCEPT !.naechste = down(@),
                     !.tcbs = [t \in Slots |-> [@[t] EXCEPT !.frist = down(@),
                                                      !.refill = IF @ = 0 THEN 0 ELSE @ - 1]]])

on_tick(s) ==
  LET now == pass(s)
      x == Value(charge(IF now.depleted_count > 0 THEN refill_depleted(now) ELSE now))
  IN IF SomeReady(x) THEN dequeue_highest(x) ELSE x

\* on_tick without a tick of the clock.
yield(s) ==
  LET x == IF s.tcbs[s.current].reasons = {} THEN enqueue_ready(s, s.current) ELSE s
  IN IF SomeReady(x) THEN dequeue_highest(x) ELSE x

-----------------------------------------------------------------------------
(* Who calls them.  User threads make system calls when they run; other     *)
(* cores and services impose and lift reasons, unpark, bind and kill.       *)

Running(t) == t = sched.current /\ t # Idle
Used(t) == sched.tcbs[t].used
Admitted(t) == Used(t) /\ (sched.tcbs[t].admitted \/ world.early)
Receivers == {t \in Threads : ipc[t] = "recv"}
Callers == {t \in Threads : ipc[t] = "queued"}

\* spawn_parked and spawn_user_at_parked, over alloc_tcb
Spawn(t) ==
  /\ t \in world.threads /\ ~Used(t)
  /\ sched' = [sched EXCEPT !.tcbs[t] = [EmptyTcb EXCEPT !.used = TRUE]]
  /\ UNCHANGED <<ipc, client>>

Admit(t) ==
  /\ Used(t) /\ ~sched.tcbs[t].admitted
  /\ sched' = admit(sched, t)
  /\ UNCHANGED <<ipc, client>>

\* What the death sweep makes of the dead thread's part in IPC.
Gone(t) ==
  /\ ipc' = [u \in Slots |-> IF u = t THEN "none"
                             ELSE IF u = client[t] THEN "orphan" ELSE ipc[u]]
  /\ client' = [u \in Slots |-> IF u = t \/ client[u] = t THEN None ELSE client[u]]

Exit(t) ==
  /\ world.killing /\ Running(t)
  /\ sched' = dequeue_highest(record_zombie(sched, t))
  /\ Gone(t)

Kill(t) ==
  /\ world.killing /\ Used(t) /\ t # sched.current
  /\ sched' = record_zombie(remove_from_ready(sched, t), t)
  /\ Gone(t)

\* unblock_with_error for the caller of a dead server
Orphan(t) ==
  /\ ipc[t] = "orphan"
  /\ sched' = unblock(sched, t)
  /\ ipc' = [ipc EXCEPT ![t] = "none"]
  /\ UNCHANGED client

\* RECV finds a queued caller and returns, or blocks.
Recv(t) ==
  /\ "IPC" \in world.waits /\ Running(t) /\ client[t] = None
  /\ \/ \E c \in Callers :
          /\ client' = [client EXCEPT ![t] = c]
          /\ ipc' = [ipc EXCEPT ![c] = "call"]
          /\ UNCHANGED sched
     \/ /\ Callers = {}
        /\ sched' = block_current_mit(sched, "IPC")
        /\ ipc' = [ipc EXCEPT ![t] = "recv"]
        /\ UNCHANGED client

\* The state in which a wait with or without timeout begins.
Armed(s, grund) == {s} \cup {frist_setzen(s, k, grund) : k \in world.timeouts}

\* CALL and CALL_TIMEOUT switch to a waiting receiver, or queue.
Call(t) ==
  /\ "IPC" \in world.waits /\ Running(t)
  /\ \E s \in Armed(sched, "IPC") :
       \/ \E r \in Receivers :
            /\ sched' = switch_to(s, r)
            /\ ipc' = [ipc EXCEPT ![r] = "none", ![t] = "call"]
            /\ client' = [client EXCEPT ![r] = t]
       \/ /\ Receivers = {}
          /\ sched' = block_current_mit(s, "IPC")
          /\ ipc' = [ipc EXCEPT ![t] = "queued"]
          /\ UNCHANGED client

Reply(t) ==
  /\ "IPC" \in world.waits /\ Running(t)
  /\ client' = [client EXCEPT ![t] = None]
  /\ IF client[t] = None
     THEN sched' = end_donation(sched) /\ UNCHANGED ipc
     ELSE /\ sched' = unblock(end_donation(sched), client[t])
          /\ ipc' = [ipc EXCEPT ![client[t]] = "none"]

\* endpoint_abort_call: the caller returns with an error, the server keeps running.
Abort(t) ==
  /\ world.aborting /\ ipc[t] = "call"
  /\ sched' = unblock(sched, t)
  /\ ipc' = [ipc EXCEPT ![t] = "none"]
  /\ client' = [u \in Slots |-> IF client[u] = t THEN None ELSE client[u]]

\* PARK and PARK_TIMEOUT
Park(t) ==
  /\ "PARK" \in world.waits /\ Running(t)
  /\ \E s \in Armed(sched, "PARK") :
       sched' = IF s.tcbs[t].wake THEN [s EXCEPT !.tcbs[t].wake = FALSE]
                                  ELSE block_current_mit(s, "PARK")
  /\ UNCHANGED <<ipc, client>>

Unpark(t) ==
  /\ "PARK" \in world.waits /\ Used(t)
  /\ sched' = unpark(sched, t)
  /\ UNCHANGED <<ipc, client>>

\* LOAD is only entered by the running thread itself.
Impose(t, g) ==
  /\ Admitted(t) /\ g \notin sched.tcbs[t].reasons
  /\ IF g = "LOAD" THEN Running(t) /\ sched' = block_current_mit(sched, g)
                   ELSE sched' = impose(sched, t, g)
  /\ UNCHANGED <<ipc, client>>

\* debug_continue and thaw_group refuse when their reason is not there, the others do not.
Lift(t, g) ==
  /\ Admitted(t) /\ (g \in {"DEBUG", "FREEZE"} => g \in sched.tcbs[t].reasons)
  /\ sched' = lift(sched, t, g)
  /\ UNCHANGED <<ipc, client>>

SetBudget(t, b) ==
  /\ Used(t) /\ sched.tcbs[t].budget # b
  /\ sched' = set_budget(sched, t, b)
  /\ UNCHANGED <<ipc, client>>

\* reschedule: on_tick, then the deadlines, then the sign-off of those released from IPC.
AfterTick ==
  LET due == Value(fristen_faellig(Value(on_tick(sched))))
      off == {t \in due.out : "IPC" \notin due.s.tcbs[t].reasons /\ ipc[t] # "none"}
  IN Value(<<due.s,
             [t \in Slots |-> IF t \in off THEN "none" ELSE ipc[t]],
             [t \in Slots |-> IF client[t] \in off THEN None ELSE client[t]]>>)

Tick ==
  LET next == AfterTick
  IN sched' = next[1] /\ ipc' = next[2] /\ client' = next[3]

Yield(t) ==
  /\ Running(t)
  /\ sched' = yield(sched)
  /\ UNCHANGED <<ipc, client>>

Step ==
  \/ Tick
  \/ \E t \in Threads :
       \/ Spawn(t) \/ Admit(t) \/ Exit(t) \/ Kill(t) \/ Orphan(t)
       \/ Recv(t) \/ Call(t) \/ Reply(t) \/ Abort(t)
       \/ Park(t) \/ Unpark(t) \/ Yield(t)
       \/ \E g \in world.outside : Impose(t, g) \/ Lift(t, g)
       \/ \E b \in world.budgets : SetBudget(t, b)

Next == Step /\ UNCHANGED world

\* WF_moving(Tick), with the condition that a tick changes something written out.
TimerRuns == []<>(AfterTick = moving) \/ []<><<Tick>>_moving

\* The timer interrupts; nothing is assumed of the threads.
Spec == Init /\ [][Next]_vars /\ TimerRuns

-----------------------------------------------------------------------------
(* Properties.                                                              *)

\* Control blocks, queues and counters have their types; in particular no counter falls below 0.
TypeOK ==
  /\ sched.tcbs \in [Slots -> Tcb] /\ sched.current \in Slots
  /\ sched.queues \in [0..(NPrio - 1) -> Seq(Slots)]
  /\ sched.depleted_count \in Nat /\ sched.budget_blocked_count \in Nat
  /\ sched.naechste \in 0..Never
  /\ ipc \in [Slots -> {"none", "recv", "queued", "call", "orphan"}]
  /\ client \in [Slots -> Slots \cup {None}]
  /\ world \in World

Runnable(t) ==
  /\ Used(t) /\ sched.tcbs[t].reasons = {} /\ ~sched.tcbs[t].depleted
  /\ sched.tcbs[t].admitted \/ t = Idle

\* audit codes 1, 2, 4, 6, 7 and 9: the ready queues hold exactly the threads that may run and
\* do not, each once and in the queue of its priority.
ReadyExact ==
  /\ \A t \in Slots : Queued(sched, t) <=> (Runnable(t) /\ t # sched.current)
  /\ \A p \in 0..(NPrio - 1) : IsInjective(sched.queues[p])
  /\ \A p \in 0..(NPrio - 1) : \A t \in ToSet(sched.queues[p]) : world.prio[t] = p

\* audit code 10, and the same for depleted_count: the counters that guard the refill scans
\* count what the table holds.
CountersExact ==
  /\ sched.depleted_count = Cardinality({t \in Slots : sched.tcbs[t].depleted})
  /\ sched.budget_blocked_count =
       Cardinality({t \in Slots : "BUDGET" \in sched.tcbs[t].reasons})

\* audit code 9 alone: no ready queue holds a thread whose own account is depleted.
NoDepletedReady ==
  \A t \in Slots : Queued(sched, t) => ~sched.tcbs[t].depleted

\* audit code 7 alone: a thread that may run is in a ready queue, or it runs.
NoLostThread ==
  \A t \in Threads : Runnable(t) => (Queued(sched, t) \/ t = sched.current)

\* audit code 2 alone: no ready queue holds a thread that something blocks.
NoBlockedReady ==
  \A t \in Slots : Queued(sched, t) => sched.tcbs[t].reasons = {}

\* A thread that gets the core has no block reason, and the account it is charged to, its own
\* or a donor's, has budget left ("kein Lauf ueber das Budget").
DispatchedSolvent ==
  [][sched'.current # sched.current =>
       LET t == sched'.current
       IN sched'.tcbs[t].reasons = {} /\ ~sched'.tcbs[Account(sched', t)].depleted]_vars

\* The BUDGET reason always has a waker left: a depleted donor that will be refilled.
BudgetHasWaker ==
  \A t \in Slots : "BUDGET" \in sched.tcbs[t].reasons =>
    /\ sched.tcbs[t].donor # None
    /\ sched.tcbs[sched.tcbs[t].donor].used /\ sched.tcbs[sched.tcbs[t].donor].depleted
    /\ sched.depleted_count > 0 /\ sched.budget_blocked_count > 0

\* Who waits for a budget gets it back, whatever nested donations, deaths and aborts did.
BudgetReturns ==
  \A t \in Threads : ("BUDGET" \in sched.tcbs[t].reasons) ~> ("BUDGET" \notin sched.tcbs[t].reasons)

\* The shortcut of fristen_faellig hides no deadline: naechste is no later than any of them.
NaechsteSound ==
  \A t \in Slots : Used(t) => sched.naechste <= sched.tcbs[t].frist

\* A wait that a deadline guards ends, also when more are due than one tick releases: delayed,
\* never lost.
DeadlineEndsWait ==
  \A t \in Threads : \A g \in {"IPC", "PARK"} :
    (sched.tcbs[t].frist # Never /\ sched.tcbs[t].grund = g /\ g \in sched.tcbs[t].reasons)
      ~> (g \notin sched.tcbs[t].reasons)

\* Nobody waits in vain: neither for a budget nor for a deadline.
WaitsEnd == BudgetReturns /\ DeadlineEndsWait

\* unpark before park is not forgotten: nobody is parked while holding a wake token.
TokenNotSlept ==
  \A t \in Threads : sched.tcbs[t].wake => "PARK" \notin sched.tcbs[t].reasons

=============================================================================
