-------------------------------- MODULE Ipc --------------------------------
(***************************************************************************)
(* Endpoints and notifications of crates/caprock-ipc, with what they share *)
(* with the scheduler (the IPC block reason, the deadline and the saved    *)
(* trap frame of a thread) and with the kernel paths that reach into them: *)
(* the timer tick, the death of a thread, the exchange of a server.        *)
(*                                                                         *)
(* A core runs one kernel operation at a time with interrupts masked.      *)
(* Every endpoint and notification has its own lock, held for the whole    *)
(* operation; the scheduler lock of a core is taken anew for each question *)
(* or effect.  An operation is therefore cut only where another core can   *)
(* get in between: after a message has been written into a blocked         *)
(* thread's frame and before that thread is woken, between the objects of  *)
(* a sweep, and between a sweep and the waking of the orphans it found.    *)
(*                                                                         *)
(* At an endpoint, a server alternates RECV and REPLY.                     *)
(***************************************************************************)
EXTENDS Naturals, Sequences, FiniteSets, Queues

CONSTANTS Threads, Cores, Endpoints, Notifications, Badges,
          CoreOf,     \* the core a thread lives on (no migration here)
          QueueCap,   \* QUEUE_CAP
          Worlds      \* what a behaviour may start with: see World

None == "none"
Objs == Endpoints \cup Notifications

\* Who holds which right on which object; the badges that are signalled; the threads that use
\* a non-zero timeout and those that may end; whether servers are exchanged.
World == [caps : SUBSET (Threads \X Objs \X {"READ", "WRITE"}), badges : SUBSET Badges,
          timed : SUBSET Threads, mortal : SUBSET Threads, reloading : BOOLEAN]

ASSUME IpcAssumption ==
  /\ None \notin Threads \cup Objs /\ Endpoints \cap Notifications = {}
  /\ CoreOf \in [Threads -> Cores]
  /\ QueueCap \in Nat \ {0}
  /\ Worlds \subseteq World

VARIABLES
  ep,       \* endpoints
  nt,       \* notifications
  alive,    \* the thread directory resolves the ThreadId
  ipc,      \* BlockReasons::IPC is set
  frist,    \* a deadline guarding the IPC reason is armed
  frame,    \* what the kernel wrote into the saved frame of a waiting thread
  wait,     \* the system call a thread is in ("user": none)
  serving,  \* per endpoint, the client a server owes an answer ("stale": it waits no more)
  op,       \* the kernel operation each core is in the middle of
  retired,  \* servers taken off their endpoint while blocked in RECV
  owed,     \* signalled badges no WAIT has returned yet
  panic,    \* switch_to met an unresolvable thread
  world     \* the rights and habits of the threads, which stay as they are

moving == <<ep, nt, alive, ipc, frist, frame, wait, serving, op, retired, owed, panic>>
vars == <<moving, world>>
threadVars == <<alive, ipc, frist, frame, wait, serving>>

NoDebt == [e \in Endpoints |-> None]
NoFrame == [res |-> None, from |-> None, bits |-> {}]
User == [k |-> "user", obj |-> None, timed |-> FALSE]
Idle == [k |-> "idle", obj |-> None, self |-> None, to |-> None, todo |-> {}, orphans |-> {}]

Endpoint == [quiescing : BOOLEAN, senders : Seq(Threads), receivers : Seq(Threads),
             caller : Threads \cup {None}, owner : Threads \cup {None}]
Notification == [pending : SUBSET Badges, waiter : Threads \cup {None}]
Frame == [res : {None, "OK", "TIMEOUT", "GONE"}, from : Threads \cup {None, "stale"},
          bits : SUBSET Badges]
Syscall == [k : {"user", "call", "recv", "wait"}, obj : Objs \cup {None}, timed : BOOLEAN]
Operation == [k : {"idle", "wake", "purge", "death", "sweep", "gone"}, obj : Objs \cup {None},
              self : Threads \cup {None}, to : Threads \cup {None},
              todo : SUBSET (Threads \X Objs), orphans : SUBSET Threads]

Init ==
  /\ ep = [e \in Endpoints |-> [quiescing |-> FALSE, senders |-> <<>>, receivers |-> <<>>,
                                caller |-> None, owner |-> None]]
  /\ nt = [n \in Notifications |-> [pending |-> {}, waiter |-> None]]
  /\ alive = [t \in Threads |-> TRUE]
  /\ ipc = [t \in Threads |-> FALSE]
  /\ frist = [t \in Threads |-> FALSE]
  /\ frame = [t \in Threads |-> NoFrame]
  /\ wait = [t \in Threads |-> User]
  /\ serving = [t \in Threads |-> NoDebt]
  /\ op = [c \in Cores |-> Idle]
  /\ retired = {} /\ owed = {} /\ panic = FALSE
  /\ world \in Worlds

-----------------------------------------------------------------------------
(* Locks, queues and the scheduler's answers                               *)

Free(c) == op[c] = Idle /\ ~panic
Unlocked(o) == \A c \in Cores : op[c].obj # o

\* A thread executing user code on its core, about to enter the kernel.
Running(t) == Free(CoreOf[t]) /\ alive[t] /\ ~ipc[t] /\ wait[t] = User

Full(q) == Len(q) >= QueueCap

\* frame_of answers only for a live thread; dequeue discards the others on its way.
LiveIn(q) == {i \in DOMAIN q : alive[q[i]]}
FirstLive(q) == CHOOSE i \in LiveIn(q) : \A j \in LiveIn(q) : i <= j
Behind(q, i) == SubSeq(q, i + 1, Len(q))

\* frist_setzen is called with a non-zero timeout only; nothing else touches the deadline.
Arm(t, tm) == frist' = [frist EXCEPT ![t] = tm \/ @]

MayTime(t, tm) == tm => t \in world.timed

Holds(t, o, right) == <<t, o, right>> \in world.caps

\* The object's lock stays held until the thread written to has been woken.
Waking(o, t, self) == [Idle EXCEPT !.k = "wake", !.obj = o, !.to = t, !.self = self]

-----------------------------------------------------------------------------
(* CALL, RECV, REPLY                                                       *)

CallEntry(t, e, tm) ==
  /\ Running(t) /\ Holds(t, e, "WRITE") /\ MayTime(t, tm) /\ Unlocked(e)
  /\ Arm(t, tm)

\* ERR_QUIESCING or ERR_EP_FULL: the thread does not block, its deadline stays armed.
CallRefused(t, e, tm) ==
  /\ CallEntry(t, e, tm)
  /\ \/ ep[e].quiescing /\ UNCHANGED ep
     \/ /\ ~ep[e].quiescing /\ LiveIn(ep[e].receivers) = {} /\ Full(ep[e].senders)
        /\ ep' = [ep EXCEPT ![e].receivers = <<>>]
  /\ UNCHANGED <<nt, alive, ipc, frame, wait, serving, op, retired, owed, panic>>

\* A receiver waits: the message goes into its frame, the reply token names both.
CallRendezvous(t, e, tm) ==
  /\ CallEntry(t, e, tm)
  /\ ~ep[e].quiescing /\ LiveIn(ep[e].receivers) # {}
  /\ LET q == ep[e].receivers
         s == q[FirstLive(q)]
     IN /\ ep' = [ep EXCEPT ![e].receivers = Behind(q, FirstLive(q)),
                            ![e].caller = t, ![e].owner = s]
        /\ frame' = [frame EXCEPT ![s] = [res |-> "OK", from |-> t, bits |-> {}]]
        /\ op' = [op EXCEPT ![CoreOf[t]] = Waking(e, s, t)]
  /\ wait' = [wait EXCEPT ![t] = [k |-> "call", obj |-> e, timed |-> tm]]
  /\ UNCHANGED <<nt, alive, ipc, serving, retired, owed, panic>>

\* Mutants of CallQueued: the caller blocks although the queue was full (D11); it queues up
\* without looking at the gate or at the receivers.
CallQueuedLossy(t, e, tm) ==
  /\ CallEntry(t, e, tm)
  /\ ~ep[e].quiescing /\ LiveIn(ep[e].receivers) = {}
  /\ ep' = [ep EXCEPT ![e].receivers = <<>>, ![e].senders = IF Full(@) THEN @ ELSE Append(@, t)]
  /\ ipc' = [ipc EXCEPT ![t] = TRUE]
  /\ wait' = [wait EXCEPT ![t] = [k |-> "call", obj |-> e, timed |-> tm]]
  /\ UNCHANGED <<nt, alive, frame, serving, op, retired, owed, panic>>
CallQueuedBlind(t, e, tm) ==
  /\ CallEntry(t, e, tm)
  /\ ~Full(ep[e].senders)
  /\ ep' = [ep EXCEPT ![e].senders = Append(@, t)]
  /\ ipc' = [ipc EXCEPT ![t] = TRUE]
  /\ wait' = [wait EXCEPT ![t] = [k |-> "call", obj |-> e, timed |-> tm]]
  /\ UNCHANGED <<nt, alive, frame, serving, op, retired, owed, panic>>

\* No receiver waits: the caller queues up and blocks.
CallQueued(t, e, tm) ==
  /\ CallEntry(t, e, tm)
  /\ ~ep[e].quiescing /\ LiveIn(ep[e].receivers) = {} /\ ~Full(ep[e].senders)
  /\ ep' = [ep EXCEPT ![e].receivers = <<>>, ![e].senders = Append(@, t)]
  /\ ipc' = [ipc EXCEPT ![t] = TRUE]
  /\ wait' = [wait EXCEPT ![t] = [k |-> "call", obj |-> e, timed |-> tm]]
  /\ UNCHANGED <<nt, alive, frame, serving, op, retired, owed, panic>>

\* A sender waits: the server takes its message over and goes on; the sender stays blocked.
RecvRendezvous(t, e) ==
  /\ Running(t) /\ Holds(t, e, "READ") /\ serving[t][e] = None /\ Unlocked(e)
  /\ ~ep[e].quiescing /\ LiveIn(ep[e].senders) # {}
  /\ LET q == ep[e].senders
         c == q[FirstLive(q)]
     IN /\ ep' = [ep EXCEPT ![e].senders = Behind(q, FirstLive(q)),
                            ![e].caller = c, ![e].owner = t]
        /\ serving' = [serving EXCEPT ![t][e] = c]
  /\ UNCHANGED <<nt, alive, ipc, frist, frame, wait, op, retired, owed, panic>>

RecvQueued(t, e) ==
  /\ Running(t) /\ Holds(t, e, "READ") /\ serving[t][e] = None /\ Unlocked(e)
  /\ ~ep[e].quiescing /\ LiveIn(ep[e].senders) = {} /\ ~Full(ep[e].receivers)
  /\ ep' = [ep EXCEPT ![e].senders = <<>>, ![e].receivers = Append(@, t)]
  /\ ipc' = [ipc EXCEPT ![t] = TRUE]
  /\ wait' = [wait EXCEPT ![t] = [k |-> "recv", obj |-> e, timed |-> FALSE]]
  /\ UNCHANGED <<nt, alive, frist, frame, serving, op, retired, owed, panic>>

\* ERR_EP_FULL: dead senders have been discarded, the server does not block.
RecvRefused(t, e) ==
  /\ Running(t) /\ Holds(t, e, "READ") /\ serving[t][e] = None /\ Unlocked(e)
  /\ ~ep[e].quiescing /\ LiveIn(ep[e].senders) = {} /\ Full(ep[e].receivers)
  /\ ep' = [ep EXCEPT ![e].senders = <<>>]
  /\ UNCHANGED <<nt, threadVars, op, retired, owed, panic>>

\* REPLY takes the token; a caller that still waits gets the answer and is woken.
Reply(t, e) ==
  /\ Running(t) /\ Holds(t, e, "READ") /\ serving[t][e] # None /\ Unlocked(e)
  /\ ep' = [ep EXCEPT ![e].caller = None, ![e].owner = None]
  /\ serving' = [serving EXCEPT ![t][e] = None]
  /\ LET c == ep[e].caller IN
     IF c # None /\ alive[c] /\ ipc[c]
     THEN /\ frame' = [frame EXCEPT ![c] = [res |-> "OK", from |-> serving[t][e], bits |-> {}]]
          /\ op' = [op EXCEPT ![CoreOf[t]] = Waking(e, c, None)]
     ELSE UNCHANGED <<frame, op>>
  /\ UNCHANGED <<nt, alive, ipc, frist, wait, retired, owed, panic>>

\* unblock, and for CALL the blocking of the caller (switch_to when both share a core).
Wake(c) ==
  /\ op[c].k = "wake" /\ ~panic
  /\ ipc' = [t \in Threads |-> (t = op[c].self) \/ (ipc[t] /\ t # op[c].to)]
  /\ op' = [op EXCEPT ![c] = Idle]
  /\ UNCHANGED <<ep, nt, alive, frist, frame, wait, serving, retired, owed, panic>>

\* switch_to expects its target to resolve; owner_core had answered just before.
SwitchToDead(c) ==
  /\ op[c].k = "wake" /\ ~panic
  /\ op[c].self # None /\ CoreOf[op[c].to] = c /\ ~alive[op[c].to]
  /\ panic' = TRUE
  /\ UNCHANGED <<ep, nt, threadVars, op, retired, owed>>

-----------------------------------------------------------------------------
(* SIGNAL and WAIT                                                         *)

\* Mutant of PendingLeft: the word is cleared for a dead waiter, too.
PendingLeftNone(w, all) == IF w # None THEN {} ELSE all

\* The word is cleared once it has been written into a waiter's frame.
PendingLeft(w, all) == IF w # None /\ alive[w] THEN {} ELSE all

\* signal and signal_from_kernel, on whatever core.
Signal(c, n, b) ==
  /\ Free(c) /\ Unlocked(n)
  /\ owed' = owed \cup {b}
  /\ LET w == nt[n].waiter
         all == nt[n].pending \cup {b}
     IN /\ nt' = [nt EXCEPT ![n] = [pending |-> PendingLeft(w, all), waiter |-> None]]
        /\ frame' = IF w # None /\ alive[w]
                    THEN [frame EXCEPT ![w] = [res |-> "OK", from |-> None, bits |-> all]]
                    ELSE frame
        /\ op' = IF w # None THEN [op EXCEPT ![c] = Waking(n, w, None)] ELSE op
  /\ UNCHANGED <<ep, alive, ipc, frist, wait, serving, retired, panic>>

\* Signals are pending (the thread goes on with them) or the waiter's place is taken
\* (ERR_EP_FULL): either way the deadline has been armed and nobody blocks.
WaitReturns(t, n, tm) ==
  /\ Running(t) /\ Holds(t, n, "READ") /\ MayTime(t, tm) /\ Unlocked(n)
  /\ nt[n].pending # {} \/ nt[n].waiter # None
  /\ Arm(t, tm)
  /\ nt' = [nt EXCEPT ![n].pending = {}]
  /\ owed' = owed \ nt[n].pending
  /\ UNCHANGED <<ep, alive, ipc, frame, wait, serving, op, retired, panic>>

WaitBlocks(t, n, tm) ==
  /\ Running(t) /\ Holds(t, n, "READ") /\ MayTime(t, tm) /\ Unlocked(n)
  /\ nt[n].pending = {} /\ nt[n].waiter = None
  /\ Arm(t, tm)
  /\ nt' = [nt EXCEPT ![n].waiter = t]
  /\ ipc' = [ipc EXCEPT ![t] = TRUE]
  /\ wait' = [wait EXCEPT ![t] = [k |-> "wait", obj |-> n, timed |-> tm]]
  /\ UNCHANGED <<ep, alive, frame, serving, op, retired, owed, panic>>

\* A woken thread runs again and reads its result.  A call that is over makes the request
\* stale, wherever a server still has it.
Return(t) ==
  /\ Free(CoreOf[t]) /\ alive[t] /\ ~ipc[t] /\ wait[t] # User
  /\ serving' = [s \in Threads |-> [e \in Endpoints |->
       IF s = t /\ wait[t] = [k |-> "recv", obj |-> e, timed |-> FALSE] /\ frame[t].res = "OK"
       THEN frame[t].from
       ELSE IF serving[s][e] = t /\ wait[t].k = "call" THEN "stale" ELSE serving[s][e]]]
  /\ owed' = IF frame[t].res = "OK" THEN owed \ frame[t].bits ELSE owed
  /\ wait' = [wait EXCEPT ![t] = User]
  /\ frame' = [s \in Threads |->
       IF s = t THEN NoFrame
       ELSE IF frame[s].from = t /\ wait[t].k = "call" THEN [frame[s] EXCEPT !.from = "stale"]
       ELSE frame[s]]
  /\ UNCHANGED <<ep, nt, alive, ipc, frist, op, retired, panic>>

-----------------------------------------------------------------------------
(* The tick, death, and the sweeps over all objects                        *)

\* Mutants of TimeoutFrame and SignOff: no result is written; the thread stays entered at its
\* object.
TimeoutFrameSilent(t) == frame[t]
SignOffNever(out) == {}

\* frist_befund: the guarded reason still stands; otherwise the signal was first.
Released(t, D) == t \in D /\ ipc[t]

\* reschedule writes the result word of a released thread and nothing else.
TimeoutFrame(t) == [frame[t] EXCEPT !.res = "TIMEOUT"]

\* The released threads are taken off every object, after the scheduler lock is released.
SignOff(out) == out \X Objs

Armed(c) == {t \in Threads : CoreOf[t] = c /\ alive[t] /\ frist[t]}

\* The deadline half of a tick on core c; D are those of the armed deadlines that are due.
Tick(c, D) ==
  /\ Free(c) /\ D # {}
  /\ frist' = [t \in Threads |-> frist[t] /\ t \notin D]
  /\ ipc' = [t \in Threads |-> ipc[t] /\ ~Released(t, D)]
  /\ frame' = [t \in Threads |-> IF Released(t, D) THEN TimeoutFrame(t) ELSE frame[t]]
  /\ LET todo == SignOff({t \in D : Released(t, D)}) IN
     op' = IF todo = {} THEN op
           ELSE [op EXCEPT ![c] = [Idle EXCEPT !.k = "purge", !.todo = todo]]
  /\ UNCHANGED <<ep, nt, alive, wait, serving, retired, owed, panic>>

\* Mutant of PurgedEp: only the queues are cleaned, the reply token stays.
PurgedEpQueues(r, t) ==
  [r EXCEPT !.senders = Without(@, t), !.receivers = Without(@, t)]

\* Endpoint::purge_thread
PurgedEp(r, t) ==
  [r EXCEPT !.senders = Without(@, t), !.receivers = Without(@, t),
            !.caller = IF @ = t THEN None ELSE @,
            !.owner = IF r.caller = t THEN None ELSE @]

\* The sweep after a tick, and the notification half of the sweep after a death.
Purge(c, t, o) ==
  /\ op[c].k = "purge" /\ <<t, o>> \in op[c].todo /\ Unlocked(o) /\ ~panic
  /\ ep' = IF o \in Endpoints THEN [ep EXCEPT ![o] = PurgedEp(@, t)] ELSE ep
  /\ nt' = IF o \in Notifications /\ nt[o].waiter = t
           THEN [nt EXCEPT ![o].waiter = None] ELSE nt
  /\ op' = [op EXCEPT ![c] = IF op[c].todo = {<<t, o>>} THEN Idle
                             ELSE [op[c] EXCEPT !.todo = op[c].todo \ {<<t, o>>}]]
  /\ UNCHANGED <<threadVars, retired, owed, panic>>

\* exit, fault, or kill_remote from core c, which refuses a running thread: never the caller
\* of a rendezvous under way.
Die(c, t) ==
  /\ Free(c) /\ t \in world.mortal /\ alive[t]
  /\ \A d \in Cores : op[d].self # t
  /\ alive' = [alive EXCEPT ![t] = FALSE]
  /\ ipc' = [ipc EXCEPT ![t] = FALSE]
  /\ owed' = owed \ frame[t].bits
  /\ retired' = retired \ {t}
  /\ op' = [op EXCEPT ![c] = [Idle EXCEPT !.k = "death", !.todo = {t} \X Endpoints, !.to = t]]
  /\ frist' = [frist EXCEPT ![t] = FALSE]
  /\ frame' = [frame EXCEPT ![t] = NoFrame]
  /\ wait' = [wait EXCEPT ![t] = User]
  /\ serving' = [serving EXCEPT ![t] = NoDebt]
  /\ UNCHANGED <<ep, nt, panic>>

\* purge_ipc_queues takes IPC_ORPHANS for a batch of endpoints.
SweepBegin(c) ==
  /\ op[c].k = "death" /\ ~panic
  /\ \A d \in Cores : op[d].k # "sweep"
  /\ op' = [op EXCEPT ![c].k = "sweep"]
  /\ UNCHANGED <<ep, nt, threadVars, retired, owed, panic>>

\* Mutant of OwnerDied: the reply token of the dead server is not given up.
OwnerDiedNot(p, t) == FALSE

\* owner_died: the dead thread owed an answer here.
OwnerDied(p, t) == p.owner = t

\* One endpoint of the sweep: purge_thread, then owner_died.
SweepEp(c, e) ==
  LET t == op[c].to
      p == PurgedEp(ep[e], t)
  IN /\ op[c].k = "sweep" /\ <<t, e>> \in op[c].todo /\ Unlocked(e) /\ ~panic
     /\ ep' = [ep EXCEPT ![e] = IF OwnerDied(p, t)
                                  THEN [p EXCEPT !.caller = None, !.owner = None] ELSE p]
     /\ op' = [op EXCEPT ![c].todo = @ \ {<<t, e>>},
                         ![c].orphans = IF OwnerDied(p, t) THEN @ \cup {p.caller} ELSE @]
     /\ UNCHANGED <<nt, threadVars, retired, owed, panic>>

\* unblock_with_error for one orphan, after the endpoint locks are released.
Orphan(c, t) ==
  /\ op[c].k = "gone" \/ (op[c].k = "sweep" /\ op[c].todo = {})
  /\ t \in op[c].orphans /\ ~panic
  /\ frame' = IF alive[t] THEN [frame EXCEPT ![t] = [res |-> "GONE", from |-> None, bits |-> {}]]
                          ELSE frame
  /\ ipc' = [ipc EXCEPT ![t] = FALSE]
  /\ op' = [op EXCEPT ![c] = IF op[c].k = "gone" THEN Idle
                             ELSE [op[c] EXCEPT !.orphans = op[c].orphans \ {t}]]
  /\ UNCHANGED <<ep, nt, alive, frist, wait, serving, retired, owed, panic>>

\* All endpoints done, no orphan left: IPC_ORPHANS is released, the notifications follow.
SweepEnd(c) ==
  /\ op[c].k = "sweep" /\ op[c].todo = {} /\ op[c].orphans = {} /\ ~panic
  /\ op' = [op EXCEPT ![c] = IF Notifications = {} THEN Idle
                             ELSE [Idle EXCEPT !.k = "purge", !.todo = {op[c].to} \X Notifications]]
  /\ UNCHANGED <<ep, nt, threadVars, retired, owed, panic>>

-----------------------------------------------------------------------------
(* Exchanging a server, revoking a reply                                   *)

Managing(c, e) == Free(c) /\ world.reloading /\ Unlocked(e)

SetQuiescing(c, e, q) ==
  /\ Managing(c, e) /\ ep[e].quiescing # q
  /\ ep' = [ep EXCEPT ![e].quiescing = q]
  /\ UNCHANGED <<nt, threadVars, op, retired, owed, panic>>

\* rebind_server with the new instance already waiting, as the loader uses it.
RebindServer(c, e, old, new) ==
  /\ Managing(c, e) /\ old # new
  /\ ep[e].quiescing /\ ep[e].senders = <<>> /\ ep[e].caller = None
  /\ ToSet(ep[e].receivers) = {old, new}
  /\ ep' = [ep EXCEPT ![e].receivers = Without(@, old)]
  /\ retired' = retired \cup {old}
  /\ UNCHANGED <<nt, threadVars, op, owed, panic>>

RetireReceiver(c, e, t) ==
  /\ Managing(c, e) /\ t \in ToSet(ep[e].receivers)
  /\ ep' = [ep EXCEPT ![e].receivers = Without(@, t)]
  /\ retired' = retired \cup {t}
  /\ UNCHANGED <<nt, threadVars, op, owed, panic>>

\* migrate_owner: the caller becomes a sender again, for the next instance to take over.
MigrateOwner(c, e, s) ==
  /\ Managing(c, e)
  /\ ep[e].owner = s /\ ep[e].caller # None /\ ~Full(ep[e].senders)
  /\ ep' = [ep EXCEPT ![e].senders = Append(@, ep[e].caller), ![e].caller = None,
                      ![e].owner = None]
  /\ UNCHANGED <<nt, threadVars, op, retired, owed, panic>>

\* endpoint_quiesce_owner and endpoint_abort_call: the open call ends with ERR_SERVER_GONE.
AbortCall(c, e) ==
  /\ Managing(c, e) /\ ep[e].caller # None
  /\ ep' = [ep EXCEPT ![e].caller = None, ![e].owner = None]
  /\ op' = [op EXCEPT ![c] = [Idle EXCEPT !.k = "gone", !.orphans = {ep[e].caller}]]
  /\ UNCHANGED <<nt, threadVars, retired, owed, panic>>

-----------------------------------------------------------------------------
Step ==
  \/ \E t \in Threads :
       \/ Return(t)
       \/ \E e \in Endpoints :
            \/ \E tm \in BOOLEAN :
                 CallRefused(t, e, tm) \/ CallRendezvous(t, e, tm) \/ CallQueued(t, e, tm)
            \/ RecvRendezvous(t, e) \/ RecvQueued(t, e) \/ RecvRefused(t, e) \/ Reply(t, e)
       \/ \E n \in Notifications, tm \in BOOLEAN : WaitReturns(t, n, tm) \/ WaitBlocks(t, n, tm)
  \/ \E c \in Cores :
       \/ Wake(c) \/ SwitchToDead(c) \/ SweepBegin(c) \/ SweepEnd(c)
       \/ \E n \in Notifications, b \in world.badges : Signal(c, n, b)
       \/ \E D \in SUBSET Armed(c) : Tick(c, D)
       \/ \E t \in Threads :
            \/ Die(c, t) \/ Orphan(c, t)
            \/ \E o \in Objs : Purge(c, t, o)
       \/ \E e \in Endpoints :
            \/ SweepEp(c, e) \/ AbortCall(c, e)
            \/ \E q \in BOOLEAN : SetQuiescing(c, e, q)
            \/ \E t \in Threads :
                 \/ RetireReceiver(c, e, t) \/ MigrateOwner(c, e, t)
                 \/ \E new \in Threads : RebindServer(c, e, t, new)

Next == Step /\ UNCHANGED world

\* The steps of a kernel operation after its first.
Proceed(c) ==
  \/ Wake(c) \/ SweepBegin(c) \/ SweepEnd(c)
  \/ \E e \in Endpoints : SweepEp(c, e)
  \/ \E t \in Threads : Orphan(c, t) \/ \E o \in Objs : Purge(c, t, o)

\* A kernel operation runs to its end; a due deadline meets a tick of its core.
Fairness ==
  /\ \A c \in Cores : WF_moving(Proceed(c))
  /\ \A t \in Threads :
       SF_moving(\E D \in SUBSET Armed(CoreOf[t]) : t \in D /\ Tick(CoreOf[t], D))

Spec == Init /\ [][Next]_vars /\ Fairness

-----------------------------------------------------------------------------
(* Properties                                                              *)

\* The state stays within the types of Endpoint, Notification and the thread's part; a
\* queue never holds more than QUEUE_CAP threads.
TypeOK ==
  /\ ep \in [Endpoints -> Endpoint]
  /\ \A e \in Endpoints : Len(ep[e].senders) <= QueueCap /\ Len(ep[e].receivers) <= QueueCap
  /\ nt \in [Notifications -> Notification]
  /\ alive \in [Threads -> BOOLEAN] /\ ipc \in [Threads -> BOOLEAN]
  /\ frist \in [Threads -> BOOLEAN] /\ frame \in [Threads -> Frame]
  /\ wait \in [Threads -> Syscall]
  /\ serving \in [Threads -> [Endpoints -> Threads \cup {None, "stale"}]]
  /\ op \in [Cores -> Operation]
  /\ retired \subseteq Threads /\ owed \subseteq Badges /\ panic \in BOOLEAN
  /\ world \in World

\* The places where thread t is entered, to be woken from there.
Places(t) ==
  LET At(q) == {i \in DOMAIN q : q[i] = t} IN
  (UNION {{<<e, "sender", i>> : i \in At(ep[e].senders)}
            \cup {<<e, "receiver", i>> : i \in At(ep[e].receivers)}
            \cup (IF ep[e].caller = t THEN {<<e, "caller", 0>>} ELSE {}) : e \in Endpoints})
    \cup {<<n, "waiter", 0>> : n \in {m \in Notifications : nt[m].waiter = t}}

\* A sweep will still take t off object o.
SweepPending(t, o) ==
  \E c \in Cores : \/ <<t, o>> \in op[c].todo
                   \/ op[c].k \in {"death", "sweep"} /\ op[c].to = t /\ o \in Notifications

\* D11 of caprock-ipc: a thread blocked in IPC is entered exactly once, at the object it waits
\* for, unless a kernel operation under way is about to wake it or its server was retired.
NoThreadLost ==
  \A t \in Threads : alive[t] /\ ipc[t] =>
    \/ Cardinality(Places(t)) = 1 /\ \A p \in Places(t) : p[1] = wait[t].obj
    \/ Places(t) = {} /\ \/ t \in retired
                         \/ \E c \in Cores : op[c].to = t \/ t \in op[c].orphans

\* The reverse ("ein Nicht-mehr-Wartender in einer Struktur"), audit's dead entries among
\* them: whoever is entered at an object waits there, or a sweep is about to remove it.
NoGhost ==
  \A t \in Threads : \A p \in Places(t) :
    \/ alive[t] /\ ipc[t] /\ wait[t].obj = p[1]
    \/ SweepPending(t, p[1])
    \/ \E c \in Cores : op[c].self = t

\* sender_count: a sender and a receiver meet at once, so never do both wait.
NoMissedRendezvous == \A e \in Endpoints : ep[e].receivers # <<>> => ep[e].senders = <<>>

\* A caller that comes back with OK has the answer to the request it is waiting for, not one
\* to an earlier request or another client's.
ReplyMatches ==
  \A t \in Threads : alive[t] /\ wait[t].k = "call" /\ frame[t].res = "OK" => frame[t].from = t

\* No thread leaves an IPC wait with a result word nobody wrote.
ResultWritten ==
  \A t \in Threads : alive[t] /\ ~ipc[t] /\ wait[t] # User =>
    frame[t].res # None \/ \E c \in Cores : op[c].self = t

\* The kernel writes into the saved frame of a thread only while that thread waits.
FrameUntouched == \A t \in Threads : alive[t] /\ wait[t] = User => frame[t] = NoFrame

\* The rights that are in the world, and three habits the properties depend on: nobody with a
\* deadline can become an orphan; an endpoint has one server, which uses no deadlines; or it has
\* one client.  (See the README for what happens otherwise.)
Servers(e) == {t \in Threads : Holds(t, e, "READ")}
Clients(e) == {t \in Threads : Holds(t, e, "WRITE")}
OrphansWait ==
  \/ world.timed = {}
  \/ ~world.reloading /\ \A e \in Endpoints : Servers(e) \cap world.mortal = {}
OneServer(e) == Servers(e) \cap world.timed = {} /\ \A s, t \in Servers(e) : s = t
OneClient(e) == \A s, t \in Clients(e) : s = t

\* D11 both ways: who is blocked is entered once where it waits, and who is entered waits there;
\* without a reload, sender and receiver never wait side by side.
EnteredWhereWaiting ==
  /\ OrphansWait => NoGhost
  /\ OrphansWait /\ (\A e \in Endpoints : OneServer(e) \/ OneClient(e)) => NoThreadLost
  /\ world.reloading \/ NoMissedRendezvous

\* A thread comes back with what belongs to its own wait: a written result word, no write after
\* it has left, and the answer to its own request.
FramesTrue ==
  /\ OrphansWait => ResultWritten /\ FrameUntouched
  /\ OrphansWait /\ (\A e \in Endpoints : OneServer(e)) => ReplyMatches

\* Where nobody waits with a deadline, a signalled badge stays pending, or sits in the frame of a
\* live thread that will see OK.  (With deadlines it can be lost: see SignalWins.)
SignalNotLost ==
  world.timed = {} =>
  owed \subseteq (UNION {nt[n].pending : n \in Notifications})
    \cup (UNION {frame[t].bits : t \in {u \in Threads : alive[u] /\ frame[u].res = "OK"}})

\* begin_quiesce: while an endpoint is quiesced, its open transactions only become fewer.
Open(e) == ToSet(ep[e].senders) \cup ({ep[e].caller} \ {None})
QuiesceShrinks ==
  [][\A e \in Endpoints : ep[e].quiescing /\ ep'[e].quiescing => Open(e)' \subseteq Open(e)]_vars

\* Reply-Liveness: the caller of a server that dies does not hang.
OrphanReleased ==
  \A t \in Threads, e \in Endpoints :
    (alive[t] /\ ipc[t] /\ ep[e].caller = t /\ ~alive[ep[e].owner])
      ~> (~alive[t] \/ ~ipc[t] \/ panic)

\* A wait with a deadline ends.
TimedWaitReturns == \A t \in Threads : (frist[t] /\ ipc[t]) ~> ~ipc[t]

\* Nobody hangs: neither the caller of a server that dies, nor who waits with a deadline.
WaitsEnd == OrphanReleased /\ TimedWaitReturns

\* frist_loeschen: the deadline belonged to its own wait, so that only a thread whose current
\* wait has a timeout comes back with ERR_TIMEOUT.
TimeoutOwnWait ==
  \A t \in Threads : alive[t] /\ wait[t] # User /\ frame[t].res = "TIMEOUT" => wait[t].timed

\* fristen_faellig: the signal wins; no ERR_TIMEOUT over an OK just delivered.
SignalWins == [][\A t \in Threads : frame[t].res = "OK" => frame'[t].res # "TIMEOUT"]_vars

\* call: a receiver killed meanwhile is discarded "statt zu paniken".
NoPanic == ~panic

\* The exchanged server instance runs into its missing capability and ends by itself.
RetiredServerEnds == \A t \in Threads : t \in retired ~> ~ipc[t]
=============================================================================
