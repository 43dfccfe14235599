----------------------------- MODULE IrqDelivery -----------------------------
(***************************************************************************)
(* Deferred delivery of device interrupts (kernel/src/system.rs: irq_hook, *)
(* drain_pending_irqs, dispatch_bind_irq).  The binding table is a set of  *)
(* arrays of atomics without a lock: the hook runs in interrupt context,   *)
(* the drain in the reschedule path of whatever core comes first, a bind   *)
(* in the system call of a driver, and each reads or writes one atomic     *)
(* after the other.  A core is in at most one of them.                     *)
(*                                                                         *)
(* On aarch64 the hook masks the interrupt at the distributor and a new    *)
(* binding enables it; on x86_64 both are no-ops (Maskable = FALSE).       *)
(***************************************************************************)
EXTENDS Naturals, FiniteSets

CONSTANTS Vectors,    \* interrupt numbers of devices
          NNtfns,     \* notifications 0 .. NNtfns - 1
          NIRQ_BIND,  \* entries of the binding table
          Cores,
          Requests,   \* the BIND_IRQ calls that are made: [v, n, b]
          Maskable

None == "none"
Slots == 0 .. NIRQ_BIND - 1
Ntfns == 0 .. NNtfns - 1
Badges == {r.b : r \in Requests}
NoBits == 0

ASSUME IrqAssumption ==
  /\ NNtfns \in Nat \ {0} /\ NIRQ_BIND \in Nat \ {0} /\ Maskable \in BOOLEAN
  /\ \A r \in Requests : r.v \in Vectors /\ r.n \in Ntfns /\ r.b \in Nat \ {NoBits}

VARIABLES
  slot,     \* IRQ_INTID, IRQ_NTFN, IRQ_BADGE
  pending,  \* IRQ_PENDING
  any,      \* IRQ_ANY_PENDING
  line,     \* interrupts raised and not yet taken by a core
  masked,   \* disabled at the distributor
  word,     \* the pending word of each notification
  op,       \* what each core is in the middle of
  todo      \* BIND_IRQ calls not made yet

vars == <<slot, pending, any, line, masked, word, op, todo>>

Idle == [k |-> "idle", at |-> None, v |-> None, i |-> 0, n |-> 0, b |-> NoBits]

Places == {None, "mark", "any", "start", "slot", "ntfn", "badge", "signal", "claim"}
OpType == [k : {"idle", "hook", "drain", "bind"}, at : Places,
           v : Vectors \cup {None}, i : 0 .. NIRQ_BIND, n : Ntfns, b : Badges \cup {NoBits}]

\* Entries name vectors and notifications, a core is in one of the three routines.
TypeOK ==
  /\ slot \in [Slots -> [v : Vectors \cup {None}, n : Ntfns, b : Badges \cup {NoBits}]]
  /\ pending \in [Slots -> BOOLEAN] /\ any \in BOOLEAN
  /\ line \subseteq Vectors /\ masked \subseteq Vectors
  /\ word \in [Ntfns -> SUBSET Badges]
  /\ op \in [Cores -> OpType]
  /\ todo \subseteq Requests

\* The arrays start with intid u32::MAX, notification 0 and badge 0.
Init ==
  /\ slot = [i \in Slots |-> [v |-> None, n |-> 0, b |-> NoBits]]
  /\ pending = [i \in Slots |-> FALSE] /\ any = FALSE
  /\ line = {} /\ masked = IF Maskable THEN Vectors ELSE {}
  /\ word = [n \in Ntfns |-> {}]
  /\ op = [c \in Cores |-> Idle]
  /\ todo = Requests

SlotsOf(v) == {i \in Slots : slot[i].v = v}
First(S) == CHOOSE i \in S : \A j \in S : i <= j
Stage(c, a) == op' = [op EXCEPT ![c].at = a]
Done(c) == op' = [op EXCEPT ![c] = Idle]

-----------------------------------------------------------------------------
(* The device and the hook                                                 *)

Raise(v) ==
  /\ v \notin line
  /\ line' = line \cup {v}
  /\ UNCHANGED <<slot, pending, any, masked, word, op, todo>>

\* The interrupt reaches an idle core and is acknowledged; a number nobody has bound is dropped.
Take(c, v) ==
  /\ op[c] = Idle /\ v \in line \ masked
  /\ line' = line \ {v}
  /\ op' = IF SlotsOf(v) = {} THEN op
           ELSE [op EXCEPT ![c] = [Idle EXCEPT !.k = "hook", !.at = "mark", !.v = v,
                                               !.i = First(SlotsOf(v))]]
  /\ UNCHANGED <<slot, pending, any, masked, word, todo>>

\* Mutant of HookMark: the interrupt is masked, the bit is not set.
HookMarkForgets(c) ==
  /\ op[c].k = "hook" /\ op[c].at = "mark"
  /\ masked' = IF Maskable THEN masked \cup {op[c].v} ELSE masked
  /\ Stage(c, "any")
  /\ UNCHANGED <<slot, pending, any, line, word, todo>>

HookMark(c) ==
  /\ op[c].k = "hook" /\ op[c].at = "mark"
  /\ masked' = IF Maskable THEN masked \cup {op[c].v} ELSE masked
  /\ pending' = [pending EXCEPT ![op[c].i] = TRUE]
  /\ Stage(c, "any")
  /\ UNCHANGED <<slot, any, line, word, todo>>

\* A handled interrupt is followed by a reschedule, whose first act is the drain.
HookAny(c) ==
  /\ op[c].k = "hook" /\ op[c].at = "any"
  /\ any' = TRUE
  /\ op' = [op EXCEPT ![c] = [Idle EXCEPT !.k = "drain", !.at = "start"]]
  /\ UNCHANGED <<slot, pending, line, masked, word, todo>>

-----------------------------------------------------------------------------
(* The drain                                                               *)

InDrain(c, a) == op[c].k = "drain" /\ op[c].at = a

\* In the reschedule of a tick, or of the hook before.
DrainStart(c) ==
  /\ op[c] = Idle \/ InDrain(c, "start")
  /\ any
  /\ any' = FALSE
  /\ op' = [op EXCEPT ![c] = [Idle EXCEPT !.k = "drain", !.at = "slot"]]
  /\ UNCHANGED <<slot, pending, line, masked, word, todo>>

\* Another core has taken the check in the meantime.
DrainNothing(c) ==
  /\ InDrain(c, "start") /\ ~any
  /\ Done(c)
  /\ UNCHANGED <<slot, pending, any, line, masked, word, todo>>

DrainSlot(c) ==
  /\ InDrain(c, "slot") /\ op[c].i < NIRQ_BIND
  /\ pending' = [pending EXCEPT ![op[c].i] = FALSE]
  /\ op' = IF pending[op[c].i] THEN [op EXCEPT ![c].at = "ntfn"]
           ELSE [op EXCEPT ![c].i = @ + 1]
  /\ UNCHANGED <<slot, any, line, masked, word, todo>>

\* Notification and badge are two loads.
DrainNtfn(c) ==
  /\ InDrain(c, "ntfn")
  /\ op' = [op EXCEPT ![c].at = "badge", ![c].n = slot[op[c].i].n]
  /\ UNCHANGED <<slot, pending, any, line, masked, word, todo>>

DrainBadge(c) ==
  /\ InDrain(c, "badge")
  /\ op' = [op EXCEPT ![c].at = "signal", ![c].b = slot[op[c].i].b]
  /\ UNCHANGED <<slot, pending, any, line, masked, word, todo>>

\* signal_from_kernel; the mask is not lifted here.
DrainSignal(c) ==
  /\ InDrain(c, "signal")
  /\ word' = [word EXCEPT ![op[c].n] = @ \cup ({op[c].b} \ {NoBits})]
  /\ op' = [op EXCEPT ![c].at = "slot", ![c].i = @ + 1]
  /\ UNCHANGED <<slot, pending, any, line, masked, todo>>

\* Mutant of DrainEnd: the fast check is cleared when the pass is over.
DrainEndClears(c) ==
  /\ InDrain(c, "slot") /\ op[c].i = NIRQ_BIND
  /\ any' = FALSE
  /\ Done(c)
  /\ UNCHANGED <<slot, pending, line, masked, word, todo>>

DrainEnd(c) ==
  /\ InDrain(c, "slot") /\ op[c].i = NIRQ_BIND
  /\ Done(c)
  /\ UNCHANGED <<slot, pending, any, line, masked, word, todo>>

\* A driver's WAIT takes the whole word.
Consume(n) ==
  /\ word[n] # {}
  /\ word' = [word EXCEPT ![n] = {}]
  /\ UNCHANGED <<slot, pending, any, line, masked, op, todo>>

-----------------------------------------------------------------------------
(* BIND_IRQ                                                                *)

\* dispatch_bind_irq looks for an entry of this interrupt first and replaces it.
Bind(c, r) ==
  /\ op[c] = Idle /\ r \in todo
  /\ todo' = todo \ {r}
  /\ op' = [op EXCEPT ![c] =
       IF SlotsOf(r.v) # {}
       THEN [k |-> "bind", at |-> "ntfn", v |-> None, i |-> First(SlotsOf(r.v)), n |-> r.n, b |-> r.b]
       ELSE [k |-> "bind", at |-> "claim", v |-> r.v, i |-> 0, n |-> r.n, b |-> r.b]]
  /\ UNCHANGED <<slot, pending, any, line, masked, word>>

InBind(c, a) == op[c].k = "bind" /\ op[c].at = a

\* bind_irq_vidx: compare_exchange on the free entries; none free is ERR_IRQ_FULL.
BindClaim(c) ==
  /\ InBind(c, "claim")
  /\ IF SlotsOf(None) = {} THEN Done(c) /\ UNCHANGED slot
     ELSE LET i == First(SlotsOf(None)) IN
          /\ slot' = [slot EXCEPT ![i].v = op[c].v]
          /\ op' = [op EXCEPT ![c].at = "ntfn", ![c].i = i]
  /\ UNCHANGED <<pending, any, line, masked, word, todo>>

BindNtfn(c) ==
  /\ InBind(c, "ntfn")
  /\ slot' = [slot EXCEPT ![op[c].i].n = op[c].n]
  /\ Stage(c, "badge")
  /\ UNCHANGED <<pending, any, line, masked, word, todo>>

\* A new binding is enabled at the distributor, a replaced one is not touched there.
BindBadge(c) ==
  /\ InBind(c, "badge")
  /\ slot' = [slot EXCEPT ![op[c].i].b = op[c].b]
  /\ masked' = masked \ {op[c].v}
  /\ Done(c)
  /\ UNCHANGED <<pending, any, line, word, todo>>

-----------------------------------------------------------------------------
Hook(c) == HookMark(c) \/ HookAny(c)
Drain(c) == DrainNothing(c) \/ DrainSlot(c) \/ DrainNtfn(c) \/ DrainBadge(c) \/ DrainSignal(c) \/ DrainEnd(c)
Binding(c) == BindClaim(c) \/ BindNtfn(c) \/ BindBadge(c)

Next ==
  \/ \E c \in Cores : Hook(c) \/ DrainStart(c) \/ Drain(c) \/ Binding(c)
  \/ \E c \in Cores, r \in Requests : Bind(c, r)
  \/ \E c \in Cores, v \in Vectors : Take(c, v)
  \/ \E v \in Vectors : Raise(v)
  \/ \E n \in Ntfns : Consume(n)

\* A core finishes what it has begun.  Interrupts are enabled again and again and the timer
\* keeps coming: an interrupt that can be taken is taken, a set fast check is seen.
Fairness ==
  /\ \A c \in Cores : WF_vars(Hook(c) \/ Drain(c) \/ Binding(c) \/ (op[c] # Idle /\ DrainStart(c)))
  /\ SF_vars(\E c \in Cores : DrainStart(c))
  /\ \A v \in Vectors : SF_vars(\E c \in Cores : Take(c, v))

Spec == Init /\ [][Next]_vars /\ Fairness

-----------------------------------------------------------------------------
(* Properties                                                              *)

\* The fast check of drain_pending_irqs never hides a pending bit: while IRQ_ANY_PENDING is
\* clear, a set bit is still ahead of a drain in progress or its hook is about to set the check.
NothingHidden ==
  \A i \in Slots : pending[i] /\ ~any =>
    \E c \in Cores : \/ op[c].k = "drain" /\ op[c].at = "slot" /\ op[c].i <= i
                     \/ op[c].k = "drain" /\ op[c].at \in {"ntfn", "badge", "signal"} /\ op[c].i < i
                     \/ op[c].k = "hook" /\ op[c].at = "any"

\* Coalescing is not losing: an interrupt raised for a vector whose only binding is in place is
\* followed by its badge in its notification.
EachArrives ==
  \A r \in Requests :
    (r.v \in line /\ \E i \in Slots : slot[i] = [v |-> r.v, n |-> r.n, b |-> r.b])
      ~> r.b \in word[r.n]

\* What the drain signals is a binding a driver has asked for: never the notification of one
\* and the badge of another, nor the initial entries.
NeverTorn ==
  \A c \in Cores : InDrain(c, "signal") =>
    [v |-> slot[op[c].i].v, n |-> op[c].n, b |-> op[c].b] \in Requests

\* Binding again replaces the entry instead of using up a second one.
OneEntryEach == \A v \in Vectors : Cardinality(SlotsOf(v)) <= 1
=============================================================================
