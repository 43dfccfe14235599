-------------------------- MODULE InterruptProofs --------------------------
(***************************************************************************)
(* Proofs about the delivery of interrupts, for any number of cores,       *)
(* vectors, notifications and entries of the binding table.                *)
(***************************************************************************)
EXTENDS IrqDelivery, Msi, QueueProofs

\* The walks over the binding table stop at an entry that matches.
LEMMA FirstInSet ==
  ASSUME NEW v, SlotsOf(v) # {}
  PROVE  First(SlotsOf(v)) \in SlotsOf(v) /\ First(SlotsOf(v)) \in 0 .. NIRQ_BIND - 1
<1>1. SlotsOf(v) \in SUBSET Nat /\ SlotsOf(v) \subseteq 0 .. NIRQ_BIND - 1
  BY IrqAssumption DEF SlotsOf, Slots
<1>2. \E i \in SlotsOf(v) : \A j \in SlotsOf(v) : i <= j
  BY <1>1, LeastNatural
<1> QED
  BY <1>1, <1>2 DEF First

-----------------------------------------------------------------------------
(* Types                                                                   *)

\* Between two atomics a routine holds the number of an entry that exists, and the hook a vector.
EntryNamed ==
  \A c \in Cores :
    /\ op[c].at \in {"mark", "any", "ntfn", "badge", "signal"} => op[c].i \in Slots
    /\ op[c].k = "hook" => op[c].v \in Vectors

\* The state of an idle core.
LEMMA IdleType == Idle \in OpType /\ Idle.k = "idle" /\ Idle.at = None /\ Idle.i = 0
BY IrqAssumption DEF Idle, OpType, Places, Ntfns, NoBits

-----------------------------------------------------------------------------
(* Types and the fast check                                                *)

\* The part of the type invariant that is not about the state of the cores.
TablesOK ==
  /\ slot \in [Slots -> [v : Vectors \cup {None}, n : Ntfns, b : Badges \cup {NoBits}]]
  /\ pending \in [Slots -> BOOLEAN] /\ any \in BOOLEAN
  /\ line \subseteq Vectors /\ masked \subseteq Vectors
  /\ word \in [Ntfns -> SUBSET Badges]
  /\ todo \subseteq Requests

\* A core whose state c will still see to the pending bit of entry i while the check is clear.
Sees(o, i) == \/ o.k = "drain" /\ o.at = "slot" /\ o.i <= i
              \/ o.k = "drain" /\ o.at \in {"ntfn", "badge", "signal"} /\ o.i < i
              \/ o.k = "hook" /\ o.at = "any"

IInv == TypeOK /\ EntryNamed /\ NothingHidden

\* One core takes a step to state r: what is left to show about the cores and about the bits
\* that only this core saw to.
LEMMA CoreStep ==
  ASSUME IInv, NEW c \in Cores, NEW r \in OpType, op' = [op EXCEPT ![c] = r],
         r.at \in {"mark", "any", "ntfn", "badge", "signal"} => r.i \in Slots,
         r.k = "hook" => r.v \in Vectors, TablesOK',
         \A i \in Slots : pending'[i] /\ ~any' /\ ~Sees(r, i) =>
           pending[i] /\ ~any /\ ~Sees(op[c], i)
  PROVE  IInv'
<1>1. op' \in [Cores -> OpType] /\ op'[c] = r /\ \A d \in Cores \ {c} : op'[d] = op[d]
  BY DEF IInv, TypeOK
<1>2. TypeOK' /\ EntryNamed'
  BY <1>1 DEF IInv, TypeOK, TablesOK, EntryNamed
<1>3. ASSUME NEW i \in Slots, pending'[i], ~any' PROVE \E d \in Cores : Sees(op'[d], i)
  <2>1. CASE Sees(r, i)
    BY <2>1, <1>1
  <2>2. CASE ~Sees(r, i)
    <3>1. PICK d \in Cores : Sees(op[d], i)
      BY <1>3, <2>2 DEF IInv, NothingHidden, Sees
    <3>2. d # c
      BY <3>1, <1>3, <2>2
    <3> QED BY <3>1, <3>2, <1>1
  <2> QED BY <2>1, <2>2
<1> QED
  BY <1>2, <1>3 DEF IInv, NothingHidden, Sees

\* A step of no core that sets no pending bit.
LEMMA OtherStep ==
  ASSUME IInv, op' = op, TablesOK', pending' = pending, any' = any
  PROVE  IInv'
BY DEF IInv, TypeOK, TablesOK, EntryNamed, NothingHidden

LEMMA InitIInv == Init => IInv
<1> SUFFICES ASSUME Init PROVE IInv
  OBVIOUS
<1>1. op \in [Cores -> OpType] /\ EntryNamed
  BY IdleType DEF Init, EntryNamed, None
<1>2. slot \in [Slots -> [v : Vectors \cup {None}, n : Ntfns, b : Badges \cup {NoBits}]]
  BY IrqAssumption DEF Init, Ntfns
<1>3. masked \subseteq Vectors
  BY IrqAssumption DEF Init
<1> QED
  BY <1>1, <1>2, <1>3 DEF Init, IInv, TypeOK, NothingHidden

\* Every step of the hook, the drain and the bind keeps the types and hides no pending bit.
LEMMA NextIInv == IInv /\ [Next]_vars => IInv'
<1> SUFFICES ASSUME IInv, [Next]_vars PROVE IInv'
  OBVIOUS
<1> USE IrqAssumption
<1>0. /\ op \in [Cores -> OpType] /\ TablesOK
      /\ \A c \in Cores : op[c] \in OpType /\ op[c].i \in 0 .. NIRQ_BIND
      /\ \A c \in Cores : op[c].v \in Vectors \cup {None} /\ op[c].n \in Ntfns
      /\ \A c \in Cores : op[c].b \in Badges \cup {NoBits}
  BY DEF IInv, TypeOK, TablesOK, OpType
<1>1. ASSUME NEW c \in Cores, HookMark(c) PROVE IInv'
  <2> DEFINE r == [op[c] EXCEPT !.at = "any"]
  <2>1. op' = [op EXCEPT ![c] = r]
    BY <1>1 DEF HookMark, Stage
  <2>2. r \in OpType /\ r.k = "hook" /\ r.at = "any" /\ r.i = op[c].i /\ r.v = op[c].v
    BY <1>0, <1>1 DEF HookMark, OpType, Places
  <2>3. op[c].i \in Slots /\ op[c].v \in Vectors
    BY <1>1 DEF IInv, HookMark, EntryNamed
  <2>4. TablesOK'
    BY <1>0, <1>1, <2>3 DEF HookMark, TablesOK
  <2> HIDE DEF r
  <2> QED BY <2>1, <2>2, <2>3, <2>4, CoreStep DEF Sees
<1>2. ASSUME NEW c \in Cores, HookAny(c) PROVE IInv'
  <2> DEFINE r == [Idle EXCEPT !.k = "drain", !.at = "start"]
  <2>1. op' = [op EXCEPT ![c] = r] /\ any' /\ TablesOK'
    BY <1>0, <1>2 DEF HookAny, TablesOK
  <2>2. r \in OpType /\ r.k = "drain" /\ r.at = "start" /\ r.i = 0
    BY IdleType DEF OpType, Places
  <2> HIDE DEF r
  <2> QED BY <2>1, <2>2, CoreStep
<1>3. ASSUME NEW c \in Cores, DrainStart(c) PROVE IInv'
  <2> DEFINE r == [Idle EXCEPT !.k = "drain", !.at = "slot"]
  <2>1. op' = [op EXCEPT ![c] = r] /\ TablesOK'
    BY <1>0, <1>3 DEF DrainStart, TablesOK
  <2>2. r \in OpType /\ r.k = "drain" /\ r.at = "slot" /\ r.i = 0
    BY IdleType DEF OpType, Places
  <2> HIDE DEF r
  <2>3. \A i \in Slots : Sees(r, i)
    BY <2>2 DEF Sees, Slots
  <2> QED BY <2>1, <2>2, <2>3, CoreStep
<1>4. ASSUME NEW c \in Cores, DrainNothing(c) \/ DrainEnd(c) PROVE IInv'
  <2>1. op' = [op EXCEPT ![c] = Idle] /\ TablesOK' /\ pending' = pending /\ any' = any
    BY <1>0, <1>4 DEF DrainNothing, DrainEnd, Done, TablesOK
  <2>2. \A i \in Slots : ~Sees(op[c], i)
    BY <1>4 DEF Sees, Slots, DrainNothing, DrainEnd, InDrain
  <2> QED BY <2>1, <2>2, IdleType, CoreStep DEF None
<1>5. ASSUME NEW c \in Cores, DrainSlot(c) PROVE IInv'
  <2>1. op[c].i \in Slots /\ op[c].k = "drain" /\ op[c].at = "slot"
    BY <1>0, <1>5 DEF DrainSlot, InDrain, Slots
  <2>2. TablesOK' /\ any' = any /\ pending' = [pending EXCEPT ![op[c].i] = FALSE]
    BY <1>0, <1>5 DEF DrainSlot, TablesOK
  <2>3. CASE pending[op[c].i]
    <3> DEFINE r == [op[c] EXCEPT !.at = "ntfn"]
    <3>1. op' = [op EXCEPT ![c] = r]
      BY <1>5, <2>3 DEF DrainSlot
    <3>2. r \in OpType /\ r.k = "drain" /\ r.at = "ntfn" /\ r.i = op[c].i
      BY <1>0, <1>5 DEF DrainSlot, InDrain, OpType, Places
    <3> HIDE DEF r
    <3>3. \A i \in Slots : pending'[i] /\ ~Sees(r, i) => pending[i] /\ ~Sees(op[c], i)
      BY <1>0, <2>1, <2>2, <3>2 DEF Sees, Slots, TablesOK
    <3> QED BY <2>1, <2>2, <3>1, <3>2, <3>3, CoreStep
  <2>4. CASE ~pending[op[c].i]
    <3> DEFINE r == [op[c] EXCEPT !.i = op[c].i + 1]
    <3>1. op' = [op EXCEPT ![c] = r]
      BY <1>5, <2>4 DEF DrainSlot
    <3>2. r \in OpType /\ r.k = "drain" /\ r.at = "slot" /\ r.i = op[c].i + 1
      BY <1>0, <1>5, <2>1 DEF DrainSlot, InDrain, Slots, OpType
    <3> HIDE DEF r
    <3>3. \A i \in Slots : pending'[i] /\ ~Sees(r, i) => pending[i] /\ ~Sees(op[c], i)
      BY <1>0, <2>1, <2>2, <3>2 DEF Sees, Slots, TablesOK
    <3> QED BY <2>1, <2>2, <3>1, <3>2, <3>3, CoreStep
  <2> QED BY <2>3, <2>4
<1>6. ASSUME NEW c \in Cores, DrainNtfn(c) PROVE IInv'
  <2> DEFINE r == [op[c] EXCEPT !.at = "badge", !.n = slot[op[c].i].n]
  <2>1. op' = [op EXCEPT ![c] = r] /\ TablesOK' /\ any' = any /\ pending' = pending
    BY <1>0, <1>6 DEF DrainNtfn, TablesOK
  <2>2. op[c].i \in Slots /\ op[c].k = "drain" /\ op[c].at = "ntfn"
    BY <1>6 DEF DrainNtfn, InDrain, IInv, EntryNamed
  <2>3. r \in OpType /\ r.k = "drain" /\ r.at = "badge" /\ r.i = op[c].i
    BY <1>0, <2>2, ZenonT(40) DEF OpType, Places, TablesOK
  <2> HIDE DEF r
  <2> QED BY <2>1, <2>2, <2>3, CoreStep DEF Sees
<1>7. ASSUME NEW c \in Cores, DrainBadge(c) PROVE IInv'
  <2> DEFINE r == [op[c] EXCEPT !.at = "signal", !.b = slot[op[c].i].b]
  <2>1. op' = [op EXCEPT ![c] = r] /\ TablesOK' /\ any' = any /\ pending' = pending
    BY <1>0, <1>7 DEF DrainBadge, TablesOK
  <2>2. op[c].i \in Slots /\ op[c].k = "drain" /\ op[c].at = "badge"
    BY <1>7 DEF DrainBadge, InDrain, IInv, EntryNamed
  <2>3. r \in OpType /\ r.k = "drain" /\ r.at = "signal" /\ r.i = op[c].i
    BY <1>0, <2>2, ZenonT(40) DEF OpType, Places, TablesOK
  <2> HIDE DEF r
  <2> QED BY <2>1, <2>2, <2>3, CoreStep DEF Sees
<1>8. ASSUME NEW c \in Cores, DrainSignal(c) PROVE IInv'
  <2> DEFINE r == [op[c] EXCEPT !.at = "slot", !.i = op[c].i + 1]
  <2>1. op' = [op EXCEPT ![c] = r]
    BY <1>0, <1>8 DEF DrainSignal
  <2>2. TablesOK' /\ any' = any /\ pending' = pending
    BY <1>0, <1>8 DEF DrainSignal, TablesOK
  <2>3. op[c].i \in Slots /\ op[c].k = "drain" /\ op[c].at = "signal"
    BY <1>8 DEF DrainSignal, InDrain, IInv, EntryNamed
  <2>4. r \in OpType /\ r.k = "drain" /\ r.at = "slot" /\ r.i = op[c].i + 1
    <3>1. op[c].i + 1 \in 0 .. NIRQ_BIND
      BY <2>3 DEF Slots
    <3> QED BY <1>0, <2>3, <3>1 DEF OpType, Places
  <2> HIDE DEF r
  <2>5. \A i \in Slots : ~Sees(r, i) => ~Sees(op[c], i)
    BY <2>3, <2>4 DEF Sees, Slots
  <2> QED BY <2>1, <2>2, <2>3, <2>4, <2>5, CoreStep
<1>9. ASSUME NEW c \in Cores, BindClaim(c) PROVE IInv'
  <2>1. /\ any' = any /\ pending' = pending /\ op[c].k = "bind"
        /\ \A i \in Slots : ~Sees(op[c], i)
    BY <1>9 DEF BindClaim, InBind, Sees
  <2>2. CASE SlotsOf(None) = {}
    <3>1. op' = [op EXCEPT ![c] = Idle] /\ TablesOK'
      BY <1>0, <1>9, <2>2 DEF BindClaim, Done, TablesOK
    <3> QED BY <2>1, <3>1, IdleType, CoreStep DEF None
  <2>3. CASE SlotsOf(None) # {}
    <3> DEFINE i == First(SlotsOf(None))
               r == [op[c] EXCEPT !.at = "ntfn", !.i = i]
    <3>1. op' = [op EXCEPT ![c] = r] /\ slot' = [slot EXCEPT ![i].v = op[c].v]
      BY <1>9, <2>3 DEF BindClaim
    <3>2. i \in Slots /\ i \in 0 .. NIRQ_BIND
      BY <2>3, FirstInSet DEF Slots
    <3>3. r \in OpType /\ r.k = "bind" /\ r.at = "ntfn" /\ r.i = i
      BY <1>0, <2>1, <3>2 DEF OpType, Places
    <3> HIDE DEF r, i
    <3>4. TablesOK'
      BY <1>0, <1>9, <3>1, <3>2 DEF BindClaim, TablesOK
    <3> QED BY <2>1, <3>1, <3>2, <3>3, <3>4, CoreStep
  <2> QED BY <2>2, <2>3
<1>10. ASSUME NEW c \in Cores, BindNtfn(c) PROVE IInv'
  <2> DEFINE r == [op[c] EXCEPT !.at = "badge"]
  <2>1. op' = [op EXCEPT ![c] = r] /\ any' = any /\ pending' = pending
    BY <1>10 DEF BindNtfn, Stage
  <2>2. op[c].i \in Slots /\ op[c].k = "bind" /\ op[c].at = "ntfn"
    BY <1>10 DEF BindNtfn, InBind, IInv, EntryNamed
  <2>3. r \in OpType /\ r.k = "bind" /\ r.at = "badge" /\ r.i = op[c].i
    BY <1>0, <2>2 DEF OpType, Places
  <2>4. TablesOK'
    BY <1>0, <1>10, <2>2 DEF BindNtfn, TablesOK
  <2> HIDE DEF r
  <2> QED BY <2>1, <2>2, <2>3, <2>4, CoreStep DEF Sees
<1>11. ASSUME NEW c \in Cores, BindBadge(c) PROVE IInv'
  <2>1. op' = [op EXCEPT ![c] = Idle] /\ any' = any /\ pending' = pending
    BY <1>11 DEF BindBadge, Done
  <2>2. op[c].i \in Slots /\ op[c].k = "bind" /\ op[c].at = "badge"
    BY <1>11 DEF BindBadge, InBind, IInv, EntryNamed
  <2>3. TablesOK'
    BY <1>0, <1>11, <2>2 DEF BindBadge, TablesOK
  <2> QED BY <2>1, <2>2, <2>3, IdleType, CoreStep DEF Sees, None
<1>12. ASSUME NEW c \in Cores, NEW q \in Requests, Bind(c, q) PROVE IInv'
  <2> DEFINE j == First(SlotsOf(q.v))
             r == IF SlotsOf(q.v) # {}
                  THEN [k |-> "bind", at |-> "ntfn", v |-> None, i |-> j, n |-> q.n, b |-> q.b]
                  ELSE [k |-> "bind", at |-> "claim", v |-> q.v, i |-> 0, n |-> q.n, b |-> q.b]
  <2>1. op' = [op EXCEPT ![c] = r] /\ any' = any /\ pending' = pending /\ TablesOK'
    BY <1>0, <1>12 DEF Bind, TablesOK
  <2>2. SlotsOf(q.v) # {} => j \in Slots /\ j \in 0 .. NIRQ_BIND
    BY FirstInSet DEF Slots
  <2>3. q.b \in Badges /\ q.n \in Ntfns /\ q.v \in Vectors
    BY DEF Badges
  <2>4. r \in OpType /\ r.k = "bind" /\ (r.at = "ntfn" => r.i \in Slots) /\ r.at \in {"ntfn", "claim"}
    BY <2>2, <2>3 DEF OpType, Places
  <2>5. op[c].k = "idle"
    BY <1>12, IdleType DEF Bind
  <2> HIDE DEF r
  <2> QED BY <2>1, <2>4, <2>5, CoreStep DEF Sees
<1>13. ASSUME NEW c \in Cores, NEW v \in Vectors, Take(c, v) PROVE IInv'
  <2>1. any' = any /\ pending' = pending /\ TablesOK' /\ op[c].k = "idle"
    BY <1>0, <1>13, IdleType DEF Take, TablesOK
  <2>2. CASE SlotsOf(v) = {}
    BY <1>13, <2>1, <2>2, OtherStep DEF Take
  <2>3. CASE SlotsOf(v) # {}
    <3> DEFINE i == First(SlotsOf(v))
               r == [Idle EXCEPT !.k = "hook", !.at = "mark", !.v = v, !.i = i]
    <3>1. i \in Slots /\ i \in 0 .. NIRQ_BIND
      BY <2>3, FirstInSet DEF Slots
    <3>2. r \in OpType /\ r.k = "hook" /\ r.at = "mark" /\ r.i = i /\ r.v = v
      BY <3>1, IdleType DEF OpType, Places
    <3>3. op' = [op EXCEPT ![c] = r]
      BY <1>13, <2>3 DEF Take
    <3> HIDE DEF r, i
    <3> QED BY <2>1, <3>1, <3>2, <3>3, CoreStep DEF Sees
  <2> QED BY <2>2, <2>3
<1>14. ASSUME NEW v \in Vectors, Raise(v) PROVE IInv'
  BY <1>0, <1>14, OtherStep DEF Raise, TablesOK
<1>15. ASSUME NEW n \in Ntfns, Consume(n) PROVE IInv'
  BY <1>0, <1>15, OtherStep DEF Consume, TablesOK
<1>16. CASE UNCHANGED vars
  BY <1>0, <1>16, OtherStep DEF vars, TablesOK
<1> QED
  BY <1>1, <1>2, <1>3, <1>4, <1>5, <1>6, <1>7, <1>8, <1>9, <1>10, <1>11, <1>12, <1>13, <1>14,
     <1>15, <1>16 DEF Next, Hook, Drain, Binding

\* Bindings, notifications and the state of every core stay within their types, and an entry that
\* a routine works on exists.
THEOREM IrqTypeOK == Spec => []TypeOK
<1>1. IInv => TypeOK
  BY DEF IInv
<1> QED BY <1>1, InitIInv, NextIInv, PTL DEF Spec

\* For any number of cores, entries and drivers: while IRQ_ANY_PENDING is clear no pending bit is
\* left that neither a drain in progress nor a hook will come to.
THEOREM IrqNothingHidden == Spec => []NothingHidden
<1>1. IInv => NothingHidden
  BY DEF IInv
<1> QED BY <1>1, InitIInv, NextIInv, PTL DEF Spec

-----------------------------------------------------------------------------
(* Grants of message vectors                                               *)

\* The vectors a device has taken, and the entries it has reserved, written and had confirmed,
\* by the state r of its grant.
Vec(r, v) ==
  \/ r.pc = "take" /\ r.s <= v /\ v < r.s + r.i
  \/ /\ r.pc \in {"reserve", "write", "inval", "arm", "granted", "quiesce", "withdraw", "free"}
     /\ r.s <= v /\ v < r.s + Rows
Ent(r, x) ==
  /\ r.pc \in {"write", "inval", "arm", "granted", "quiesce", "withdraw"}
  /\ r.h <= x /\ x < r.h + Rows
Wr(r, x) ==
  \/ r.pc = "write" /\ r.h <= x /\ x < r.h + r.i
  \/ r.pc = "inval" /\ r.h <= x /\ x < r.h + r.i + 1
  \/ r.pc \in {"arm", "granted", "quiesce", "withdraw"} /\ r.h <= x /\ x < r.h + Rows
Cf(r, x) ==
  \/ r.pc \in {"write", "inval"} /\ r.h <= x /\ x < r.h + r.i
  \/ r.pc \in {"arm", "granted", "quiesce", "withdraw"} /\ r.h <= x /\ x < r.h + Rows

\* A grant that is being built or held stays within the pool and the table.
Fits(r) ==
  /\ r.pc \notin {"none", "look"} => r.s + Rows <= MSI_VEKTOR_POOL
  /\ r.pc \in {"write", "inval", "arm", "granted", "quiesce", "withdraw"} =>
       r.h + Rows <= IRT_EINTRAEGE
  /\ r.pc \in {"take", "write", "inval"} => r.i < Rows
  /\ r.pc = "reserve" => r.i = 0

\* The pool is exactly what the devices have taken, each vector by one of them.
PoolTrue ==
  /\ \A v \in MsiVectors : v \in taken <=> \E d \in Devices : Vec(dev[d], v)
  /\ \A d, e \in Devices : \A v \in MsiVectors : Vec(dev[d], v) /\ Vec(dev[e], v) => d = e

\* A reserved entry belongs to one device; who writes entries holds the lock.
EntriesTrue ==
  /\ \A d \in Devices : \A x \in Indices : Ent(dev[d], x) => x \in used
  /\ \A d, e \in Devices : \A x \in Indices : Ent(dev[d], x) /\ Ent(dev[e], x) => d = e
  /\ \A d \in Devices : dev[d].pc \in {"write", "inval"} <=> lock = d

\* What is present in the table was written by the holder of the entry, and what the unit keeps
\* of a confirmed entry is what the table says.
TableTrue ==
  /\ \A x \in Indices : table[x].d # Nobody => \E d \in Devices : Wr(dev[d], x)
  /\ \A d \in Devices : \A x \in Indices :
       Wr(dev[d], x) => table[x] = [d |-> d, v |-> dev[d].s + (x - dev[d].h)]
  /\ \A d \in Devices : \A x \in Indices :
       Cf(dev[d], x) => cache[x].d = Nobody \/ cache[x] = table[x]

\* While the configuration space answers only a device that holds a grant is armed.
ArmedTrue ==
  ~DeadConfig => \A d \in Devices :
    dev[d].armed => /\ dev[d].pc \in {"granted", "quiesce"}
                    /\ \A x \in Indices : x \in dev[d].rows => Ent(dev[d], x)

MsiInv == /\ MsiTypeOK /\ \A d \in Devices : Fits(dev[d])
          /\ PoolTrue /\ EntriesTrue /\ TableTrue /\ ArmedTrue

\* Blocks of vectors and of entries are intervals.
LEMMA BlockInterval ==
  ASSUME NEW s \in Nat, NEW n \in Nat
  PROVE  {s + i : i \in 0 .. n - 1} = s .. s + n - 1
<1>1. ASSUME NEW x \in s .. s + n - 1 PROVE \E i \in 0 .. n - 1 : x = s + i
  <2>1. x - s \in 0 .. n - 1 /\ x = s + (x - s)
    OBVIOUS
  <2> QED BY <2>1
<1> QED BY <1>1

LEMMA MsiStart == ASSUME MsiAssumption PROVE MsiInit => MsiInv
<1> SUFFICES ASSUME MsiInit PROVE MsiInv
  OBVIOUS
<1>1. Nothing \in DevType /\ Nothing.pc = "none" /\ Nothing.armed = FALSE
  BY DEF Nothing, DevType
<1>2. Absent \in Entry /\ Absent.d = Nobody
  BY DEF Absent, Entry
<1>3. MsiTypeOK
  BY <1>1, <1>2 DEF MsiInit, MsiTypeOK
<1>4. \A d \in Devices : dev[d].pc = "none" /\ dev[d].armed = FALSE /\ lock # d
  BY <1>1 DEF MsiInit, MsiAssumption
<1>5. \A x \in Indices : table[x].d = Nobody
  BY <1>2 DEF MsiInit
<1> QED
  BY <1>3, <1>4, <1>5 DEF MsiInv, Fits, PoolTrue, EntriesTrue, TableTrue, ArmedTrue, Vec, Ent, Wr, Cf, MsiInit

\* The step of one device from its state to r: the others stay where they are.
LEMMA DevStep ==
  ASSUME MsiTypeOK, NEW d \in Devices, NEW r \in DevType, dev' = [dev EXCEPT ![d] = r]
  PROVE  /\ dev' \in [Devices -> DevType] /\ dev'[d] = r
         /\ \A e \in Devices : e # d => dev'[e] = dev[e]
BY DEF MsiTypeOK

\* The fields of a device's state.
LEMMA DevFields ==
  ASSUME MsiTypeOK, NEW d \in Devices
  PROVE  /\ dev[d] \in DevType /\ dev[d].s \in Nat /\ dev[d].i \in Nat /\ dev[d].h \in Nat
         /\ dev[d].armed \in BOOLEAN /\ dev[d].rows \in SUBSET Indices
BY DEF MsiTypeOK, DevType

\* Only written entries are confirmed, only reserved ones are written.
LEMMA Nested ==
  ASSUME MsiAssumption, NEW r \in DevType, Fits(r), NEW x \in Nat
  PROVE  (Cf(r, x) => Wr(r, x)) /\ (Wr(r, x) => Ent(r, x))
BY DEF MsiAssumption, DevType, Fits, Cf, Wr, Ent

\* A device takes vectors nobody has, and gives back only its own.
LEMMA PoolStep ==
  ASSUME MsiInv, NEW d \in Devices, NEW r \in DevType, dev' = [dev EXCEPT ![d] = r],
         \A v \in MsiVectors : Vec(r, v) => Vec(dev[d], v) \/ v \notin taken,
         \A v \in MsiVectors : v \in taken' <=> Vec(r, v) \/ (v \in taken /\ ~Vec(dev[d], v))
  PROVE  PoolTrue'
<1>1. dev'[d] = r /\ \A e \in Devices : e # d => dev'[e] = dev[e]
  BY DevStep DEF MsiInv
<1>2. ASSUME NEW v \in MsiVectors PROVE v \in taken' <=> \E e \in Devices : Vec(dev'[e], v)
  BY <1>1 DEF MsiInv, PoolTrue
<1>3. ASSUME NEW e \in Devices, NEW f \in Devices, NEW v \in MsiVectors,
             Vec(dev'[e], v), Vec(dev'[f], v)
      PROVE  e = f
  <2>1. \A g \in Devices : Vec(dev'[g], v) /\ g # d => Vec(dev[g], v) /\ ~Vec(dev[d], v) /\ v \in taken
    BY <1>1 DEF MsiInv, PoolTrue
  <2>2. e = d \/ f = d => e = d /\ f = d
    BY <1>1, <1>3, <2>1
  <2> QED BY <1>3, <2>1, <2>2 DEF MsiInv, PoolTrue
<1> QED BY <1>2, <1>3 DEF PoolTrue, MsiVectors

\* A device reserves entries nobody has, and frees only its own.
LEMMA EntriesStep ==
  ASSUME MsiInv, NEW d \in Devices, NEW r \in DevType, dev' = [dev EXCEPT ![d] = r],
         \A x \in Indices : Ent(r, x) => x \in used' /\ (Ent(dev[d], x) \/ x \notin used),
         \A x \in Indices : x \in used /\ ~Ent(dev[d], x) => x \in used',
         r.pc \in {"write", "inval"} <=> lock' = d,
         \A e \in Devices : e # d => (lock = e <=> lock' = e)
  PROVE  EntriesTrue'
<1>1. dev'[d] = r /\ \A e \in Devices : e # d => dev'[e] = dev[e]
  BY DevStep DEF MsiInv
<1>2. ASSUME NEW e \in Devices, NEW x \in Indices, Ent(dev'[e], x) PROVE x \in used'
  BY <1>1, <1>2 DEF MsiInv, EntriesTrue
<1>3. ASSUME NEW e \in Devices, NEW f \in Devices, NEW x \in Indices,
             Ent(dev'[e], x), Ent(dev'[f], x)
      PROVE  e = f
  <2>1. \A g \in Devices : Ent(dev'[g], x) /\ g # d => Ent(dev[g], x) /\ ~Ent(dev[d], x) /\ x \in used
    BY <1>1 DEF MsiInv, EntriesTrue
  <2>2. e = d \/ f = d => e = d /\ f = d
    BY <1>1, <1>3, <2>1
  <2> QED BY <1>3, <2>1, <2>2 DEF MsiInv, EntriesTrue
<1>4. \A e \in Devices : dev'[e].pc \in {"write", "inval"} <=> lock' = e
  BY <1>1 DEF MsiInv, EntriesTrue
<1> QED BY <1>2, <1>3, <1>4 DEF EntriesTrue, Indices

\* A device changes only entries it has reserved; the unit forgets entries, or keeps what the
\* table says.
LEMMA TableStep ==
  ASSUME MsiAssumption, MsiInv, NEW d \in Devices, NEW r \in DevType,
         dev' = [dev EXCEPT ![d] = r],
         \A x \in Indices : ~Ent(dev[d], x) =>
           table'[x] = table[x] /\ (cache'[x] = cache[x] \/ cache'[x] = table[x]),
         \A x \in Indices : table'[x].d # Nobody =>
           Wr(r, x) \/ (table'[x] = table[x] /\ ~Wr(dev[d], x)),
         \A x \in Indices : Wr(r, x) => table'[x] = [d |-> d, v |-> r.s + (x - r.h)],
         \A x \in Indices : Cf(r, x) => cache'[x].d = Nobody \/ cache'[x] = table'[x]
  PROVE  TableTrue'
<1>1. dev'[d] = r /\ \A e \in Devices : e # d => dev'[e] = dev[e]
  BY DevStep DEF MsiInv
<1>2. ASSUME NEW x \in Indices, table'[x].d # Nobody PROVE \E e \in Devices : Wr(dev'[e], x)
  BY <1>1, <1>2 DEF MsiInv, TableTrue
<1>3. ASSUME NEW e \in Devices, NEW x \in Indices, e # d, Wr(dev[e], x) \/ Cf(dev[e], x)
      PROVE  ~Ent(dev[d], x)
  <2>1. x \in Nat /\ dev[e] \in DevType /\ Fits(dev[e])
    BY DevFields DEF MsiInv, Indices, MsiAssumption
  <2>2. Ent(dev[e], x)
    BY <1>3, <2>1, Nested
  <2> QED BY <1>3, <2>2 DEF MsiInv, EntriesTrue
<1>4. ASSUME NEW e \in Devices, NEW x \in Indices, Wr(dev'[e], x)
      PROVE  table'[x] = [d |-> e, v |-> dev'[e].s + (x - dev'[e].h)]
  <2>1. CASE e = d
    BY <1>1, <1>4, <2>1
  <2>2. CASE e # d
    BY <1>1, <1>3, <1>4, <2>2 DEF MsiInv, TableTrue
  <2> QED BY <2>1, <2>2
<1>5. ASSUME NEW e \in Devices, NEW x \in Indices, Cf(dev'[e], x)
      PROVE  cache'[x].d = Nobody \/ cache'[x] = table'[x]
  <2>1. CASE e = d
    BY <1>1, <1>5, <2>1
  <2>2. CASE e # d
    BY <1>1, <1>3, <1>5, <2>2 DEF MsiInv, TableTrue
  <2> QED BY <2>1, <2>2
<1> QED BY <1>2, <1>4, <1>5 DEF TableTrue, Indices, Nobody

\* Arming: what a device can still do after its step.
LEMMA ArmedStep ==
  ASSUME MsiInv, NEW d \in Devices, NEW r \in DevType, dev' = [dev EXCEPT ![d] = r],
         ~DeadConfig /\ r.armed =>
           r.pc \in {"granted", "quiesce"} /\ \A x \in Indices : x \in r.rows => Ent(r, x)
  PROVE  ArmedTrue'
<1>1. dev'[d] = r /\ \A e \in Devices : e # d => dev'[e] = dev[e]
  BY DevStep DEF MsiInv
<1> QED BY <1>1 DEF MsiInv, ArmedTrue, Indices

\* A device between grants has neither vectors nor entries and, while the configuration space
\* answers, is not armed.
LEMMA Unbound ==
  ASSUME MsiInv, NEW d \in Devices
  PROVE  /\ Forget(d) \in DevType /\ Forget(d).pc = "none"
         /\ Forget(d).armed = dev[d].armed /\ Forget(d).rows = dev[d].rows
<1>1. Nothing \in DevType /\ Nothing.pc = "none"
  BY DEF Nothing, DevType
<1>2. dev[d].armed \in BOOLEAN /\ dev[d].rows \in SUBSET Indices
  BY DevFields DEF MsiInv
<1> QED BY <1>1, <1>2 DEF Forget, DevType

\* What the two searches choose: a block inside the pool, or the table, that is free.
LEMMA LookFinds ==
  ASSUME MsiAssumption, NEW s0 \in Nat, FreeFrom(s0) # {}
  PROVE  LET s == Min0(FreeFrom(s0)) IN s \in Nat /\ s + Rows <= MSI_VEKTOR_POOL
<1> DEFINE S == FreeFrom(s0)
<1>1. S \in SUBSET Nat
  BY DEF FreeFrom, MsiVectors, MsiAssumption
<1>2. PICK m \in S : \A y \in S : m <= y
  BY <1>1, LeastNatural
<1>3. Min0(S) \in S
  BY <1>2 DEF Min0
<1>4. ASSUME NEW s \in S PROVE s + Rows <= MSI_VEKTOR_POOL
  <2>1. s \in Nat /\ s + (Rows - 1) \in Block(s)
    BY <1>1 DEF Block, RowSet, MsiAssumption
  <2>2. s + (Rows - 1) \in MsiVectors
    BY <2>1 DEF FreeFrom
  <2> QED BY <2>1, <2>2 DEF MsiVectors, MsiAssumption
<1> HIDE DEF S
<1> QED BY <1>1, <1>3, <1>4 DEF S

LEMMA ReserveFinds ==
  ASSUME MsiAssumption, FreeIndices # {}
  PROVE  LET h == Min0(FreeIndices)
         IN /\ h \in Nat /\ h + Rows <= IRT_EINTRAEGE
            /\ \A x \in h .. h + Rows - 1 : x \notin used
            /\ {h + i : i \in RowSet} = h .. h + Rows - 1
<1> DEFINE S == FreeIndices
           h == Min0(S)
<1>1. S \in SUBSET Nat
  BY DEF FreeIndices, Indices, MsiAssumption
<1>2. PICK m \in S : \A y \in S : m <= y
  BY <1>1, LeastNatural
<1>3. h \in S
  BY <1>2 DEF Min0
<1>4. h \in Nat /\ {h + i : i \in RowSet} \subseteq Indices \ used
  BY <1>1, <1>3 DEF FreeIndices
<1>5. {h + i : i \in RowSet} = h .. h + Rows - 1
  BY <1>4, BlockInterval DEF RowSet, MsiAssumption
<1>6. h + (Rows - 1) \in Indices
  BY <1>4, <1>5 DEF MsiAssumption
<1> HIDE DEF S, h
<1>7. h + Rows <= IRT_EINTRAEGE
  BY <1>4, <1>6 DEF MsiAssumption, Indices
<1> QED BY <1>4, <1>5, <1>7 DEF S, h

\* Every step of a grant, of its way back and of the unit keeps the invariant.
LEMMA MsiStep == ASSUME MsiAssumption PROVE MsiInv /\ [MsiNext]_(msiVars) => MsiInv'
<1> SUFFICES ASSUME MsiInv, [MsiNext]_(msiVars) PROVE MsiInv'
  OBVIOUS
<1> USE MsiAssumption
<1>0. /\ MsiTypeOK /\ Rows \in Nat \ {0} /\ Nobody \notin Devices
      /\ Absent \in Entry /\ Absent.d = Nobody
  BY DEF MsiInv, MsiAssumption, Absent, Entry
<1>00. ASSUME NEW d \in Devices, NEW r \in DevType, dev' = [dev EXCEPT ![d] = r], Fits(r),
              taken' \subseteq MsiVectors, used' \subseteq Indices,
              lock' \in Devices \cup {Nobody}, table' \in [Indices -> Entry],
              cache' \in [Indices -> Entry]
       PROVE  MsiTypeOK' /\ \A e \in Devices : Fits(dev'[e])
  BY <1>00, DevStep DEF MsiInv, MsiTypeOK, MsiVectors, Indices, Entry, DevType, Nobody
<1>1. ASSUME NEW d \in Devices, Look(d) PROVE MsiInv'
  <2>0. dev[d] \in DevType /\ dev[d].s \in Nat /\ dev[d].pc \in {"none", "look"}
    BY <1>0, <1>1, DevFields DEF Look, At
  <2>1. PICK r \in DevType :
          /\ dev' = [dev EXCEPT ![d] = r] /\ r.pc \in {"none", "take"}
          /\ r.pc = "take" => r.s + Rows <= MSI_VEKTOR_POOL /\ r.i = 0
          /\ r.armed = dev[d].armed /\ r.rows = dev[d].rows
    <3>1. CASE FreeFrom(dev[d].s) = {}
      BY <1>1, <3>1, Unbound DEF Look
    <3>2. CASE FreeFrom(dev[d].s) # {}
      <4> DEFINE s == Min0(FreeFrom(dev[d].s))
                 r == [dev[d] EXCEPT !.pc = "take", !.i = 0, !.s = s]
      <4>1. dev' = [dev EXCEPT ![d] = r]
        BY <1>1, <3>2 DEF Look
      <4>2. s \in Nat /\ s + Rows <= MSI_VEKTOR_POOL
        BY <2>0, <3>2, LookFinds
      <4> HIDE DEF s
      <4>3. r \in DevType /\ r.pc = "take" /\ r.i = 0 /\ r.s = s /\ r.armed = dev[d].armed /\ r.rows = dev[d].rows
        BY <2>0, <4>2 DEF DevType
      <4> HIDE DEF r
      <4> QED BY <4>1, <4>2, <4>3
    <3> QED BY <3>1, <3>2
  <2>2. taken' = taken /\ used' = used /\ lock' = lock /\ table' = table /\ cache' = cache
    BY <1>1 DEF Look
  <2>3. /\ \A v \in MsiVectors : ~Vec(r, v) /\ ~Vec(dev[d], v)
        /\ \A x \in Indices : ~Ent(r, x) /\ ~Ent(dev[d], x) /\ ~Wr(r, x) /\ ~Wr(dev[d], x) /\ ~Cf(r, x)
    BY <2>0, <2>1 DEF Vec, Ent, Wr, Cf, MsiVectors, DevType
  <2>4. MsiTypeOK' /\ \A e \in Devices : Fits(dev'[e])
    <3>1. Fits(r)
      BY <1>0, <2>1 DEF Fits
    <3> QED BY <1>0, <1>00, <2>1, <2>2, <3>1 DEF MsiTypeOK
  <2>5. PoolTrue'
    BY <2>1, <2>2, <2>3, PoolStep
  <2>6. EntriesTrue'
    BY <2>0, <2>1, <2>2, <2>3, EntriesStep DEF MsiInv, EntriesTrue
  <2>7. TableTrue'
    BY <2>1, <2>2, <2>3, TableStep
  <2>8. ArmedTrue'
    BY <2>0, <2>1, ArmedStep DEF MsiInv, ArmedTrue
  <2> QED BY <2>4, <2>5, <2>6, <2>7, <2>8 DEF MsiInv
<1>2. ASSUME NEW d \in Devices, TakeVector(d) PROVE MsiInv'
  <2>0. /\ dev[d] \in DevType /\ dev[d].s \in Nat /\ dev[d].i \in Nat /\ dev[d].pc = "take"
        /\ dev[d].s + Rows <= MSI_VEKTOR_POOL /\ dev[d].i < Rows
    BY <1>0, <1>2, DevFields DEF TakeVector, At, MsiInv, Fits
  <2> DEFINE s == dev[d].s
             v0 == dev[d].s + dev[d].i
  <2>1. CASE v0 \notin taken
    <3>1. PICK r \in DevType :
            /\ dev' = [dev EXCEPT ![d] = r]
            /\ \/ r.pc = "reserve" /\ dev[d].i + 1 = Rows /\ r.i = 0
               \/ r.pc = "take" /\ r.i = dev[d].i + 1 /\ r.i # Rows
            /\ r.s = s /\ r.armed = dev[d].armed /\ r.rows = dev[d].rows
      <4>1. CASE dev[d].i + 1 = Rows
        <5> DEFINE r == [dev[d] EXCEPT !.pc = "reserve", !.i = 0]
        <5>1. dev' = [dev EXCEPT ![d] = r]
          BY <1>2, <2>1, <4>1 DEF TakeVector
        <5>2. /\ r \in DevType /\ r.pc = "reserve" /\ r.i = 0 /\ r.s = s
              /\ r.armed = dev[d].armed /\ r.rows = dev[d].rows
          BY <2>0 DEF DevType
        <5> HIDE DEF r
        <5> QED BY <4>1, <5>1, <5>2
      <4>2. CASE dev[d].i + 1 # Rows
        <5> DEFINE r == [dev[d] EXCEPT !.i = dev[d].i + 1]
        <5>1. dev' = [dev EXCEPT ![d] = r]
          BY <1>2, <2>1, <4>2 DEF TakeVector
        <5>2. /\ r \in DevType /\ r.pc = "take" /\ r.s = s /\ r.armed = dev[d].armed
              /\ r.i = dev[d].i + 1 /\ r.rows = dev[d].rows
          BY <2>0 DEF DevType
        <5> HIDE DEF r
        <5> QED BY <4>2, <5>1, <5>2
      <4> QED BY <4>1, <4>2
    <3>2. taken' = taken \cup {v0} /\ used' = used /\ lock' = lock /\ table' = table /\ cache' = cache
      BY <1>2, <2>1 DEF TakeVector
    <3>3. v0 \in MsiVectors
      BY <1>0, <2>0 DEF MsiVectors, MsiAssumption
    <3>4. \A v \in MsiVectors : Vec(r, v) <=> Vec(dev[d], v) \/ v = v0
      BY <1>0, <2>0, <3>1 DEF Vec, MsiVectors, DevType
    <3>5. \A x \in Indices : ~Ent(r, x) /\ ~Ent(dev[d], x) /\ ~Wr(r, x) /\ ~Wr(dev[d], x) /\ ~Cf(r, x)
      BY <2>0, <3>1 DEF Ent, Wr, Cf
    <3>6. Fits(r)
      BY <1>0, <2>0, <3>1 DEF Fits, DevType
    <3>7. MsiTypeOK' /\ \A e \in Devices : Fits(dev'[e])
      BY <1>0, <1>00, <3>1, <3>2, <3>3, <3>6 DEF MsiTypeOK
    <3>8. \A v \in MsiVectors : Vec(dev[d], v) => v \in taken
      BY DEF MsiInv, PoolTrue
    <3>9. PoolTrue'
      <4>1. \A v \in MsiVectors : Vec(r, v) => Vec(dev[d], v) \/ v \notin taken
        BY <2>1, <3>4
      <4>2. \A v \in MsiVectors : v \in taken' <=> Vec(r, v) \/ (v \in taken /\ ~Vec(dev[d], v))
        BY <3>2, <3>4, <3>8
      <4> QED BY <3>1, <4>1, <4>2, PoolStep
    <3>10. EntriesTrue'
      BY <2>0, <3>1, <3>2, <3>5, EntriesStep DEF MsiInv, EntriesTrue
    <3>11. TableTrue'
      BY <3>1, <3>2, <3>5, TableStep
    <3>12. ArmedTrue'
      BY <2>0, <3>1, ArmedStep DEF MsiInv, ArmedTrue
    <3> QED BY <3>7, <3>9, <3>10, <3>11, <3>12 DEF MsiInv
  <2>2. CASE v0 \in taken
    <3> DEFINE r == [dev[d] EXCEPT !.pc = "look", !.i = 0, !.s = dev[d].s + 1]
    <3>1. dev' = [dev EXCEPT ![d] = r] /\ taken' = taken \ {s + i : i \in 0 .. dev[d].i - 1}
      BY <1>2, <2>2 DEF TakeVector
    <3>2. used' = used /\ lock' = lock /\ table' = table /\ cache' = cache
      BY <1>2, <2>2 DEF TakeVector
    <3>3. r \in DevType /\ r.pc = "look" /\ r.armed = dev[d].armed /\ r.rows = dev[d].rows
      <4>1. ASSUME NEW q \in Nat
            PROVE  LET z == [dev[d] EXCEPT !.pc = "look", !.i = 0, !.s = q]
                   IN z \in DevType /\ z.pc = "look" /\ z.armed = dev[d].armed /\ z.rows = dev[d].rows
        BY <2>0 DEF DevType
      <4>2. dev[d].s + 1 \in Nat
        BY <2>0
      <4> QED BY <4>1, <4>2
    <3> HIDE DEF r
    <3>4. \A v \in MsiVectors : ~Vec(r, v) /\ (Vec(dev[d], v) <=> v \in {s + i : i \in 0 .. dev[d].i - 1})
      <4>1. {s + i : i \in 0 .. dev[d].i - 1} = s .. s + dev[d].i - 1
        BY <2>0, BlockInterval
      <4> QED BY <2>0, <3>3, <4>1 DEF Vec, MsiVectors
    <3>5. \A x \in Indices : ~Ent(r, x) /\ ~Ent(dev[d], x) /\ ~Wr(r, x) /\ ~Wr(dev[d], x) /\ ~Cf(r, x)
      BY <2>0, <3>3 DEF Ent, Wr, Cf
    <3>7. MsiTypeOK' /\ \A e \in Devices : Fits(dev'[e])
      BY <1>0, <1>00, <3>1, <3>2, <3>3 DEF MsiTypeOK, Fits
    <3>9. PoolTrue'
      BY <3>1, <3>3, <3>4, PoolStep
    <3>10. EntriesTrue'
      BY <2>0, <3>1, <3>2, <3>3, <3>5, EntriesStep DEF MsiInv, EntriesTrue
    <3>11. TableTrue'
      BY <3>1, <3>2, <3>3, <3>5, TableStep
    <3>12. ArmedTrue'
      BY <2>0, <3>1, <3>3, ArmedStep DEF MsiInv, ArmedTrue
    <3> QED BY <3>7, <3>9, <3>10, <3>11, <3>12 DEF MsiInv
  <2> QED BY <2>1, <2>2
<1>3. ASSUME NEW d \in Devices, Reserve(d) PROVE MsiInv'
  <2>0. /\ dev[d] \in DevType /\ dev[d].s \in Nat /\ dev[d].i \in Nat /\ dev[d].pc = "reserve"
        /\ dev[d].s + Rows <= MSI_VEKTOR_POOL /\ dev[d].i = 0 /\ lock = Nobody
        /\ table' = table /\ cache' = cache
    BY <1>0, <1>3, DevFields DEF Reserve, At, MsiInv, Fits
  <2>1. \A x \in Indices : ~Ent(dev[d], x) /\ ~Wr(dev[d], x)
    BY <2>0 DEF Ent, Wr
  <2>2. CASE FreeIndices = {}
    <3> DEFINE r == Forget(d)
    <3>1. /\ dev' = [dev EXCEPT ![d] = r] /\ taken' = taken \ Block(dev[d].s)
          /\ used' = used /\ lock' = lock
      BY <1>3, <2>2 DEF Reserve, Nope
    <3>2. r \in DevType /\ r.pc = "none" /\ r.armed = dev[d].armed /\ r.rows = dev[d].rows
      BY Unbound
    <3> HIDE DEF r
    <3>3. \A v \in MsiVectors : ~Vec(r, v) /\ (Vec(dev[d], v) <=> v \in Block(dev[d].s))
      <4>1. Block(dev[d].s) = dev[d].s .. dev[d].s + Rows - 1
        BY <1>0, <2>0, BlockInterval DEF Block, RowSet
      <4> QED BY <1>0, <2>0, <3>2, <4>1 DEF Vec, MsiVectors
    <3>4. \A x \in Indices : ~Ent(r, x) /\ ~Wr(r, x) /\ ~Cf(r, x)
      BY <3>2 DEF Ent, Wr, Cf
    <3>5. Fits(r)
      BY <3>2 DEF Fits
    <3>6. MsiTypeOK' /\ \A e \in Devices : Fits(dev'[e])
      BY <1>0, <1>00, <2>0, <3>1, <3>2, <3>5 DEF MsiTypeOK
    <3>7. PoolTrue'
      BY <3>1, <3>2, <3>3, PoolStep
    <3>8. EntriesTrue'
      BY <1>0, <2>0, <2>1, <3>1, <3>2, <3>4, EntriesStep
    <3>9. TableTrue'
      BY <2>0, <2>1, <3>1, <3>2, <3>4, TableStep
    <3>10. ArmedTrue'
      BY <2>0, <3>1, <3>2, ArmedStep DEF MsiInv, ArmedTrue
    <3> QED BY <3>6, <3>7, <3>8, <3>9, <3>10 DEF MsiInv
  <2>3. CASE FreeIndices # {}
    <3> DEFINE h == Min0(FreeIndices)
               r == [dev[d] EXCEPT !.pc = "write", !.h = h]
    <3>1. /\ dev' = [dev EXCEPT ![d] = r] /\ used' = used \cup {h + i : i \in RowSet}
          /\ lock' = d /\ taken' = taken
      BY <1>3, <2>3 DEF Reserve
    <3>2. /\ h \in Nat /\ h + Rows <= IRT_EINTRAEGE /\ {h + i : i \in RowSet} = h .. h + Rows - 1
          /\ \A x \in h .. h + Rows - 1 : x \notin used
      BY <2>3, ReserveFinds
    <3> HIDE DEF h
    <3>3. /\ r \in DevType /\ r.pc = "write" /\ r.armed = dev[d].armed /\ r.rows = dev[d].rows
          /\ r.s = dev[d].s /\ r.h = h /\ r.i = dev[d].i
      BY <2>0, <3>2 DEF DevType
    <3> HIDE DEF r
    <3>4. \A v \in MsiVectors : Vec(r, v) <=> Vec(dev[d], v)
      BY <2>0, <3>3 DEF Vec
    <3>5. \A x \in Indices : (Ent(r, x) <=> x \in h .. h + Rows - 1) /\ ~Wr(r, x) /\ ~Cf(r, x)
      BY <1>0, <2>0, <3>2, <3>3 DEF Ent, Wr, Cf, Indices
    <3>6. Fits(r)
      BY <1>0, <2>0, <3>2, <3>3 DEF Fits
    <3>7. MsiTypeOK' /\ \A e \in Devices : Fits(dev'[e])
      <4>1. h .. h + Rows - 1 \subseteq Indices
        BY <1>0, <3>2 DEF Indices, MsiAssumption
      <4>2. used' \subseteq Indices
        BY <1>0, <3>1, <3>2, <4>1 DEF MsiTypeOK
      <4> QED BY <1>0, <1>00, <2>0, <3>1, <3>3, <3>6, <4>2 DEF MsiTypeOK
    <3>8. PoolTrue'
      <4>1. \A v \in MsiVectors : Vec(dev[d], v) => v \in taken
        BY DEF MsiInv, PoolTrue
      <4> QED BY <3>1, <3>3, <3>4, <4>1, PoolStep
    <3>9. EntriesTrue'
      BY <1>0, <2>0, <2>1, <3>1, <3>2, <3>3, <3>5, EntriesStep
    <3>10. TableTrue'
      BY <2>0, <2>1, <3>1, <3>3, <3>5, TableStep
    <3>11. ArmedTrue'
      BY <2>0, <3>1, <3>3, ArmedStep DEF MsiInv, ArmedTrue
    <3> QED BY <3>7, <3>8, <3>9, <3>10, <3>11 DEF MsiInv
  <2> QED BY <2>2, <2>3
<1>4. ASSUME NEW d \in Devices, WriteEntry(d) PROVE MsiInv'
  <2> DEFINE r == [dev[d] EXCEPT !.pc = "inval"]
             x0 == dev[d].h + dev[d].i
             w == [d |-> d, v |-> dev[d].s + dev[d].i]
  <2>0. /\ dev[d] \in DevType /\ dev[d].s \in Nat /\ dev[d].i \in Nat /\ dev[d].h \in Nat
        /\ dev[d].pc = "write" /\ dev[d].i < Rows /\ dev[d].h + Rows <= IRT_EINTRAEGE
    BY <1>0, <1>4, DevFields DEF WriteEntry, At, MsiInv, Fits
  <2>1. /\ dev' = [dev EXCEPT ![d] = r] /\ table' = [table EXCEPT ![x0] = w]
        /\ taken' = taken /\ used' = used /\ lock' = lock /\ cache' = cache
    BY <1>4 DEF WriteEntry
  <2>2. /\ r \in DevType /\ r.pc = "inval" /\ r.armed = dev[d].armed /\ r.rows = dev[d].rows
        /\ r.s = dev[d].s /\ r.h = dev[d].h /\ r.i = dev[d].i
    BY <2>0 DEF DevType
  <2> HIDE DEF r
  <2>3. x0 \in Indices /\ w \in Entry
    BY <1>0, <2>0 DEF Indices, Entry, MsiAssumption
  <2>4. /\ \A v \in MsiVectors : Vec(r, v) <=> Vec(dev[d], v)
        /\ \A x \in Indices : Ent(r, x) <=> Ent(dev[d], x)
        /\ \A x \in Indices : Wr(r, x) <=> Wr(dev[d], x) \/ x = x0
        /\ \A x \in Indices : Cf(r, x) <=> Wr(dev[d], x)
        /\ Ent(dev[d], x0) /\ ~Wr(dev[d], x0)
    BY <1>0, <2>0, <2>2 DEF Vec, Ent, Wr, Cf, Indices
  <2>5. MsiTypeOK' /\ \A e \in Devices : Fits(dev'[e])
    <3>1. Fits(r)
      BY <2>0, <2>2 DEF Fits, MsiInv
    <3>2. table' \in [Indices -> Entry]
      BY <1>0, <2>1, <2>3 DEF MsiTypeOK
    <3> QED BY <1>0, <1>00, <2>1, <2>2, <3>1, <3>2 DEF MsiTypeOK
  <2>6. PoolTrue'
    <3>1. \A v \in MsiVectors : Vec(dev[d], v) => v \in taken
      BY DEF MsiInv, PoolTrue
    <3> QED BY <2>1, <2>2, <2>4, <3>1, PoolStep
  <2>7. EntriesTrue'
    <3>1. lock = d /\ \A x \in Indices : Ent(dev[d], x) => x \in used
      BY <2>0 DEF MsiInv, EntriesTrue
    <3> QED BY <2>1, <2>2, <2>4, <3>1, EntriesStep
  <2>8. TableTrue'
    <3>1. /\ \A x \in Indices : x # x0 => table'[x] = table[x]
          /\ table'[x0] = w
      BY <1>0, <2>1, <2>3 DEF MsiTypeOK
    <3>2. /\ \A x \in Indices : Wr(dev[d], x) => table[x] = [d |-> d, v |-> dev[d].s + (x - dev[d].h)]
          /\ \A x \in Indices : Wr(dev[d], x) => cache[x].d = Nobody \/ cache[x] = table[x]
      BY <1>0, <2>0 DEF MsiInv, TableTrue, Wr, Cf
    <3>3. ASSUME NEW x \in Indices, Wr(r, x)
          PROVE  table'[x] = [d |-> d, v |-> r.s + (x - r.h)]
      <4>1. CASE x = x0
        <5>1. dev[d].s + (x0 - dev[d].h) = dev[d].s + dev[d].i
          BY <2>0
        <5> QED BY <2>2, <3>1, <4>1, <5>1
      <4>2. CASE x # x0
        BY <2>2, <2>4, <3>1, <3>2, <3>3, <4>2
      <4> QED BY <4>1, <4>2
    <3>4. \A x \in Indices : table'[x].d # Nobody =>
            Wr(r, x) \/ (table'[x] = table[x] /\ ~Wr(dev[d], x))
      BY <2>4, <3>1
    <3>5. \A x \in Indices : Cf(r, x) => cache'[x].d = Nobody \/ cache'[x] = table'[x]
      BY <2>1, <2>4, <3>1, <3>2
    <3>6. \A x \in Indices : ~Ent(dev[d], x) => table'[x] = table[x] /\ cache'[x] = cache[x]
      BY <2>1, <2>4, <3>1
    <3> HIDE DEF w
    <3> QED BY <2>1, <2>2, <3>3, <3>4, <3>5, <3>6, TableStep
  <2>9. ArmedTrue'
    BY <2>0, <2>1, <2>2, ArmedStep DEF MsiInv, ArmedTrue
  <2> QED BY <2>5, <2>6, <2>7, <2>8, <2>9 DEF MsiInv
<1>5. ASSUME NEW d \in Devices, Confirmed(d) PROVE MsiInv'
  <2> DEFINE x0 == dev[d].h + dev[d].i
  <2>0. /\ dev[d] \in DevType /\ dev[d].s \in Nat /\ dev[d].i \in Nat /\ dev[d].h \in Nat
        /\ dev[d].pc = "inval" /\ dev[d].i < Rows /\ dev[d].h + Rows <= IRT_EINTRAEGE
        /\ dev[d].s + Rows <= MSI_VEKTOR_POOL
    BY <1>0, <1>5, DevFields DEF Confirmed, At, MsiInv, Fits
  <2>1. /\ cache' = [cache EXCEPT ![x0] = Absent]
        /\ taken' = taken /\ used' = used /\ table' = table
    BY <1>5 DEF Confirmed
  <2>2. PICK r \in DevType :
          /\ dev' = [dev EXCEPT ![d] = r]
          /\ \/ dev[d].i + 1 = Rows /\ r.pc = "arm" /\ lock' = Nobody
             \/ dev[d].i + 1 # Rows /\ r.pc = "write" /\ r.i = dev[d].i + 1 /\ lock' = lock
          /\ r.s = dev[d].s /\ r.h = dev[d].h /\ r.armed = dev[d].armed /\ r.rows = dev[d].rows
    <3>1. CASE dev[d].i + 1 = Rows
      <4> DEFINE r == [dev[d] EXCEPT !.pc = "arm", !.i = 0]
      <4>1. dev' = [dev EXCEPT ![d] = r] /\ lock' = Nobody
        BY <1>5, <3>1 DEF Confirmed, Goto
      <4>2. /\ r \in DevType /\ r.pc = "arm" /\ r.armed = dev[d].armed /\ r.rows = dev[d].rows
            /\ r.s = dev[d].s /\ r.h = dev[d].h
        BY <2>0 DEF DevType
      <4> HIDE DEF r
      <4> QED BY <3>1, <4>1, <4>2
    <3>2. CASE dev[d].i + 1 # Rows
      <4> DEFINE r == [dev[d] EXCEPT !.pc = "write", !.i = dev[d].i + 1]
      <4>1. dev' = [dev EXCEPT ![d] = r] /\ lock' = lock
        BY <1>5, <3>2 DEF Confirmed
      <4>2. /\ r \in DevType /\ r.pc = "write" /\ r.armed = dev[d].armed /\ r.rows = dev[d].rows
            /\ r.s = dev[d].s /\ r.h = dev[d].h /\ r.i = dev[d].i + 1
        <5>1. ASSUME NEW q \in Nat
              PROVE  LET z == [dev[d] EXCEPT !.pc = "write", !.i = q]
                     IN /\ z \in DevType /\ z.pc = "write" /\ z.armed = dev[d].armed
                        /\ z.rows = dev[d].rows /\ z.s = dev[d].s /\ z.h = dev[d].h /\ z.i = q
          BY <2>0 DEF DevType
        <5>2. dev[d].i + 1 \in Nat
          BY <2>0
        <5> QED BY <5>1, <5>2
      <4> HIDE DEF r
      <4> QED BY <3>2, <4>1, <4>2
    <3> QED BY <3>1, <3>2
  <2>3. x0 \in Indices
    BY <1>0, <2>0 DEF Indices, MsiAssumption
  <2>4. /\ \A v \in MsiVectors : Vec(r, v) <=> Vec(dev[d], v)
        /\ \A x \in Indices : Ent(r, x) <=> Ent(dev[d], x)
        /\ \A x \in Indices : Wr(r, x) <=> Wr(dev[d], x)
        /\ \A x \in Indices : Cf(r, x) <=> Cf(dev[d], x) \/ x = x0
        /\ Ent(dev[d], x0)
    BY <1>0, <2>0, <2>2 DEF Vec, Ent, Wr, Cf, Indices, DevType
  <2>5. MsiTypeOK' /\ \A e \in Devices : Fits(dev'[e])
    <3>1. Fits(r)
      BY <1>0, <2>0, <2>2 DEF Fits
    <3>2. cache' \in [Indices -> Entry]
      BY <1>0, <2>1, <2>3 DEF MsiTypeOK
    <3> QED BY <1>0, <1>00, <2>1, <2>2, <3>1, <3>2 DEF MsiTypeOK
  <2>6. PoolTrue'
    <3>1. \A v \in MsiVectors : Vec(dev[d], v) => v \in taken
      BY DEF MsiInv, PoolTrue
    <3> QED BY <2>1, <2>2, <2>4, <3>1, PoolStep
  <2>7. EntriesTrue'
    <3>1. lock = d /\ \A x \in Indices : Ent(dev[d], x) => x \in used
      BY <2>0 DEF MsiInv, EntriesTrue
    <3> QED BY <1>0, <2>1, <2>2, <2>4, <3>1, EntriesStep
  <2>8. TableTrue'
    <3>1. /\ \A x \in Indices : x # x0 => cache'[x] = cache[x]
          /\ cache'[x0] = Absent
      BY <1>0, <2>1, <2>3 DEF MsiTypeOK
    <3>2. /\ \A x \in Indices : Wr(dev[d], x) => table[x] = [d |-> d, v |-> dev[d].s + (x - dev[d].h)]
          /\ \A x \in Indices : Cf(dev[d], x) => cache[x].d = Nobody \/ cache[x] = table[x]
      BY DEF MsiInv, TableTrue
    <3>3. \A x \in Indices : Wr(r, x) => table'[x] = [d |-> d, v |-> r.s + (x - r.h)]
      BY <2>1, <2>2, <2>4, <3>2
    <3>5. \A x \in Indices : Cf(r, x) => cache'[x].d = Nobody \/ cache'[x] = table'[x]
      BY <1>0, <2>1, <2>4, <3>1, <3>2
    <3>6. \A x \in Indices : ~Ent(dev[d], x) => table'[x] = table[x] /\ cache'[x] = cache[x]
      BY <2>1, <2>4, <3>1
    <3>7. \A x \in Indices : table'[x].d # Nobody =>
            Wr(r, x) \/ (table'[x] = table[x] /\ ~Wr(dev[d], x))
      BY <2>1, <2>4
    <3> QED BY <2>2, <3>3, <3>5, <3>6, <3>7, TableStep
  <2>9. ArmedTrue'
    BY <2>0, <2>2, ArmedStep DEF MsiInv, ArmedTrue
  <2> QED BY <2>5, <2>6, <2>7, <2>8, <2>9 DEF MsiInv
<1>6. ASSUME NEW d \in Devices, Unconfirmed(d) PROVE MsiInv'
  <2> DEFINE r == Forget(d)
             n == dev[d].i + 1
  <2>0. /\ dev[d] \in DevType /\ dev[d].s \in Nat /\ dev[d].i \in Nat /\ dev[d].h \in Nat
        /\ dev[d].pc = "inval" /\ dev[d].i < Rows /\ dev[d].h + Rows <= IRT_EINTRAEGE
        /\ dev[d].s + Rows <= MSI_VEKTOR_POOL
    BY <1>0, <1>6, DevFields DEF Unconfirmed, At, MsiInv, Fits
  <2>1. /\ dev' = [dev EXCEPT ![d] = r] /\ table' = Cleared(dev[d].h, n)
        /\ used' = used \ Freed(d) /\ taken' = taken \ Block(dev[d].s) /\ lock' = Nobody
    BY <1>6 DEF Unconfirmed, Nope
  <2>2. PICK F \in SUBSET (dev[d].h .. dev[d].h + n - 1) : cache' = Dropped(dev[d].h, n, F)
    BY <1>6 DEF Unconfirmed
  <2>3. r \in DevType /\ r.pc = "none" /\ r.armed = dev[d].armed /\ r.rows = dev[d].rows
    BY Unbound
  <2> HIDE DEF r
  <2>4. /\ \A x \in Indices : ~Ent(r, x) /\ ~Wr(r, x) /\ ~Cf(r, x)
        /\ \A v \in MsiVectors : ~Vec(r, v)
        /\ \A v \in MsiVectors : Vec(dev[d], v) <=> v \in Block(dev[d].s)
        /\ \A x \in Indices : Ent(dev[d], x) <=> x \in Freed(d)
        /\ \A x \in Indices : Wr(dev[d], x) <=> x \in dev[d].h .. dev[d].h + n - 1
        /\ \A x \in Indices : Wr(dev[d], x) => Ent(dev[d], x)
    <3>1. Block(dev[d].s) = dev[d].s .. dev[d].s + Rows - 1
      BY <1>0, <2>0, BlockInterval DEF Block, RowSet
    <3>2. Freed(d) = dev[d].h .. dev[d].h + Rows - 1
      BY <1>0, <2>0, BlockInterval DEF Freed, RowSet
    <3>3. /\ \A x \in Indices : ~Ent(r, x) /\ ~Wr(r, x) /\ ~Cf(r, x)
          /\ \A v \in MsiVectors : ~Vec(r, v)
      BY <2>3 DEF Vec, Ent, Wr, Cf
    <3>4. \A v \in MsiVectors : Vec(dev[d], v) <=> v \in Block(dev[d].s)
      BY <1>0, <2>0, <3>1 DEF Vec, MsiVectors
    <3>5. ASSUME NEW x \in Indices
          PROVE  /\ Ent(dev[d], x) <=> x \in Freed(d)
                 /\ Wr(dev[d], x) <=> x \in dev[d].h .. dev[d].h + n - 1
                 /\ Wr(dev[d], x) => Ent(dev[d], x)
      <4>1. x \in Nat
        BY DEF Indices
      <4>2. Ent(dev[d], x) <=> x \in Freed(d)
        BY <1>0, <2>0, <3>2, <4>1 DEF Ent
      <4>3. Wr(dev[d], x) <=> dev[d].h <= x /\ x < dev[d].h + dev[d].i + 1
        BY <2>0 DEF Wr
      <4>4. Wr(dev[d], x) => Ent(dev[d], x)
        BY <1>0, <2>0, <4>1, <4>3 DEF Ent
      <4> QED BY <2>0, <4>1, <4>2, <4>3, <4>4
    <3> QED BY <3>3, <3>4, <3>5
  <2>5. /\ table' \in [Indices -> Entry] /\ cache' \in [Indices -> Entry]
        /\ \A x \in Indices : table'[x] = IF Wr(dev[d], x) THEN Absent ELSE table[x]
        /\ \A x \in Indices : ~Wr(dev[d], x) => cache'[x] = cache[x]
    BY <1>0, <2>1, <2>2, <2>4 DEF Cleared, Dropped, MsiTypeOK
  <2>6. MsiTypeOK' /\ \A e \in Devices : Fits(dev'[e])
    <3>1. Fits(r)
      BY <2>3 DEF Fits
    <3> QED BY <1>0, <1>00, <2>1, <2>3, <2>5, <3>1 DEF MsiTypeOK
  <2>7. PoolTrue'
    BY <2>1, <2>3, <2>4, PoolStep
  <2>8. EntriesTrue'
    <3>1. lock = d
      BY <2>0 DEF MsiInv, EntriesTrue
    <3> QED BY <1>0, <2>1, <2>3, <2>4, <3>1, EntriesStep
  <2>9. TableTrue'
    <3>1. \A x \in Indices : ~Ent(dev[d], x) => table'[x] = table[x] /\ cache'[x] = cache[x]
      BY <2>4, <2>5
    <3>2. \A x \in Indices : table'[x].d # Nobody => table'[x] = table[x] /\ ~Wr(dev[d], x)
      BY <1>0, <2>5
    <3> QED BY <2>1, <2>3, <2>4, <3>1, <3>2, TableStep
  <2>10. ArmedTrue'
    BY <2>0, <2>1, <2>3, ArmedStep DEF MsiInv, ArmedTrue
  <2> QED BY <2>6, <2>7, <2>8, <2>9, <2>10 DEF MsiInv
<1>7. ASSUME NEW d \in Devices, Arm(d) \/ Abort(d) \/ Quiesce(d) PROVE MsiInv'
  <2>0. /\ dev[d] \in DevType /\ dev[d].s \in Nat /\ dev[d].i \in Nat /\ dev[d].h \in Nat
        /\ dev[d].pc \in {"arm", "granted", "quiesce"} /\ dev[d].h + Rows <= IRT_EINTRAEGE
        /\ dev[d].s + Rows <= MSI_VEKTOR_POOL
        /\ dev[d].rows \in SUBSET Indices
    BY <1>0, <1>7, DevFields DEF Arm, Abort, Quiesce, At, MsiInv, Fits
  <2>1. taken' = taken /\ used' = used /\ lock' = lock /\ table' = table /\ cache' = cache
    BY <1>7 DEF Arm, Abort, Quiesce
  <2>2. Freed(d) = dev[d].h .. dev[d].h + Rows - 1 /\ Freed(d) \in SUBSET Indices
    <3>1. Freed(d) = dev[d].h .. dev[d].h + Rows - 1
      BY <1>0, <2>0, BlockInterval DEF Freed, RowSet
    <3>2. dev[d].h .. dev[d].h + Rows - 1 \subseteq Indices
      BY <1>0, <2>0 DEF Indices, MsiAssumption
    <3> QED BY <3>1, <3>2
  <2>3. PICK r \in DevType :
          /\ dev' = [dev EXCEPT ![d] = r] /\ r.s = dev[d].s /\ r.h = dev[d].h
          /\ r.pc \in {"granted", "quiesce", "withdraw"}
          /\ \/ dev[d].pc = "arm" /\ r.pc \in {"granted", "quiesce"} /\ r.rows = Freed(d)
             \/ dev[d].pc # "arm" /\ r.armed = dev[d].armed /\ r.rows = dev[d].rows /\ r.pc = "quiesce"
             \/ r.pc = "withdraw" /\ (~DeadConfig => ~r.armed)
    <3>1. CASE Arm(d)
      <4>1. PICK q \in {"granted", "quiesce"}, a \in BOOLEAN :
              dev' = [dev EXCEPT ![d].pc = q, ![d].armed = a, ![d].rows = Freed(d)]
        BY <3>1 DEF Arm
      <4> DEFINE r == [dev[d] EXCEPT !.pc = q, !.armed = a, !.rows = Freed(d)]
      <4>2. dev' = [dev EXCEPT ![d] = r]
        BY <4>1
      <4>3. /\ r \in DevType /\ r.s = dev[d].s /\ r.h = dev[d].h /\ r.pc = q
            /\ r.rows = Freed(d)
        BY <2>0, <2>2 DEF DevType
      <4> HIDE DEF r
      <4> QED BY <3>1, <4>2, <4>3 DEF Arm, At
    <3>2. CASE Abort(d)
      <4> DEFINE r == [dev[d] EXCEPT !.pc = "quiesce", !.i = 0]
      <4>1. dev' = [dev EXCEPT ![d] = r] /\ dev[d].pc = "granted"
        BY <3>2 DEF Abort, Goto, At
      <4>2. /\ r \in DevType /\ r.s = dev[d].s /\ r.h = dev[d].h /\ r.pc = "quiesce"
            /\ r.rows = dev[d].rows /\ r.armed = dev[d].armed
        BY <2>0 DEF DevType
      <4> HIDE DEF r
      <4> QED BY <4>1, <4>2
    <3>3. CASE Quiesce(d)
      <4>1. PICK still \in BOOLEAN :
              /\ dev' = [dev EXCEPT ![d].pc = "withdraw", ![d].armed = dev[d].armed /\ ~still]
              /\ ~DeadConfig => still
        BY <3>3 DEF Quiesce
      <4>2. PICK a \in BOOLEAN : (a <=> dev[d].armed /\ ~still) /\ a = (dev[d].armed /\ ~still)
        OBVIOUS
      <4> DEFINE r == [dev[d] EXCEPT !.pc = "withdraw", !.armed = a]
      <4>3. dev' = [dev EXCEPT ![d] = r]
        BY <4>1, <4>2
      <4>4. r \in DevType /\ r.s = dev[d].s /\ r.h = dev[d].h /\ r.pc = "withdraw" /\ r.armed = a
        BY <2>0 DEF DevType
      <4> HIDE DEF r
      <4> QED BY <4>1, <4>2, <4>3, <4>4
    <3> QED BY <1>7, <3>1, <3>2, <3>3
  <2>4. /\ \A v \in MsiVectors : Vec(r, v) <=> Vec(dev[d], v)
        /\ \A x \in Indices : (Ent(r, x) <=> Ent(dev[d], x)) /\ (Ent(r, x) <=> x \in Freed(d))
        /\ \A x \in Indices : (Wr(r, x) <=> Wr(dev[d], x)) /\ (Cf(r, x) <=> Cf(dev[d], x))
    BY <1>0, <2>0, <2>2, <2>3 DEF Vec, Ent, Wr, Cf, Indices
  <2>5. MsiTypeOK' /\ \A e \in Devices : Fits(dev'[e])
    <3>1. Fits(r)
      BY <2>0, <2>3 DEF Fits
    <3> QED BY <1>0, <1>00, <2>1, <2>3, <3>1 DEF MsiTypeOK
  <2>6. PoolTrue'
    <3>1. \A v \in MsiVectors : Vec(dev[d], v) => v \in taken
      BY DEF MsiInv, PoolTrue
    <3> QED BY <2>1, <2>3, <2>4, <3>1, PoolStep
  <2>7. EntriesTrue'
    <3>1. lock # d /\ \A x \in Indices : Ent(dev[d], x) => x \in used
      BY <2>0 DEF MsiInv, EntriesTrue
    <3> QED BY <2>1, <2>3, <2>4, <3>1, EntriesStep
  <2>8. TableTrue'
    <3>1. /\ \A x \in Indices : Wr(dev[d], x) => table[x] = [d |-> d, v |-> dev[d].s + (x - dev[d].h)]
          /\ \A x \in Indices : Cf(dev[d], x) => cache[x].d = Nobody \/ cache[x] = table[x]
      BY DEF MsiInv, TableTrue
    <3> QED BY <2>1, <2>3, <2>4, <3>1, TableStep
  <2>9. ArmedTrue'
    <3>1. ~DeadConfig /\ r.armed =>
            r.pc \in {"granted", "quiesce"} /\ \A x \in Indices : x \in r.rows => Ent(r, x)
      BY <2>3, <2>4 DEF MsiInv, ArmedTrue
    <3> QED BY <2>3, <3>1, ArmedStep
  <2> QED BY <2>5, <2>6, <2>7, <2>8, <2>9 DEF MsiInv
<1>8. ASSUME NEW d \in Devices, Withdraw(d) PROVE MsiInv'
  <2> DEFINE r == [dev[d] EXCEPT !.pc = "free", !.i = 0]
  <2>0. /\ dev[d] \in DevType /\ dev[d].s \in Nat /\ dev[d].i \in Nat /\ dev[d].h \in Nat
        /\ dev[d].pc = "withdraw" /\ dev[d].h + Rows <= IRT_EINTRAEGE
        /\ dev[d].s + Rows <= MSI_VEKTOR_POOL /\ lock = Nobody
    BY <1>0, <1>8, DevFields DEF Withdraw, At, MsiInv, Fits
  <2>1. /\ dev' = [dev EXCEPT ![d] = r] /\ table' = Cleared(dev[d].h, Rows)
        /\ taken' = taken /\ lock' = lock
    BY <1>8 DEF Withdraw, Goto
  <2>2. PICK F \in SUBSET Freed(d) :
          /\ cache' = Dropped(dev[d].h, Rows, F)
          /\ used' = IF F = {} THEN used \ Freed(d) ELSE used
    BY <1>8 DEF Withdraw
  <2>3. /\ r \in DevType /\ r.pc = "free" /\ r.armed = dev[d].armed /\ r.rows = dev[d].rows
        /\ r.s = dev[d].s
    BY <2>0 DEF DevType
  <2> HIDE DEF r
  <2>4. /\ \A v \in MsiVectors : Vec(r, v) <=> Vec(dev[d], v)
        /\ \A x \in Indices : ~Ent(r, x) /\ ~Wr(r, x) /\ ~Cf(r, x)
    BY <2>0, <2>3 DEF Vec, Ent, Wr, Cf
  <2>5. ASSUME NEW x \in Indices
        PROVE  /\ Ent(dev[d], x) <=> x \in Freed(d)
               /\ Wr(dev[d], x) <=> x \in dev[d].h .. dev[d].h + Rows - 1
               /\ Wr(dev[d], x) <=> Ent(dev[d], x)
    <3>1. Freed(d) = dev[d].h .. dev[d].h + Rows - 1
      BY <1>0, <2>0, BlockInterval DEF Freed, RowSet
    <3>2. x \in Nat
      BY DEF Indices
    <3> QED BY <1>0, <2>0, <3>1, <3>2 DEF Ent, Wr
  <2>6. /\ table' \in [Indices -> Entry] /\ cache' \in [Indices -> Entry]
        /\ \A x \in Indices : table'[x] = IF Wr(dev[d], x) THEN Absent ELSE table[x]
        /\ \A x \in Indices : ~Wr(dev[d], x) => cache'[x] = cache[x]
    BY <1>0, <2>1, <2>2, <2>5 DEF Cleared, Dropped, MsiTypeOK
  <2>7. MsiTypeOK' /\ \A e \in Devices : Fits(dev'[e])
    <3>1. Fits(r)
      BY <2>0, <2>3 DEF Fits
    <3>2. used' \subseteq Indices
      BY <1>0, <2>2 DEF MsiTypeOK
    <3> QED BY <1>0, <1>00, <2>1, <2>3, <2>6, <3>1, <3>2 DEF MsiTypeOK
  <2>8. PoolTrue'
    <3>1. \A v \in MsiVectors : Vec(dev[d], v) => v \in taken
      BY DEF MsiInv, PoolTrue
    <3> QED BY <2>1, <2>3, <2>4, <3>1, PoolStep
  <2>9. EntriesTrue'
    BY <1>0, <2>0, <2>1, <2>2, <2>3, <2>4, <2>5, EntriesStep
  <2>10. TableTrue'
    <3>1. \A x \in Indices : ~Ent(dev[d], x) => table'[x] = table[x] /\ cache'[x] = cache[x]
      BY <2>5, <2>6
    <3>2. \A x \in Indices : table'[x].d # Nobody => table'[x] = table[x] /\ ~Wr(dev[d], x)
      BY <1>0, <2>6
    <3> QED BY <2>1, <2>3, <2>4, <3>1, <3>2, TableStep
  <2>11. ArmedTrue'
    BY <2>0, <2>1, <2>3, ArmedStep DEF MsiInv, ArmedTrue
  <2> QED BY <2>7, <2>8, <2>9, <2>10, <2>11 DEF MsiInv
<1>9. ASSUME NEW d \in Devices, FreeVectors(d) PROVE MsiInv'
  <2> DEFINE r == Forget(d)
  <2>0. /\ dev[d] \in DevType /\ dev[d].s \in Nat /\ dev[d].pc = "free"
        /\ dev[d].s + Rows <= MSI_VEKTOR_POOL
    BY <1>0, <1>9, DevFields DEF FreeVectors, At, MsiInv, Fits
  <2>1. /\ dev' = [dev EXCEPT ![d] = r] /\ taken' = taken \ Block(dev[d].s)
        /\ used' = used /\ lock' = lock /\ table' = table /\ cache' = cache
    BY <1>9 DEF FreeVectors, Nope
  <2>2. r \in DevType /\ r.pc = "none" /\ r.armed = dev[d].armed /\ r.rows = dev[d].rows
    BY Unbound
  <2> HIDE DEF r
  <2>3. \A v \in MsiVectors : ~Vec(r, v) /\ (Vec(dev[d], v) <=> v \in Block(dev[d].s))
    <3>1. Block(dev[d].s) = dev[d].s .. dev[d].s + Rows - 1
      BY <1>0, <2>0, BlockInterval DEF Block, RowSet
    <3> QED BY <1>0, <2>0, <2>2, <3>1 DEF Vec, MsiVectors
  <2>4. \A x \in Indices : ~Ent(r, x) /\ ~Ent(dev[d], x) /\ ~Wr(r, x) /\ ~Wr(dev[d], x) /\ ~Cf(r, x)
    BY <2>0, <2>2 DEF Ent, Wr, Cf
  <2>5. MsiTypeOK' /\ \A e \in Devices : Fits(dev'[e])
    <3>1. Fits(r)
      BY <2>2 DEF Fits
    <3> QED BY <1>0, <1>00, <2>1, <2>2, <3>1 DEF MsiTypeOK
  <2>6. PoolTrue'
    BY <2>1, <2>2, <2>3, PoolStep
  <2>7. EntriesTrue'
    BY <2>0, <2>1, <2>2, <2>4, EntriesStep DEF MsiInv, EntriesTrue
  <2>8. TableTrue'
    BY <2>1, <2>2, <2>4, TableStep
  <2>9. ArmedTrue'
    BY <2>0, <2>1, <2>2, ArmedStep DEF MsiInv, ArmedTrue
  <2> QED BY <2>5, <2>6, <2>7, <2>8, <2>9 DEF MsiInv
<1>10. ASSUME NEW d \in Devices, NEW i \in Indices, Fetch(d, i) PROVE MsiInv'
  <2>1. /\ dev' = dev /\ taken' = taken /\ used' = used /\ lock' = lock /\ table' = table
        /\ cache' = [cache EXCEPT ![i] = table[i]]
    BY <1>10 DEF Fetch
  <2>2. cache' \in [Indices -> Entry] /\ \A x \in Indices : cache'[x] = cache[x] \/ cache'[x] = table[x]
    BY <1>0, <2>1 DEF MsiTypeOK
  <2>3. MsiTypeOK'
    BY <1>0, <2>1, <2>2 DEF MsiTypeOK
  <2>4. TableTrue'
    BY <2>1, <2>2 DEF MsiInv, TableTrue
  <2> QED BY <2>1, <2>3, <2>4 DEF MsiInv, PoolTrue, EntriesTrue, ArmedTrue
<1>11. CASE UNCHANGED msiVars
  BY <1>11 DEF MsiInv, msiVars, MsiTypeOK, PoolTrue, EntriesTrue, TableTrue, ArmedTrue
<1> QED
  BY <1>1, <1>2, <1>3, <1>4, <1>5, <1>6, <1>7, <1>8, <1>9, <1>10, <1>11 DEF MsiNext

\* The grants of the invariant are the grants of the property.
LEMMA MsiSound == ASSUME MsiAssumption PROVE MsiInv => GrantsSound
<1> SUFFICES ASSUME MsiInv PROVE GrantsSound
  OBVIOUS
<1> USE MsiAssumption
<1>1. Rows \in Nat \ {0} /\ MsiTypeOK
  BY DEF MsiInv, MsiAssumption
<1>2. ASSUME NEW d \in Devices, dev[d].pc \in {"arm", "granted", "quiesce", "withdraw"}
      PROVE  /\ dev[d].s \in Nat /\ dev[d].h \in Nat
             /\ Block(dev[d].s) = dev[d].s .. dev[d].s + Rows - 1
             /\ Freed(d) = dev[d].h .. dev[d].h + Rows - 1
             /\ Block(dev[d].s) \subseteq MsiVectors /\ Freed(d) \subseteq Indices
             /\ \A v \in MsiVectors : v \in Block(dev[d].s) <=> Vec(dev[d], v)
             /\ \A x \in Indices : x \in Freed(d) <=> Ent(dev[d], x)
             /\ \A x \in Indices : x \in Freed(d) <=> Wr(dev[d], x)
             /\ \A x \in Indices : x \in Freed(d) <=> Cf(dev[d], x)
  <2>1. /\ dev[d].s \in Nat /\ dev[d].h \in Nat /\ dev[d].s + Rows <= MSI_VEKTOR_POOL
        /\ dev[d].h + Rows <= IRT_EINTRAEGE
    BY <1>1, <1>2, DevFields DEF MsiInv, Fits
  <2>2. Block(dev[d].s) = dev[d].s .. dev[d].s + Rows - 1
    BY <1>1, <2>1, BlockInterval DEF Block, RowSet
  <2>3. Freed(d) = dev[d].h .. dev[d].h + Rows - 1
    BY <1>1, <2>1, BlockInterval DEF Freed, RowSet
  <2>4. Block(dev[d].s) \subseteq MsiVectors /\ Freed(d) \subseteq Indices
    <3>1. ASSUME NEW lo \in Nat, NEW top \in Nat, lo + Rows <= top, NEW x \in lo .. lo + Rows - 1
          PROVE  x \in 0 .. top - 1
      BY <1>1, <3>1
    <3>2. MSI_VEKTOR_POOL \in Nat /\ IRT_EINTRAEGE \in Nat
      BY DEF MsiAssumption
    <3>3. \A x \in Block(dev[d].s) : x \in MsiVectors
      BY <2>1, <2>2, <3>1, <3>2 DEF MsiVectors
    <3>4. \A x \in Freed(d) : x \in Indices
      BY <2>1, <2>3, <3>1, <3>2 DEF Indices
    <3> QED BY <3>3, <3>4
  <2>5. ASSUME NEW v \in MsiVectors PROVE v \in Block(dev[d].s) <=> Vec(dev[d], v)
    BY <1>1, <1>2, <2>1, <2>2 DEF Vec, MsiVectors
  <2>6. ASSUME NEW x \in Indices
        PROVE /\ x \in Freed(d) <=> Ent(dev[d], x)
              /\ x \in Freed(d) <=> Wr(dev[d], x)
              /\ x \in Freed(d) <=> Cf(dev[d], x)
    BY <1>1, <1>2, <2>1, <2>3 DEF Ent, Wr, Cf, Indices
  <2> QED BY <2>1, <2>2, <2>3, <2>4, <2>5, <2>6
<1>3. ASSUME NEW d \in Devices, dev[d].pc \in {"granted", "quiesce"},
             NEW x \in Freed(d)
      PROVE  Effective(x) = [d |-> d, v |-> dev[d].s + (x - dev[d].h)]
  <2>1. x \in Indices /\ Wr(dev[d], x) /\ Cf(dev[d], x)
    BY <1>2, <1>3
  <2> QED BY <2>1 DEF Effective, MsiInv, TableTrue
<1>4. GrantWhole
  <2> SUFFICES ASSUME NEW d \in Granted
               PROVE  /\ \A i \in RowSet : Effective(dev[d].h + i) = [d |-> d, v |-> dev[d].s + i]
                      /\ Block(dev[d].s) \subseteq taken
                      /\ \A e \in Granted \ {d} : Block(dev[d].s) \cap Block(dev[e].s) = {}
    BY DEF GrantWhole
  <2>0. d \in Devices /\ dev[d].pc = "granted"
    BY DEF Granted
  <2>1. ASSUME NEW i \in RowSet PROVE Effective(dev[d].h + i) = [d |-> d, v |-> dev[d].s + i]
    <3>1. dev[d].h + i \in Freed(d)
      BY <2>0 DEF Freed
    <3>2. Effective(dev[d].h + i) = [d |-> d, v |-> dev[d].s + ((dev[d].h + i) - dev[d].h)]
      BY <1>3, <2>0, <3>1
    <3>3. (dev[d].h + i) - dev[d].h = i
      BY <1>1, <1>2, <2>0 DEF RowSet
    <3> QED BY <3>2, <3>3
  <2>2. Block(dev[d].s) \subseteq taken
    BY <1>2, <2>0 DEF MsiInv, PoolTrue
  <2>3. ASSUME NEW e \in Granted \ {d} PROVE Block(dev[d].s) \cap Block(dev[e].s) = {}
    <3>1. e \in Devices /\ dev[e].pc = "granted" /\ e # d
      BY DEF Granted
    <3> QED BY <1>2, <2>0, <3>1 DEF MsiInv, PoolTrue
  <2> QED BY <2>1, <2>2, <2>3
<1>5. NothingLeaks
  <2> SUFFICES ASSUME Quiet
               PROVE  /\ taken = UNION {Block(dev[d].s) : d \in Granted}
                      /\ UNION {Freed(d) : d \in Granted} \subseteq used
                      /\ \A i \in Indices : table[i].d # Nobody => \E d \in Granted : i \in Freed(d)
    BY DEF NothingLeaks
  <2>0. \A d \in Devices : dev[d].pc \in {"none", "granted"}
    BY DEF Quiet
  <2>1. ASSUME NEW v PROVE v \in taken <=> \E d \in Granted : v \in Block(dev[d].s)
    <3>1. ASSUME v \in taken PROVE \E d \in Granted : v \in Block(dev[d].s)
      <4>1. v \in MsiVectors
        BY <1>1, <3>1 DEF MsiTypeOK
      <4>2. PICK d \in Devices : Vec(dev[d], v)
        BY <3>1, <4>1 DEF MsiInv, PoolTrue
      <4>3. dev[d].pc = "granted"
        BY <2>0, <4>2 DEF Vec
      <4> QED BY <1>2, <4>1, <4>2, <4>3 DEF Granted
    <3>2. ASSUME NEW d \in Granted, v \in Block(dev[d].s) PROVE v \in taken
      <4>1. d \in Devices /\ dev[d].pc = "granted"
        BY DEF Granted
      <4> QED BY <1>2, <3>2, <4>1 DEF MsiInv, PoolTrue
    <3> QED BY <3>1, <3>2
  <2>2. ASSUME NEW d \in Granted PROVE Freed(d) \subseteq used
    <3>1. d \in Devices /\ dev[d].pc = "granted"
      BY DEF Granted
    <3> QED BY <1>2, <3>1 DEF MsiInv, EntriesTrue
  <2>3. ASSUME NEW i \in Indices, table[i].d # Nobody PROVE \E d \in Granted : i \in Freed(d)
    <3>1. PICK d \in Devices : Wr(dev[d], i)
      BY <2>3 DEF MsiInv, TableTrue
    <3>2. dev[d].pc = "granted"
      BY <2>0, <3>1 DEF Wr
    <3> QED BY <1>2, <3>1, <3>2 DEF Granted
  <2> QED BY <2>1, <2>2, <2>3
<1>6. ASSUME ~DeadConfig PROVE NoMisroute
  <2> SUFFICES ASSUME NEW d \in Devices, dev[d].armed, NEW i \in dev[d].rows,
                      NEW e \in Granted \ {d}
               PROVE  Effective(i).v \notin Block(dev[e].s)
    BY DEF NoMisroute
  <2>1. i \in Indices /\ dev[d].pc \in {"granted", "quiesce"} /\ Ent(dev[d], i)
    BY <1>1, <1>6, DevFields DEF MsiInv, ArmedTrue
  <2>2. i \in Freed(d)
    BY <1>2, <2>1
  <2>3. Effective(i).v = dev[d].s + (i - dev[d].h) /\ i \in dev[d].h .. dev[d].h + Rows - 1
    <3>1. Effective(i) = [d |-> d, v |-> dev[d].s + (i - dev[d].h)]
      BY <1>3, <2>1, <2>2
    <3>2. i \in dev[d].h .. dev[d].h + Rows - 1
      BY <1>2, <2>1, <2>2
    <3> QED BY <3>1, <3>2
  <2>4. dev[d].s + (i - dev[d].h) \in Block(dev[d].s)
    BY <1>1, <1>2, <2>1, <2>3
  <2>5. e \in Devices /\ dev[e].pc = "granted" /\ e # d
    BY DEF Granted
  <2>6. Block(dev[d].s) \cap Block(dev[e].s) = {}
    BY <1>2, <2>1, <2>5 DEF MsiInv, PoolTrue
  <2> QED BY <2>3, <2>4, <2>6
<1> QED BY <1>4, <1>5, <1>6 DEF GrantsSound

\* For any pool, table and number of rows per device, and whatever invalidation fails: a grant is
\* whole, no path leaks vectors or entries, and, while the configuration space answers, no
\* message carries the vector of another device.
THEOREM MsiGrantsSound ==
  ASSUME MsiAssumption
  PROVE  MsiSpec => []GrantsSound
<1>1. MsiInit => MsiInv
  BY MsiStart
<1>2. MsiInv /\ [MsiNext]_(msiVars) => MsiInv'
  BY MsiStep
<1>3. MsiInv => GrantsSound
  BY MsiSound
<1> QED BY <1>1, <1>2, <1>3, PTL DEF MsiSpec
=============================================================================
