----------------------------- MODULE LockProofs -----------------------------
(***************************************************************************)
(* Proofs about locks and waiting: the ticket lock, for any number of      *)
(* cores and any range of tickets larger than the number of contexts; the  *)
(* reader-writer lock, for any number of contexts below the writer bit and *)
(* any set of writers; mutex and completion, for any number of threads and *)
(* any length of the waiting lists.                                        *)
(***************************************************************************)
EXTENDS SpinLock, RwSpinLock, Wait, QueueProofs, FiniteSetTheorems, TLAPS

-----------------------------------------------------------------------------
(* The ticket lock                                                         *)

\* A thread inside the lock runs on its core with interrupts masked.
MaskInv == \A c \in Cores : pc[<<c, 0>>] # "idle" => lvl[c] = 0 /\ masked[c]

IInv == TypeOK /\ TicketsInOrder /\ MaskInv

\* The set of contexts is finite and there are more tickets than contexts.
LEMMA CtxFinite == IsFiniteSet(Ctx) /\ Cardinality(Ctx) \in Nat
<1>1. IsFiniteSet({0, 1})
  <2>1. IsFiniteSet({0}) BY FS_Singleton
  <2>2. IsFiniteSet({0} \cup {1}) BY <2>1, FS_AddElement
  <2> QED BY <2>2, {0, 1} = {0} \cup {1}
<1>2. IsFiniteSet(Ctx)
  BY <1>1, FS_Product, TicketAssumption DEF Ctx
<1> QED
  BY <1>2, FS_CardinalityType

\* With a context outside, not every ticket value can be out.
LEMMA Room ==
  ASSUME NEW S \in SUBSET Ctx, NEW x \in Ctx, x \notin S
  PROVE  /\ IsFiniteSet(S) /\ Cardinality(S) \in Nat
         /\ Cardinality(S) + 1 < TicketValues
         /\ Cardinality(S \cup {x}) = Cardinality(S) + 1
<1>1. IsFiniteSet(S) /\ Cardinality(S) \in Nat
  BY CtxFinite, FS_Subset, FS_CardinalityType
<1>2. Cardinality(S \cup {x}) = Cardinality(S) + 1
  BY <1>1, FS_AddElement
<1>3. Cardinality(S \cup {x}) <= Cardinality(Ctx)
  BY CtxFinite, FS_Subset, S \cup {x} \in SUBSET Ctx
<1> QED
  BY <1>1, <1>2, <1>3, CtxFinite, TicketAssumption

\* Taking a context out of a set of contexts.
LEMMA TakenOut ==
  ASSUME NEW S \in SUBSET Ctx, NEW x \in S
  PROVE  /\ IsFiniteSet(S) /\ Cardinality(S) \in Nat \ {0}
         /\ Cardinality(S \ {x}) = Cardinality(S) - 1
<1>1. IsFiniteSet(S) /\ Cardinality(S) \in Nat
  BY CtxFinite, FS_Subset, FS_CardinalityType
<1>2. Cardinality(S) # 0
  BY <1>1, FS_EmptySet
<1> QED
  BY <1>1, <1>2, FS_RemoveElement

\* Arithmetic across the wrap: serving the next ticket brings every other one nearer by one.
LEMMA Wrap ==
  ASSUME TicketValues \in Nat, TicketValues > 1, NEW s \in Tickets, NEW t \in Tickets
  PROVE  /\ Succ(s) \in Tickets /\ Succ(s) # s
         /\ Dist(s, t) \in 0 .. TicketValues - 1
         /\ Dist(s, t) = 0 <=> s = t
         /\ s # t => Dist(Succ(s), t) = Dist(s, t) - 1
         /\ Dist(s, t) < TicketValues - 1 => Dist(s, Succ(t)) = Dist(s, t) + 1
  BY DEF Tickets, Succ, Dist

-----------------------------------------------------------------------------

\* At the start no ticket is out.
LEMMA InitInv == Init => IInv
<1> SUFFICES ASSUME Init PROVE IInv
  OBVIOUS
<1> USE TicketAssumption, CtxFinite
<1>1. TypeOK
  BY DEF Init, CtxInit, TypeOK, Places, Tickets
<1>2. Drawn = {} /\ Holding = {}
  BY DEF Init, CtxInit, Drawn, Holding
<1>3. TicketsInOrder
  BY <1>2, FS_EmptySet DEF TicketsInOrder, Dist, Init, Tickets
<1>4. MaskInv
  BY DEF Init, CtxInit, MaskInv, Ctx
<1> QED
  BY <1>1, <1>3, <1>4 DEF IInv

\* Steps that draw and serve no ticket, and move nobody in or out of the queue, keep its order.
LEMMA SameQueue ==
  ASSUME TicketsInOrder, UNCHANGED <<next_ticket, now_serving, ticket>>,
         Drawn' = Drawn, Holding' = Holding
  PROVE  TicketsInOrder'
  BY DEF TicketsInOrder, Dist

\* Every step of lock(), SpinGuard::drop and the interrupts keeps the inductive invariant.
LEMMA StepInv == IInv /\ [Next]_vars => IInv'
<1> SUFFICES ASSUME IInv, [Next]_vars PROVE IInv'
  OBVIOUS
<1> USE DEF IInv
<1>0. (TicketValues \in Nat /\ TicketValues > 1) \/ Ctx = {}
  <2>1. CASE Ctx = {} BY <2>1
  <2>2. CASE Ctx # {}
    <3>1. PICK x \in Ctx : TRUE BY <2>2
    <3>2. Cardinality({} \cup {x}) = Cardinality({}) + 1 /\ Cardinality({}) + 1 < TicketValues
      BY Room
    <3> QED BY <3>2, FS_EmptySet, TicketAssumption
  <2> QED BY <2>1, <2>2
<1>1. ASSUME NEW x \in Ctx, Mask(x) PROVE IInv'
  <2> USE <1>1 DEF Mask, irq_save_disable, At, Running
  <2>1. TypeOK' BY DEF TypeOK, Places, Ctx
  <2>2. Drawn' = Drawn /\ Holding' = Holding BY DEF Drawn, Holding, TypeOK
  <2>3. MaskInv' BY DEF MaskInv, TypeOK, Ctx
  <2> QED BY <2>1, <2>2, <2>3, SameQueue
<1>2. ASSUME NEW x \in Ctx, Draw(x) PROVE IInv'
  <2> USE <1>2 DEF Draw, Goto, At, Running
  <2>0. TicketValues \in Nat /\ TicketValues > 1 BY <1>0
  <2>1. TypeOK' BY <2>0, Wrap DEF TypeOK, Places
  <2>2. x \notin Drawn /\ Drawn' = Drawn \cup {x} /\ Holding' = Holding
    BY DEF Drawn, Holding, TypeOK
  <2>3. /\ Cardinality(Drawn) + 1 < TicketValues /\ Cardinality(Drawn) \in Nat
        /\ Cardinality(Drawn') = Cardinality(Drawn) + 1
    BY <2>2, Room DEF Drawn
  <2>4. Dist(now_serving, next_ticket)' = Dist(now_serving, next_ticket) + 1
    <3>1. Dist(now_serving, Succ(next_ticket)) = Dist(now_serving, next_ticket) + 1
      BY <2>0, <2>3, Wrap DEF TypeOK, TicketsInOrder
    <3> QED BY <3>1 DEF Dist
  <2>5. \A y \in Drawn : y # x /\ ticket'[y] = ticket[y] BY <2>2 DEF TypeOK, Drawn
  <2>6. ticket'[x] = next_ticket BY DEF TypeOK
  <2>7. \A y \in Drawn : ticket[y] # next_ticket /\ Dist(now_serving, ticket[y]) \in Int
    BY <2>0, Wrap DEF TicketsInOrder, TypeOK, Drawn
  <2>8. TicketsInOrder'
    <3>1. \A y \in Drawn' : Dist(now_serving, ticket'[y]) < Dist(now_serving, next_ticket) + 1
      BY <2>2, <2>3, <2>5, <2>6, <2>7 DEF TicketsInOrder
    <3>2. \A y, z \in Drawn' : y # z => ticket'[y] # ticket'[z]
      BY <2>2, <2>5, <2>6, <2>7 DEF TicketsInOrder
    <3>3. \A y \in Holding' : ticket'[y] = now_serving
      BY <2>2, <2>5 DEF TicketsInOrder, Holding, Drawn
    <3> QED BY <3>1, <3>2, <3>3, <2>3, <2>4 DEF TicketsInOrder, Dist
  <2>9. MaskInv' BY DEF MaskInv, TypeOK, Ctx
  <2> QED BY <2>1, <2>8, <2>9
<1>3. ASSUME NEW x \in Ctx, Enter(x) PROVE IInv'
  <2> USE <1>3 DEF Enter, Goto, At, Running
  <2>1. TypeOK' BY DEF TypeOK, Places
  <2>2. Drawn' = Drawn /\ Holding' = Holding \cup {x} BY DEF Drawn, Holding, TypeOK
  <2>3. TicketsInOrder' BY <2>2 DEF TicketsInOrder, Dist
  <2>4. MaskInv' BY DEF MaskInv, TypeOK, Ctx
  <2> QED BY <2>1, <2>3, <2>4
<1>4. ASSUME NEW x \in Ctx, Drop(x) PROVE IInv'
  <2> USE <1>4 DEF Drop, Goto, At, Running
  <2>0. TicketValues \in Nat /\ TicketValues > 1 BY <1>0
  <2>1. TypeOK' BY <2>0, Wrap DEF TypeOK, Places, Tickets
  <2>2. x \in Drawn /\ x \in Holding /\ Drawn' = Drawn \ {x} /\ Holding' = Holding \ {x}
    BY DEF Drawn, Holding, TypeOK
  <2>3. /\ Cardinality(Drawn) \in Nat \ {0}
        /\ Cardinality(Drawn') = Cardinality(Drawn) - 1
    BY <2>2, TakenOut DEF Drawn
  <2>4. ticket[x] = now_serving /\ now_serving # next_ticket
    BY <2>0, <2>2, <2>3, Wrap DEF TicketsInOrder, TypeOK
  <2>5. \A y \in Drawn' : y \in Drawn /\ y # x /\ ticket'[y] = ticket[y] /\ ticket[y] # now_serving
    BY <2>2, <2>4 DEF TypeOK, Drawn, TicketsInOrder
  <2>6. \A t \in Tickets : t # now_serving => Dist(Succ(now_serving), t) = Dist(now_serving, t) - 1
    BY <2>0, Wrap DEF TypeOK
  <2>7. \A y \in Drawn' : Dist(Succ(now_serving), ticket'[y]) < Dist(Succ(now_serving), next_ticket)
    <3> SUFFICES ASSUME NEW y \in Drawn'
                 PROVE  Dist(Succ(now_serving), ticket'[y]) < Dist(Succ(now_serving), next_ticket)
      OBVIOUS
    <3>1. y \in Drawn /\ ticket[y] \in Tickets /\ next_ticket \in Tickets
      BY <2>5 DEF TypeOK, Drawn
    <3>2. Dist(now_serving, ticket[y]) \in Int /\ Dist(now_serving, next_ticket) \in Int
      BY <3>1, <2>0, Wrap DEF TypeOK
    <3>3. Dist(now_serving, ticket[y]) < Dist(now_serving, next_ticket)
      BY <3>1 DEF TicketsInOrder
    <3> QED BY <3>1, <3>2, <3>3, <2>4, <2>5, <2>6
  <2>8. Dist(Succ(now_serving), next_ticket) = Cardinality(Drawn')
    BY <2>3, <2>4, <2>6 DEF TypeOK, TicketsInOrder
  <2>9. Holding' = {}
    BY <2>2, <2>4 DEF TicketsInOrder, Holding, Drawn
  <2>10. \A y, z \in Drawn' : y # z => ticket'[y] # ticket'[z]
    BY <2>5 DEF TicketsInOrder
  <2>11. TicketsInOrder'
    BY <2>7, <2>8, <2>9, <2>10 DEF TicketsInOrder, Dist
  <2>12. MaskInv' BY DEF MaskInv, TypeOK, Ctx
  <2> QED BY <2>1, <2>11, <2>12
<1>5. ASSUME NEW x \in Ctx, Restore(x) PROVE IInv'
  <2> USE <1>5 DEF Restore, irq_restore, At, Running
  <2>1. TypeOK' BY DEF TypeOK, Places, Ctx
  <2>2. Drawn' = Drawn /\ Holding' = Holding BY DEF Drawn, Holding, TypeOK
  <2>3. MaskInv' BY DEF MaskInv, TypeOK, Ctx
  <2> QED BY <2>1, <2>2, <2>3, SameQueue
<1>6. ASSUME NEW c \in Cores, Irq(c) PROVE IInv'
  <2> USE <1>6 DEF Irq, Interrupt, Return
  <2>1. TypeOK' BY DEF TypeOK
  <2>2. Drawn' = Drawn /\ Holding' = Holding BY DEF Drawn, Holding
  <2>3. MaskInv' BY DEF MaskInv, TypeOK
  <2> QED BY <2>1, <2>2, <2>3, SameQueue
<1>7. CASE UNCHANGED vars
  <2> USE <1>7 DEF vars, ctxVars
  <2>1. TypeOK' /\ MaskInv' BY DEF TypeOK, MaskInv
  <2>2. Drawn' = Drawn /\ Holding' = Holding BY DEF Drawn, Holding
  <2> QED BY <2>1, <2>2, SameQueue
<1> QED
  BY <1>1, <1>2, <1>3, <1>4, <1>5, <1>6, <1>7 DEF Next, InLock

-----------------------------------------------------------------------------

\* The inductive invariant holds throughout, without any fairness.
LEMMA Invariant == Safe => []IInv
  BY InitInv, StepInv, PTL DEF Safe

\* lock() and SpinGuard::drop keep their variables in their types; in particular the counters
\* wrap and nothing else.
THEOREM SpinLockTypeOK == Spec => []TypeOK
  BY Invariant, PTL DEF Spec, IInv

\* No ticket is lost or drawn twice, and the holder has the one that is served: for any number
\* of cores, from any count of tickets on, across the wrap of the u32.
THEOREM SpinLockTicketsInOrder == Spec => []TicketsInOrder
  BY Invariant, PTL DEF Spec, IInv

\* The masking in lock() does what its comment says: the timer tick never meets a thread of its
\* core inside the lock.
THEOREM SpinLockNotInterruptedInside == Spec => []NotInterruptedInside
<1>1. IInv => NotInterruptedInside
  BY DEF IInv, MaskInv, NotInterruptedInside, TypeOK
<1> QED
  BY <1>1, Invariant, PTL DEF Spec

\* Every step of the ticket lock is a step of an exclusive lock, or none.
LEMMA StepSimulates == IInv /\ IInv' /\ [Next]_vars => [Lock!LockNext]_(Lock!lockVars)
<1> SUFFICES ASSUME IInv, IInv', [Next]_vars, ~UNCHANGED Holding PROVE Lock!LockNext
  BY DEF Lock!lockVars
<1> USE DEF IInv
<1>1. ASSUME NEW x \in Ctx, Mask(x) \/ Draw(x) \/ Restore(x) PROVE FALSE
  BY <1>1 DEF Mask, Draw, Restore, irq_save_disable, irq_restore, Goto, At, Holding, TypeOK
<1>2. ASSUME NEW x \in Ctx, Enter(x) PROVE Lock!LockNext
  <2>1. Holding' = Holding \cup {x} /\ x \notin Holding /\ x \in Drawn
    BY <1>2 DEF Enter, Goto, At, Holding, Drawn, TypeOK
  <2>2. Holding = {}
    BY <1>2, <2>1 DEF Enter, TicketsInOrder, Holding, Drawn
  <2>3. Lock!AcquireExcl(x)
    BY <2>1, <2>2 DEF Lock!AcquireExcl, Lock!Free
  <2> QED BY <2>3 DEF Lock!LockNext
<1>3. ASSUME NEW x \in Ctx, Drop(x) PROVE Lock!LockNext
  <2>1. Holding' = Holding \ {x} /\ x \in Holding
    BY <1>3 DEF Drop, Goto, At, Holding, TypeOK
  <2>2. Holding = {x}
    BY <2>1 DEF TicketsInOrder, Holding, Drawn
  <2>3. Lock!ReleaseExcl(x)
    BY <2>1, <2>2 DEF Lock!ReleaseExcl
  <2> QED BY <2>3 DEF Lock!LockNext
<1>4. ASSUME NEW c \in Cores, Irq(c) PROVE FALSE
  BY <1>4 DEF Irq, Interrupt, Return, Holding
<1>5. CASE UNCHANGED vars
  BY <1>5 DEF vars, ctxVars, Holding
<1> QED
  BY <1>1, <1>2, <1>3, <1>4, <1>5 DEF Next, InLock

\* The ticket lock implements the exclusive lock: at most one guard at any time, whatever the
\* cores and their interrupts do.
THEOREM SpinLockImplements == Spec => ImplementsLock
<1>1. Init => Lock!Free
  BY DEF Init, CtxInit, Lock!Free, Holding
<1> QED
  BY <1>1, StepSimulates, Invariant, PTL DEF Spec, Safe, ImplementsLock, Lock!LockSpecification

-----------------------------------------------------------------------------
(* The reader-writer lock                                                  *)

RwInv == RwTypeOK /\ CountersTrue

\* The sets the counters count are finite, and a context adds or takes one.
LEMMA Counts ==
  ASSUME NEW S \in SUBSET Ctx
  PROVE  /\ Cardinality(S) \in Nat /\ Cardinality(S) < RW_WRITER
         /\ Cardinality(S) = 0 <=> S = {}
         /\ \A x : x \notin S => Cardinality(S \cup {x}) = Cardinality(S) + 1
         /\ \A x : x \in S => Cardinality(S \ {x}) = Cardinality(S) - 1
<1>1. IsFiniteSet({0, 1})
  <2>1. IsFiniteSet({0}) BY FS_Singleton
  <2>2. IsFiniteSet({0} \cup {1}) BY <2>1, FS_AddElement
  <2> QED BY <2>2, {0, 1} = {0} \cup {1}
<1>2. IsFiniteSet(Ctx) /\ Cardinality(Ctx) \in Nat
  BY <1>1, FS_Product, FS_CardinalityType, RwAssumption DEF Ctx
<1>3. IsFiniteSet(S) /\ Cardinality(S) <= Cardinality(Ctx)
  BY <1>2, FS_Subset
<1>4. Cardinality(S) \in Nat
  BY <1>3, FS_CardinalityType
<1>5. Cardinality(S) = 0 <=> S = {}
  BY <1>3, FS_EmptySet
<1>6. \A x : x \notin S => Cardinality(S \cup {x}) = Cardinality(S) + 1
  BY <1>3, FS_AddElement
<1>7. \A x : x \in S => Cardinality(S \ {x}) = Cardinality(S) - 1
  BY <1>3, FS_RemoveElement
<1> QED
  BY <1>2, <1>3, <1>4, <1>5, <1>6, <1>7, RwAssumption

\* What the counters count are sets of contexts.
LEMMA SetsOfContexts ==
  Counted \in SUBSET Ctx /\ Registered \in SUBSET Ctx /\ WriteGuards \in SUBSET Ctx
  BY DEF Counted, Registered, WriteGuards

\* The writer bit is set exactly while a write guard exists.
LEMMA WriterBit == ASSUME RwInv PROVE HasWriter <=> WriteGuards # {}
  BY SetsOfContexts, Counts, RwAssumption DEF RwInv, RwTypeOK, CountersTrue, HasWriter

\* A new lock has no readers and no writers.
LEMMA RwInitInv == RwInit => RwInv
<1> SUFFICES ASSUME RwInit PROVE RwInv
  OBVIOUS
<1>1. RwTypeOK
  BY DEF RwInit, CtxInit, RwTypeOK
<1>2. Counted = {} /\ Registered = {} /\ WriteGuards = {}
  BY DEF RwInit, CtxInit, Counted, Registered, WriteGuards
<1> QED
  BY <1>1, <1>2, FS_EmptySet DEF RwInv, CountersTrue, RwInit

\* A step that changes no counter and moves nobody in or out of what they count.
LEMMA SameCounts ==
  ASSUME CountersTrue, UNCHANGED <<state, writers_waiting>>,
         Counted' = Counted, Registered' = Registered, WriteGuards' = WriteGuards,
         \A x \in Counted : pc[x] = "back" => pc'[x] = "back"
  PROVE  CountersTrue'
  BY DEF CountersTrue

\* Every step of read(), write(), the guards and the interrupts keeps the inductive invariant.
LEMMA RwStepInv == RwInv /\ [RwNext]_rwVars => RwInv'
<1> SUFFICES ASSUME RwInv, [RwNext]_rwVars PROVE RwInv'
  OBVIOUS
<1> USE DEF RwInv
<1>a. Counted \in SUBSET Ctx /\ Registered \in SUBSET Ctx /\ WriteGuards \in SUBSET Ctx
  BY SetsOfContexts
<1>b. RW_WRITER \in Nat BY RwAssumption
<1>c. Cardinality(Counted) \in Nat /\ Cardinality(Registered) \in Nat
  BY <1>a, Counts
<1>1. ASSUME NEW x \in Ctx, MaskRead(x) \/ MaskWrite(x) \/ Look(x) \/ RwRestore(x) PROVE RwInv'
  <2> USE <1>1 DEF MaskRead, MaskWrite, Look, RwRestore, irq_save_disable, irq_restore, Goto, At
  <2>1. RwTypeOK' BY ZenonT(40) DEF RwTypeOK, Ctx, Reading, Writing
  <2>2. /\ Counted' = Counted /\ Registered' = Registered /\ WriteGuards' = WriteGuards
        /\ \A y \in Counted : pc'[y] = pc[y]
    BY DEF RwTypeOK, Counted, Registered, WriteGuards
  <2> QED BY <2>1, <2>2, SameCounts
<1>2. ASSUME NEW x \in Ctx, Register(x) PROVE RwInv'
  <2> USE <1>2 DEF Register, Goto, At
  <2>1. RwTypeOK' BY DEF RwTypeOK, Reading
  <2>2. /\ x \notin Counted /\ Counted' = Counted \cup {x}
        /\ Registered' = Registered /\ WriteGuards' = WriteGuards
    BY DEF RwTypeOK, Counted, Registered, WriteGuards
  <2>3. Cardinality(Counted') = Cardinality(Counted) + 1 BY <1>a, <2>2, Counts
  <2>4. WriteGuards # {} => \A y \in Counted' : pc'[y] = "back"
    BY <2>2, WriterBit DEF CountersTrue, RwTypeOK, Counted
  <2> QED BY <2>1, <2>2, <2>3, <2>4, <1>b, <1>c DEF CountersTrue
<1>3. ASSUME NEW x \in Ctx, Check(x) PROVE RwInv'
  <2> USE <1>3 DEF Check, Goto, At
  <2>1. RwTypeOK' BY DEF RwTypeOK, Reading
  <2>2. Counted' = Counted /\ Registered' = Registered /\ WriteGuards' = WriteGuards
    BY DEF RwTypeOK, Counted, Registered, WriteGuards
  <2>3. x \in Counted /\ \A y \in Counted : y # x => pc'[y] = pc[y]
    BY DEF RwTypeOK, Counted
  <2>4. WriteGuards = {} BY <2>3 DEF CountersTrue
  <2> QED BY <2>1, <2>2, <2>4 DEF CountersTrue
<1>4. ASSUME NEW x \in Ctx, Back(x) \/ DropRead(x) PROVE RwInv'
  <2> USE <1>4 DEF Back, DropRead, Goto, At
  <2>1. /\ x \in Counted /\ Counted' = Counted \ {x}
        /\ Registered' = Registered /\ WriteGuards' = WriteGuards
    BY DEF RwTypeOK, Counted, Registered, WriteGuards
  <2>2. Cardinality(Counted') = Cardinality(Counted) - 1 /\ Cardinality(Counted) # 0
    BY <1>a, <2>1, Counts
  <2>3. state' \in Nat
    BY <2>2, <1>b, <1>c DEF CountersTrue
  <2>4. RwTypeOK' BY <2>3 DEF RwTypeOK, Reading
  <2>5. \A y \in Counted' : pc'[y] = pc[y]
    BY <2>1 DEF RwTypeOK, Counted
  <2> QED BY <2>1, <2>2, <2>4, <2>5, <1>b, <1>c DEF CountersTrue
<1>5. ASSUME NEW x \in Ctx, Intend(x) PROVE RwInv'
  <2> USE <1>5 DEF Intend, Goto, At
  <2>1. RwTypeOK' BY DEF RwTypeOK, Writing
  <2>2. /\ x \notin Registered /\ Registered' = Registered \cup {x}
        /\ Counted' = Counted /\ WriteGuards' = WriteGuards
        /\ \A y \in Counted : pc'[y] = pc[y]
    BY DEF RwTypeOK, Counted, Registered, WriteGuards
  <2>3. Cardinality(Registered') = Cardinality(Registered) + 1 BY <1>a, <2>2, Counts
  <2> QED BY <2>1, <2>2, <2>3 DEF CountersTrue
<1>6. ASSUME NEW x \in Ctx, Cas(x) PROVE RwInv'
  <2> USE <1>6 DEF Cas, Goto, At
  <2>1. RwTypeOK' BY <1>b DEF RwTypeOK, Writing
  <2>2. WriteGuards = {} /\ Counted = {}
    <3>1. WriteGuards = {} BY WriterBit, <1>b, RwAssumption, Counts, {} \in SUBSET Ctx DEF HasWriter
    <3> QED BY <3>1, <1>a, <1>c, Counts DEF CountersTrue
  <2>3. Registered' = Registered /\ Counted' = {} /\ WriteGuards' = {x}
    BY <2>2 DEF RwTypeOK, Counted, Registered, WriteGuards
  <2> QED BY <2>1, <2>3, <1>b, FS_EmptySet DEF CountersTrue
<1>7. ASSUME NEW x \in Ctx, DropWrite(x) PROVE RwInv'
  <2> USE <1>7 DEF DropWrite, Goto, At
  <2>1. x \in WriteGuards /\ WriteGuards = {x} /\ HasWriter
    BY WriterBit DEF CountersTrue, WriteGuards
  <2>2. Registered' = Registered /\ Counted' = Counted /\ WriteGuards' = {}
    BY <2>1 DEF RwTypeOK, Counted, Registered, WriteGuards
  <2>3. state' = Cardinality(Counted) BY <2>1, <1>b, <1>c DEF CountersTrue
  <2>4. RwTypeOK' BY <2>3, <1>c DEF RwTypeOK, Writing
  <2> QED BY <2>2, <2>3, <2>4, <1>c DEF CountersTrue
<1>8. ASSUME NEW x \in Ctx, Leave(x) PROVE RwInv'
  <2> USE <1>8 DEF Leave, Goto, At
  <2>1. /\ x \in Registered /\ Registered' = Registered \ {x}
        /\ Counted' = Counted /\ WriteGuards' = WriteGuards
        /\ \A y \in Counted : pc'[y] = pc[y]
    BY DEF RwTypeOK, Counted, Registered, WriteGuards
  <2>2. Cardinality(Registered') = Cardinality(Registered) - 1 /\ Cardinality(Registered) # 0
    BY <1>a, <2>1, Counts
  <2>3. RwTypeOK' BY <2>2, <1>c DEF RwTypeOK, Writing, CountersTrue
  <2> QED BY <2>1, <2>2, <2>3 DEF CountersTrue
<1>9. ASSUME NEW c \in Cores, RwIrq(c) PROVE RwInv'
  <2> USE <1>9 DEF RwIrq, Interrupt, Return
  <2>1. RwTypeOK' BY DEF RwTypeOK
  <2>2. Counted' = Counted /\ Registered' = Registered /\ WriteGuards' = WriteGuards
    BY DEF Counted, Registered, WriteGuards
  <2> QED BY <2>1, <2>2, SameCounts
<1>10. CASE UNCHANGED rwVars
  <2> USE <1>10 DEF rwVars, ctxVars
  <2>1. RwTypeOK' BY DEF RwTypeOK
  <2>2. Counted' = Counted /\ Registered' = Registered /\ WriteGuards' = WriteGuards
    BY DEF Counted, Registered, WriteGuards
  <2> QED BY <2>1, <2>2, SameCounts
<1> QED
  BY <1>1, <1>2, <1>3, <1>4, <1>5, <1>6, <1>7, <1>8, <1>9, <1>10 DEF RwNext, RwInLock

-----------------------------------------------------------------------------

\* The inductive invariant holds throughout, without any fairness.
LEMMA RwInvariant == RwSafe => []RwInv
  BY RwInitInv, RwStepInv, PTL DEF RwSafe

\* The counters of the lock never run below zero.
THEOREM RwSpinLockTypeOK == RwSpec => []RwTypeOK
  BY RwInvariant, PTL DEF RwSpec, RwInv

\* The two counters say what the contexts are doing, for any number of cores below the writer
\* bit: fetch_and(!RW_WRITER) keeps every reader that registers meanwhile, and a write guard
\* excludes every other guard.
THEOREM RwSpinLockCountersTrue == RwSpec => []CountersTrue
  BY RwInvariant, PTL DEF RwSpec, RwInv

\* Every step of the reader-writer lock is a step of the abstract lock, or none.
LEMMA RwStepSimulates == RwInv /\ [RwNext]_rwVars => [RwLock!LockNext]_(RwLock!lockVars)
<1> SUFFICES ASSUME RwInv, [RwNext]_rwVars, ~(UNCHANGED <<ReadGuards, WriteGuards>>)
             PROVE  RwLock!LockNext
  BY DEF RwLock!lockVars
<1> USE DEF RwInv
<1>1. ASSUME NEW x \in Ctx,
             MaskRead(x) \/ MaskWrite(x) \/ Look(x) \/ Register(x) \/ Back(x) \/ Intend(x) \/ Leave(x) \/ RwRestore(x)
      PROVE  FALSE
  BY <1>1 DEF MaskRead, MaskWrite, Look, Register, Back, Intend, Leave, RwRestore, irq_save_disable,
              irq_restore, Goto, At, ReadGuards, WriteGuards, RwTypeOK
<1>2. ASSUME NEW x \in Ctx, Check(x) PROVE RwLock!LockNext
  <2>1. WriteGuards = {} /\ WriteGuards' = {}
    BY <1>2 DEF Check, Goto, At, WriteGuards, Counted, CountersTrue, RwTypeOK
  <2>2. x \notin ReadGuards /\ (ReadGuards' = ReadGuards \cup {x} \/ ReadGuards' = ReadGuards)
    BY <1>2 DEF Check, Goto, At, ReadGuards, RwTypeOK
  <2> QED BY <2>1, <2>2 DEF RwLock!LockNext, RwLock!AcquireShared
<1>3. ASSUME NEW x \in Ctx, DropRead(x) PROVE RwLock!LockNext
  <2>1. x \in ReadGuards /\ ReadGuards' = ReadGuards \ {x} /\ WriteGuards' = WriteGuards
    BY <1>3 DEF DropRead, Goto, At, ReadGuards, WriteGuards, RwTypeOK
  <2> QED BY <2>1 DEF RwLock!LockNext, RwLock!ReleaseShared
<1>4. ASSUME NEW x \in Ctx, Cas(x) PROVE RwLock!LockNext
  <2>1. ReadGuards' = ReadGuards /\ WriteGuards' = WriteGuards \cup {x}
    BY <1>4 DEF Cas, Goto, At, ReadGuards, WriteGuards, RwTypeOK
  <2>2. Counted = {} /\ WriteGuards = {}
    <3>1. Cardinality(Counted) \in Nat /\ (Cardinality(Counted) = 0 <=> Counted = {})
      BY SetsOfContexts, Counts
    <3>2. WriteGuards = {}
      BY <1>4, WriterBit, RwAssumption, Counts, {} \in SUBSET Ctx DEF HasWriter, Cas
    <3> QED BY <1>4, <3>1, <3>2 DEF Cas, CountersTrue
  <2>3. ReadGuards = {} BY <2>2 DEF ReadGuards, Counted
  <2> QED BY <2>1, <2>2, <2>3 DEF RwLock!LockNext, RwLock!AcquireExcl, RwLock!Free
<1>5. ASSUME NEW x \in Ctx, DropWrite(x) PROVE RwLock!LockNext
  <2>1. ReadGuards' = ReadGuards /\ WriteGuards' = WriteGuards \ {x} /\ x \in WriteGuards
    BY <1>5 DEF DropWrite, Goto, At, ReadGuards, WriteGuards, RwTypeOK
  <2>2. WriteGuards = {x} BY <2>1 DEF CountersTrue
  <2> QED BY <2>1, <2>2 DEF RwLock!LockNext, RwLock!ReleaseExcl
<1>6. ASSUME NEW c \in Cores, RwIrq(c) PROVE FALSE
  BY <1>6 DEF RwIrq, Interrupt, Return, ReadGuards, WriteGuards
<1>7. CASE UNCHANGED rwVars
  BY <1>7 DEF rwVars, ctxVars, ReadGuards, WriteGuards
<1> QED
  BY <1>1, <1>2, <1>3, <1>4, <1>5, <1>6, <1>7 DEF RwNext, RwInLock

\* read(), write() and their guards implement the shared and exclusive lock.
THEOREM RwSpinLockImplements == RwSpec => RwImplementsLock
<1>1. RwInit => RwLock!Free
  BY DEF RwInit, CtxInit, RwLock!Free, ReadGuards, WriteGuards
<1> QED
  BY <1>1, RwStepSimulates, RwInvariant, PTL DEF RwSpec, RwSafe, RwImplementsLock, RwLock!LockSpecification

-----------------------------------------------------------------------------
(* Mutex and completion: the inductive invariant                           *)

\* Who is going to sleep has a mark, or is in the list that wakes it; and so is who sleeps.
ParkedListed ==
  \A t \in Threads :
    /\ place[t] = "lock_park" => mark[t] \/ t \in ToSet(mq)
    /\ place[t] = "lock_sleep" => t \in ToSet(mq)
    /\ place[t] = "wait_park" => mark[t] \/ (t \in ToSet(cq) /\ fertig = 0)
    /\ place[t] = "wait_sleep" => t \in ToSet(cq) /\ fertig = 0

\* Where nobody is stopped from outside and nobody has a deadline, the lists are exact.
Exact ==
  /\ \A t \in Threads :
       /\ mark[t] => place[t] \in {"lock_park", "wait_park"}
       /\ t \in ToSet(mq) <=> place[t] \in {"lock_park", "lock_sleep"} /\ ~mark[t]
       /\ t \in ToSet(cq) <=> place[t] \in {"wait_park", "wait_sleep"} /\ ~mark[t]
  /\ \A i, j \in DOMAIN mq : mq[i] = mq[j] => i = j

\* The mutex is handed on: a free one with entries in its list has somebody on the way.
Handed == inhaber = None /\ mq # <<>> => \E t \in Threads : OnItsWay(t)

\* At most one thread is between lock and unlock.
Exclusive == \A t \in Threads : place[t] = "holds" <=> inhaber = t

WInv == WaitTypeOK /\ ParkedListed /\ Exclusive

-----------------------------------------------------------------------------
(* Types                                                                   *)

LEMMA AwakeTyped ==
  ASSUME NEW p \in WaitPlaces
  PROVE  Awake(p) \in WaitPlaces /\ (Awake(p) = "holds" <=> p = "holds")
         /\ Awake(p) \notin {"lock_sleep", "wait_sleep"}
         /\ (Awake(p) = "lock_park" <=> p = "lock_park")
         /\ (Awake(p) = "wait_park" <=> p = "wait_park")
BY DEF Awake, WaitPlaces

\* What a wake-up does to each thread.
LEMMA UnparkDoes ==
  ASSUME WaitTypeOK, NEW S, NEW f \in [Threads -> WaitPlaces], unpark(S, f)
  PROVE  /\ place' \in [Threads -> WaitPlaces] /\ mark' \in [Threads -> BOOLEAN]
         /\ \A t \in Threads :
              /\ place'[t] = (IF t \in S THEN Awake(f[t]) ELSE f[t])
              /\ mark'[t] = (mark[t] \/ (t \in S /\ ~Sleeping(t)))
<1>1. \A t \in Threads : (IF t \in S THEN Awake(f[t]) ELSE f[t]) \in WaitPlaces
  BY AwakeTyped
<1>2. \A t \in Threads : mark[t] \in BOOLEAN /\ (mark[t] \/ (t \in S /\ ~Sleeping(t))) \in BOOLEAN
  BY DEF WaitTypeOK
<1>3. place' \in [Threads -> WaitPlaces] /\ \A t \in Threads : place'[t] = (IF t \in S THEN Awake(f[t]) ELSE f[t])
  BY <1>1 DEF unpark
<1>4. mark' \in [Threads -> BOOLEAN]
  BY <1>2 DEF unpark
<1>5. \A t \in Threads : mark'[t] = (mark[t] \/ (t \in S /\ ~Sleeping(t)))
  BY DEF unpark
<1> QED BY <1>3, <1>4, <1>5

LEMMA TypeInit == ASSUME WaitAssumption, WaitInit PROVE WaitTypeOK
<1>1. \A q : q = <<>> => q \in Seq(Threads) /\ Len(q) = 0
  OBVIOUS
<1> QED BY <1>1 DEF WaitAssumption, WaitInit, WaitTypeOK, WaitPlaces

LEMMA GotoDoes ==
  ASSUME WaitTypeOK, NEW t \in Threads, NEW p \in WaitPlaces, MoveTo(t, p)
  PROVE  /\ place' \in [Threads -> WaitPlaces] /\ place'[t] = p
         /\ \A u \in Threads \ {t} : place'[u] = place[u]
BY DEF MoveTo, WaitTypeOK

LEMMA ParkDoes ==
  ASSUME WaitTypeOK, NEW t \in Threads, park(t)
  PROVE  /\ place' \in [Threads -> WaitPlaces] /\ mark' \in [Threads -> BOOLEAN]
         /\ UNCHANGED <<inhaber, mq, fertig, cq, stop>> /\ frist' \subseteq timers
         /\ \A u \in Threads \ {t} : place'[u] = place[u] /\ mark'[u] = mark[u]
         /\ \/ mark[t] /\ ~mark'[t] /\ place[t] = "lock_park" /\ place'[t] = "lock"
            \/ mark[t] /\ ~mark'[t] /\ place[t] = "wait_park" /\ place'[t] = "wait"
            \/ ~mark[t] /\ ~mark'[t] /\ place[t] = "lock_park" /\ place'[t] = "lock_sleep"
            \/ ~mark[t] /\ ~mark'[t] /\ place[t] = "wait_park" /\ place'[t] = "wait_sleep"
<1>1. UNCHANGED <<inhaber, mq, fertig, cq, stop>> /\ frist' \subseteq timers
  BY DEF park, WaitTypeOK
<1>2. PICK a \in {"lock_sleep", "wait_sleep"} :
        /\ place[t] = (IF a = "lock_sleep" THEN "lock_park" ELSE "wait_park")
        /\ IF mark[t] THEN MoveTo(t, Awake(a)) /\ mark' = [mark EXCEPT ![t] = FALSE]
           ELSE MoveTo(t, a) /\ UNCHANGED mark
  BY DEF park
<1>3. Awake(a) = IF a = "lock_sleep" THEN "lock" ELSE "wait"
  BY DEF Awake
<1>4. CASE mark[t]
  <2>1. MoveTo(t, Awake(a)) /\ mark' = [mark EXCEPT ![t] = FALSE]
    BY <1>2, <1>4
  <2>2. /\ place' \in [Threads -> WaitPlaces] /\ place'[t] = Awake(a)
        /\ \A u \in Threads \ {t} : place'[u] = place[u]
    BY <1>3, <2>1, GotoDoes DEF WaitPlaces
  <2>3. /\ mark' \in [Threads -> BOOLEAN] /\ ~mark'[t]
        /\ \A u \in Threads \ {t} : mark'[u] = mark[u]
    BY <2>1 DEF WaitTypeOK
  <2> QED BY <1>1, <1>2, <1>3, <1>4, <2>2, <2>3
<1>5. CASE ~mark[t]
  <2>1. MoveTo(t, a) /\ UNCHANGED mark
    BY <1>2, <1>5
  <2>2. /\ place' \in [Threads -> WaitPlaces] /\ place'[t] = a
        /\ \A u \in Threads \ {t} : place'[u] = place[u]
    BY <2>1, GotoDoes DEF WaitPlaces
  <2> QED BY <1>1, <1>2, <1>5, <2>1, <2>2 DEF WaitTypeOK
<1> QED BY <1>4, <1>5

\* Three ways out of lock: the mutex, a place in the list, or a refusal.
LEMMA LockDoes ==
  ASSUME WaitAssumption, WaitTypeOK, NEW t \in Threads, lock_schritt(t)
  PROVE  /\ place' \in [Threads -> WaitPlaces] /\ UNCHANGED <<fertig, cq, mark, frist, stop>>
         /\ \A u \in Threads \ {t} : place'[u] = place[u]
         /\ place[t] \in {"run", "lock"}
         /\ \/ inhaber = None /\ inhaber' = t /\ place'[t] = "holds" /\ mq' = mq
            \/ /\ inhaber # None /\ inhaber' = inhaber /\ place'[t] = "lock_park"
               /\ mq' = Append(mq, t) /\ mq' \in Seq(Threads) /\ Len(mq') = Len(mq) + 1
               /\ Len(mq') <= WARTEPLAETZE /\ ToSet(mq') = ToSet(mq) \cup {t}
            \/ inhaber # None /\ inhaber' = inhaber /\ place'[t] = "run" /\ mq' = mq
<1>1. place[t] \in {"run", "lock"} /\ UNCHANGED <<fertig, cq, mark, frist, stop>>
  BY DEF lock_schritt
<1>2. CASE inhaber = None
  <2>1. inhaber' = t /\ MoveTo(t, "holds") /\ mq' = mq
    BY <1>2 DEF lock_schritt
  <2>2. "holds" \in WaitPlaces
    BY DEF WaitPlaces
  <2> QED BY <1>1, <1>2, <2>1, <2>2, GotoDoes
<1>3. CASE inhaber # None /\ HasRoom(mq)
  <2>1. mq' = Append(mq, t) /\ MoveTo(t, "lock_park") /\ inhaber' = inhaber
    BY <1>3 DEF lock_schritt
  <2>2. "lock_park" \in WaitPlaces
    BY DEF WaitPlaces
  <2>3. mq \in Seq(Threads) /\ Len(mq) < WARTEPLAETZE /\ WARTEPLAETZE \in Nat
    BY <1>3 DEF WaitTypeOK, HasRoom, WaitAssumption
  <2>4. mq' \in Seq(Threads) /\ ToSet(mq') = ToSet(mq) \cup {t}
    BY <2>1, <2>3, AppendSet
  <2>5. Len(mq') = Len(mq) + 1
    BY <2>1, <2>3
  <2>6. Len(mq') <= WARTEPLAETZE
    BY <2>3, <2>5
  <2> QED BY <1>1, <1>3, <2>1, <2>2, <2>4, <2>5, <2>6, GotoDoes
<1>4. CASE inhaber # None /\ ~HasRoom(mq)
  <2>1. MoveTo(t, "run") /\ inhaber' = inhaber /\ mq' = mq
    BY <1>4 DEF lock_schritt
  <2>2. "run" \in WaitPlaces
    BY DEF WaitPlaces
  <2> QED BY <1>1, <1>4, <2>1, <2>2, GotoDoes
<1> QED BY <1>2, <1>3, <1>4

LEMMA UnlockDoes ==
  ASSUME WaitAssumption, WaitTypeOK, NEW t \in Threads, unlock(t)
  PROVE  /\ place[t] = "holds" /\ inhaber' = None /\ UNCHANGED <<fertig, cq, frist, stop>>
         /\ place' \in [Threads -> WaitPlaces] /\ mark' \in [Threads -> BOOLEAN]
         /\ mq' \in Seq(Threads) /\ Len(mq') <= WARTEPLAETZE
         /\ \E S \in SUBSET Threads :
              /\ \/ mq = <<>> /\ mq' = <<>> /\ S = {}
                 \/ /\ mq # <<>> /\ mq' = Tail(mq) /\ S = {Head(mq)}
                    /\ ToSet(mq) = {Head(mq)} \cup ToSet(mq')
              /\ \A u \in Threads :
                   /\ place'[u] = (IF u = t THEN "run" ELSE IF u \in S THEN Awake(place[u]) ELSE place[u])
                   /\ mark'[u] = (mark[u] \/ (u \in S /\ ~Sleeping(u)))
<1> DEFINE S == IF mq = <<>> THEN {} ELSE {Head(mq)}
           f == [place EXCEPT ![t] = "run"]
<1>1. place[t] = "holds" /\ inhaber' = None /\ UNCHANGED <<fertig, cq, frist, stop>> /\ unpark(S, f)
      /\ mq' = IF mq = <<>> THEN <<>> ELSE Tail(mq)
  BY DEF unlock
<1>2. mq \in Seq(Threads) /\ Len(mq) <= WARTEPLAETZE /\ WARTEPLAETZE \in Nat
  BY DEF WaitTypeOK, WaitAssumption
<1>3. f \in [Threads -> WaitPlaces] /\ \A u \in Threads : f[u] = IF u = t THEN "run" ELSE place[u]
  BY DEF WaitTypeOK, WaitPlaces
<1>4. mq = <<>> => mq' = <<>> /\ S = {} /\ mq' \in Seq(Threads) /\ Len(mq') = 0
  BY <1>1
<1>5. mq # <<>> => /\ mq' = Tail(mq) /\ S = {Head(mq)} /\ Head(mq) \in Threads
                   /\ mq' \in Seq(Threads) /\ ToSet(mq) = {Head(mq)} \cup ToSet(mq')
  BY <1>1, <1>2, TailSet
<1>6. mq # <<>> => Len(mq') <= WARTEPLAETZE
  BY <1>2, <1>5
<1>7. S \in SUBSET Threads
  BY <1>5
<1> HIDE DEF S, f
<1>8. /\ place' \in [Threads -> WaitPlaces] /\ mark' \in [Threads -> BOOLEAN]
      /\ \A u \in Threads :
           /\ place'[u] = (IF u \in S THEN Awake(f[u]) ELSE f[u])
           /\ mark'[u] = (mark[u] \/ (u \in S /\ ~Sleeping(u)))
  BY <1>1, <1>3, UnparkDoes
<1>9. Awake("run") = "run"
  BY DEF Awake
<1>10. \A u \in Threads :
         place'[u] = (IF u = t THEN "run" ELSE IF u \in S THEN Awake(place[u]) ELSE place[u])
  BY <1>3, <1>8, <1>9
<1>11. Len(mq') <= WARTEPLAETZE /\ mq' \in Seq(Threads)
  BY <1>2, <1>4, <1>5, <1>6
<1> QED BY <1>1, <1>4, <1>5, <1>7, <1>8, <1>10, <1>11

LEMMA CompleteDoes ==
  ASSUME WaitAssumption, WaitTypeOK, NEW t \in Threads, complete(t)
  PROVE  /\ cq' = <<>> /\ cq' \in Seq(Threads) /\ Len(cq') = 0 /\ ToSet(cq') = {}
         /\ fertig' \in 0 .. MaxFertig /\ UNCHANGED <<inhaber, mq, frist, stop>>
         /\ place' \in [Threads -> WaitPlaces] /\ mark' \in [Threads -> BOOLEAN]
         /\ \A u \in Threads :
              /\ place'[u] = (IF u \in ToSet(cq) THEN Awake(place[u]) ELSE place[u])
              /\ mark'[u] = (mark[u] \/ (u \in ToSet(cq) /\ ~Sleeping(u)))
<1>1. unpark(ToSet(cq), place) /\ cq' = <<>> /\ UNCHANGED <<inhaber, mq, frist, stop>>
  BY DEF complete
<1>2. place \in [Threads -> WaitPlaces]
  BY DEF WaitTypeOK
<1>3. fertig' \in 0 .. MaxFertig
  BY DEF complete, WaitTypeOK, WaitAssumption
<1>4. cq' \in Seq(Threads) /\ Len(cq') = 0 /\ ToSet(cq') = {}
  BY <1>1 DEF ToSet
<1> QED BY <1>1, <1>2, <1>3, <1>4, UnparkDoes

LEMMA WaitDoes ==
  ASSUME WaitAssumption, WaitTypeOK, NEW t \in Threads, warten_schritt(t)
  PROVE  /\ place' \in [Threads -> WaitPlaces] /\ UNCHANGED <<inhaber, mq, mark, frist, stop>>
         /\ \A u \in Threads \ {t} : place'[u] = place[u]
         /\ place[t] \in {"run", "wait"}
         /\ \/ fertig > 0 /\ fertig' = fertig - 1 /\ place'[t] = "run" /\ cq' = cq
            \/ /\ fertig = 0 /\ fertig' = 0 /\ place'[t] = "wait_park"
               /\ cq' \in Seq(Threads) /\ Len(cq') <= WARTEPLAETZE
               /\ ToSet(cq') = ToSet(cq) \cup {t}
            \/ fertig = 0 /\ fertig' = 0 /\ place'[t] = "run" /\ cq' = cq
<1>1. place[t] \in {"run", "wait"} /\ UNCHANGED <<inhaber, mq, mark, frist, stop>> /\ fertig \in Nat
  BY DEF warten_schritt, WaitTypeOK
<1>2. CASE fertig > 0
  <2>1. fertig' = fertig - 1 /\ MoveTo(t, "run") /\ cq' = cq
    BY <1>2 DEF warten_schritt
  <2>2. "run" \in WaitPlaces
    BY DEF WaitPlaces
  <2> QED BY <1>1, <1>2, <2>1, <2>2, GotoDoes
<1>3. CASE ~(fertig > 0) /\ HasRoom(cq)
  <2>1. cq' = Append(cq, t) /\ MoveTo(t, "wait_park") /\ fertig' = fertig /\ fertig = 0
    BY <1>1, <1>3 DEF warten_schritt
  <2>2. "wait_park" \in WaitPlaces
    BY DEF WaitPlaces
  <2>3. cq \in Seq(Threads) /\ Len(cq) < WARTEPLAETZE /\ WARTEPLAETZE \in Nat
    BY <1>3 DEF WaitTypeOK, HasRoom, WaitAssumption
  <2>4. cq' \in Seq(Threads) /\ ToSet(cq') = ToSet(cq) \cup {t}
    BY <2>1, <2>3, AppendSet
  <2>5. Len(cq') = Len(cq) + 1
    BY <2>1, <2>3
  <2>6. Len(cq') <= WARTEPLAETZE
    BY <2>3, <2>5
  <2> QED BY <1>1, <2>1, <2>2, <2>4, <2>6, GotoDoes
<1>4. CASE ~(fertig > 0) /\ ~HasRoom(cq)
  <2>1. MoveTo(t, "run") /\ fertig' = fertig /\ cq' = cq /\ fertig = 0
    BY <1>1, <1>4 DEF warten_schritt
  <2>2. "run" \in WaitPlaces
    BY DEF WaitPlaces
  <2> QED BY <1>1, <2>1, <2>2, GotoDoes
<1> QED BY <1>2, <1>3, <1>4

LEMMA TimeoutDoes ==
  ASSUME WaitAssumption, WaitTypeOK, NEW t \in Threads, warten_timeout(t)
  PROVE  /\ place' \in [Threads -> WaitPlaces] /\ UNCHANGED <<inhaber, mq, fertig, mark, frist, stop>>
         /\ \A u \in Threads \ {t} : place'[u] = place[u]
         /\ place[t] \in {"run", "wait", "wait_late"} /\ place'[t] = "run" /\ t \in timers
         /\ cq' \in Seq(Threads) /\ Len(cq') <= WARTEPLAETZE /\ ToSet(cq') = ToSet(cq) \ {t}
<1>1. /\ place[t] \in {"run", "wait", "wait_late"} /\ t \in timers /\ UNCHANGED <<inhaber, mq, fertig, mark, frist, stop>>
      /\ cq' = Without(cq, t) /\ MoveTo(t, "run")
  BY DEF warten_timeout, entfernen
<1>2. cq \in Seq(Threads) /\ Len(cq) <= WARTEPLAETZE /\ WARTEPLAETZE \in Nat
  BY DEF WaitTypeOK, WaitAssumption
<1>3. cq' \in Seq(Threads) /\ Len(cq') <= Len(cq) /\ ToSet(cq') = ToSet(cq) \ {t}
  BY <1>1, <1>2, WithoutLeaves
<1>4. Len(cq') <= WARTEPLAETZE
  BY <1>2, <1>3
<1>5. "run" \in WaitPlaces
  BY DEF WaitPlaces
<1> QED BY <1>1, <1>3, <1>4, <1>5, GotoDoes

LEMMA FristDoes ==
  ASSUME WaitTypeOK, NEW t \in Threads, fristen_faellig(t)
  PROVE  /\ place' \in [Threads -> WaitPlaces] /\ UNCHANGED <<inhaber, mq, fertig, cq, mark, stop>>
         /\ \A u \in Threads \ {t} : place'[u] = place[u]
         /\ frist' \subseteq timers /\ t \in timers
         /\ place'[t] \notin {"lock_sleep", "wait_sleep"} /\ (place'[t] = "holds" <=> place[t] = "holds")
         /\ (place'[t] = "lock_park" <=> place[t] = "lock_park")
         /\ (place'[t] = "wait_park" <=> place[t] = "wait_park")
<1> DEFINE p == IF place[t] = "wait_sleep" THEN "wait_late" ELSE Awake(place[t])
<1>1. /\ MoveTo(t, p) /\ UNCHANGED <<inhaber, mq, fertig, cq, mark, stop>>
      /\ frist' \subseteq timers /\ t \in timers
  BY DEF fristen_faellig, WaitTypeOK
<1>2. place[t] \in WaitPlaces
  BY DEF WaitTypeOK
<1>3. /\ p \in WaitPlaces /\ p \notin {"lock_sleep", "wait_sleep"} /\ (p = "holds" <=> place[t] = "holds")
      /\ (p = "lock_park" <=> place[t] = "lock_park") /\ (p = "wait_park" <=> place[t] = "wait_park")
  <2>1. CASE place[t] = "wait_sleep"
    BY <2>1 DEF WaitPlaces
  <2>2. CASE place[t] # "wait_sleep"
    BY <1>2, <2>2, AwakeTyped
  <2> QED BY <2>1, <2>2
<1> HIDE DEF p
<1> QED BY <1>1, <1>3, GotoDoes

LEMMA StopDoes ==
  ASSUME WaitAssumption, WaitTypeOK, NEW t \in Threads, kthread_stop(t)
  PROVE  /\ place' \in [Threads -> WaitPlaces] /\ mark' \in [Threads -> BOOLEAN]
         /\ UNCHANGED <<inhaber, mq, fertig, cq, frist>> /\ stop' = stop \cup {t} /\ t \in strays
         /\ \A u \in Threads :
              /\ place'[u] = (IF u = t THEN Awake(place[u]) ELSE place[u])
              /\ mark'[u] = (mark[u] \/ (u = t /\ ~Sleeping(u)))
<1>1. /\ unpark({t}, place) /\ UNCHANGED <<inhaber, mq, fertig, cq, frist>> /\ stop' = stop \cup {t}
      /\ t \in strays
  BY DEF kthread_stop
<1>2. place \in [Threads -> WaitPlaces]
  BY DEF WaitTypeOK
<1> QED BY <1>1, <1>2, UnparkDoes

-----------------------------------------------------------------------------
(* Every step keeps the invariant                                          *)

LEMMA TypeStep == ASSUME WaitAssumption, WaitTypeOK, WaitNext PROVE WaitTypeOK'
<1>0. strays' = strays /\ timers' = timers
  BY DEF WaitNext
<1>1. ASSUME NEW t \in Threads, park(t) PROVE WaitTypeOK'
  BY <1>0, <1>1, ParkDoes DEF WaitTypeOK
<1>2. ASSUME NEW t \in Threads, lock_schritt(t) PROVE WaitTypeOK'
  BY <1>0, <1>2, LockDoes DEF WaitTypeOK
<1>3. ASSUME NEW t \in Threads, unlock(t) PROVE WaitTypeOK'
  BY <1>0, <1>3, UnlockDoes DEF WaitTypeOK
<1>4. ASSUME NEW t \in Threads, complete(t) PROVE WaitTypeOK'
  BY <1>0, <1>4, CompleteDoes DEF WaitTypeOK, WaitAssumption
<1>5. ASSUME NEW t \in Threads, warten_schritt(t) PROVE WaitTypeOK'
  <2>1. fertig' \in 0 .. MaxFertig
    BY <1>5, WaitDoes DEF WaitTypeOK, WaitAssumption
  <2> QED BY <1>0, <1>5, <2>1, WaitDoes DEF WaitTypeOK
<1>6. ASSUME NEW t \in Threads, warten_timeout(t) PROVE WaitTypeOK'
  BY <1>0, <1>6, TimeoutDoes DEF WaitTypeOK
<1>7. ASSUME NEW t \in Threads, kthread_stop(t) PROVE WaitTypeOK'
  BY <1>0, <1>7, StopDoes DEF WaitTypeOK
<1>8. ASSUME NEW t \in Threads, fristen_faellig(t) PROVE WaitTypeOK'
  BY <1>0, <1>8, FristDoes DEF WaitTypeOK
<1> QED BY <1>1, <1>2, <1>3, <1>4, <1>5, <1>6, <1>7, <1>8 DEF WaitNext

LEMMA ListedStep ==
  ASSUME WaitAssumption, WInv, WaitNext PROVE ParkedListed' /\ Exclusive'
<1> USE DEF WInv
<1>0. \A u \in Threads : place[u] \in WaitPlaces /\ mark[u] \in BOOLEAN
  BY DEF WaitTypeOK
<1>1. ASSUME NEW t \in Threads, park(t) PROVE ParkedListed' /\ Exclusive'
  BY <1>0, <1>1, ParkDoes DEF ParkedListed, Exclusive
<1>2. ASSUME NEW t \in Threads, lock_schritt(t) PROVE ParkedListed' /\ Exclusive'
  <2>1. ParkedListed'
    BY <1>0, <1>2, LockDoes DEF ParkedListed
  <2>2. Exclusive'
    BY <1>0, <1>2, LockDoes DEF Exclusive, WaitAssumption
  <2> QED BY <2>1, <2>2
<1>3. ASSUME NEW t \in Threads, unlock(t) PROVE ParkedListed' /\ Exclusive'
  <2>1. PICK S \in SUBSET Threads :
          /\ \/ mq = <<>> /\ mq' = <<>> /\ S = {}
             \/ S = {Head(mq)} /\ ToSet(mq) = {Head(mq)} \cup ToSet(mq')
          /\ \A u \in Threads :
               /\ place'[u] = (IF u = t THEN "run" ELSE IF u \in S THEN Awake(place[u]) ELSE place[u])
               /\ mark'[u] = (mark[u] \/ (u \in S /\ ~Sleeping(u)))
    BY <1>3, UnlockDoes
  <2>2. place[t] = "holds" /\ inhaber' = None /\ cq' = cq /\ fertig' = fertig
    BY <1>3, UnlockDoes
  <2>3. \A u \in Threads \ S : u \in ToSet(mq) => u \in ToSet(mq')
    BY <2>1
  <2>4. ParkedListed'
    <3> SUFFICES ASSUME NEW u \in Threads
                 PROVE  /\ place'[u] = "lock_park" => mark'[u] \/ u \in ToSet(mq')
                        /\ place'[u] = "lock_sleep" => u \in ToSet(mq')
                        /\ place'[u] = "wait_park" => mark'[u] \/ (u \in ToSet(cq') /\ fertig' = 0)
                        /\ place'[u] = "wait_sleep" => u \in ToSet(cq') /\ fertig' = 0
      BY DEF ParkedListed
    <3>1. CASE u = t
      BY <2>1, <3>1
    <3>2. CASE u # t /\ u \in S
      <4>1. place'[u] = Awake(place[u]) /\ (~Sleeping(u) => mark'[u])
        BY <2>1, <3>2
      <4>2. place[u] \in {"lock_park", "wait_park"} => ~Sleeping(u)
        BY DEF Sleeping
      <4> QED BY <1>0, <4>1, <4>2, AwakeTyped
    <3>3. CASE u # t /\ u \notin S
      BY <1>0, <2>1, <2>2, <2>3, <3>3 DEF ParkedListed
    <3> QED BY <3>1, <3>2, <3>3
  <2>5. Exclusive'
    BY <1>0, <2>1, <2>2, AwakeTyped DEF Exclusive, WaitAssumption
  <2> QED BY <2>4, <2>5
<1>4. ASSUME NEW t \in Threads, complete(t) PROVE ParkedListed' /\ Exclusive'
  <2>1. /\ UNCHANGED <<inhaber, mq>>
        /\ \A u \in Threads :
             /\ place'[u] = (IF u \in ToSet(cq) THEN Awake(place[u]) ELSE place[u])
             /\ mark'[u] = (mark[u] \/ (u \in ToSet(cq) /\ ~Sleeping(u)))
    BY <1>4, CompleteDoes
  <2>2. ParkedListed'
    <3> SUFFICES ASSUME NEW u \in Threads
                 PROVE  /\ place'[u] = "lock_park" => mark'[u] \/ u \in ToSet(mq)
                        /\ place'[u] = "lock_sleep" => u \in ToSet(mq)
                        /\ place'[u] = "wait_park" => mark'[u]
                        /\ place'[u] # "wait_sleep"
      BY <2>1 DEF ParkedListed
    <3>1. CASE u \in ToSet(cq)
      <4>1. place'[u] = Awake(place[u]) /\ (~Sleeping(u) => mark'[u])
        BY <2>1, <3>1
      <4>2. place[u] \in {"lock_park", "wait_park"} => ~Sleeping(u)
        BY DEF Sleeping
      <4> QED BY <1>0, <4>1, <4>2, AwakeTyped
    <3>2. CASE u \notin ToSet(cq)
      BY <1>0, <2>1, <3>2 DEF ParkedListed
    <3> QED BY <3>1, <3>2
  <2>3. Exclusive'
    BY <1>0, <2>1, AwakeTyped DEF Exclusive
  <2> QED BY <2>2, <2>3
<1>5. ASSUME NEW t \in Threads, warten_schritt(t) PROVE ParkedListed' /\ Exclusive'
  <2>1. fertig \in Nat
    BY DEF WaitTypeOK
  <2>2. ParkedListed'
    BY <1>0, <1>5, <2>1, WaitDoes DEF ParkedListed
  <2>3. Exclusive'
    BY <1>0, <1>5, WaitDoes DEF Exclusive
  <2> QED BY <2>2, <2>3
<1>6. ASSUME NEW t \in Threads, warten_timeout(t) PROVE ParkedListed' /\ Exclusive'
  BY <1>0, <1>6, TimeoutDoes DEF ParkedListed, Exclusive
<1>7. ASSUME NEW t \in Threads, kthread_stop(t) PROVE ParkedListed' /\ Exclusive'
  <2>1. /\ UNCHANGED <<inhaber, mq, fertig, cq>>
        /\ \A u \in Threads :
             /\ place'[u] = (IF u = t THEN Awake(place[u]) ELSE place[u])
             /\ mark'[u] = (mark[u] \/ (u = t /\ ~Sleeping(u)))
    BY <1>7, StopDoes
  <2>2. ParkedListed'
    <3> SUFFICES ASSUME NEW u \in Threads
                 PROVE  /\ place'[u] = "lock_park" => mark'[u] \/ u \in ToSet(mq)
                        /\ place'[u] = "lock_sleep" => u \in ToSet(mq)
                        /\ place'[u] = "wait_park" => mark'[u] \/ (u \in ToSet(cq) /\ fertig = 0)
                        /\ place'[u] = "wait_sleep" => u \in ToSet(cq) /\ fertig = 0
      BY <2>1 DEF ParkedListed
    <3>1. CASE u = t
      <4>1. place'[u] = Awake(place[u]) /\ (~Sleeping(u) => mark'[u])
        BY <2>1, <3>1
      <4>2. place[u] \in {"lock_park", "wait_park"} => ~Sleeping(u)
        BY DEF Sleeping
      <4> QED BY <1>0, <4>1, <4>2, AwakeTyped
    <3>2. CASE u # t
      BY <1>0, <2>1, <3>2 DEF ParkedListed
    <3> QED BY <3>1, <3>2
  <2>3. Exclusive'
    BY <1>0, <2>1, AwakeTyped DEF Exclusive
  <2> QED BY <2>2, <2>3
<1>8. ASSUME NEW t \in Threads, fristen_faellig(t) PROVE ParkedListed' /\ Exclusive'
  BY <1>0, <1>8, FristDoes DEF ParkedListed, Exclusive
<1> QED BY <1>1, <1>2, <1>3, <1>4, <1>5, <1>6, <1>7, <1>8 DEF WaitNext

\* The invariant of the waiting primitives, also where Kthread::stop wakes threads from outside
\* and deadlines strike between any two steps: types and capacities, whoever is about to sleep or sleeps is listed or marked, and the mutex
\* excludes.
THEOREM WaitInvariant == ASSUME WaitAssumption PROVE WaitSpec => []WInv
<1>1. WaitInit => WInv
  <2> SUFFICES ASSUME WaitInit PROVE WInv
    OBVIOUS
  <2>1. WaitTypeOK
    BY TypeInit
  <2>2. ParkedListed /\ Exclusive
    BY DEF WaitInit, ParkedListed, Exclusive, WaitAssumption
  <2> QED BY <2>1, <2>2 DEF WInv
<1>2. WInv /\ [WaitNext]_waitVars => WInv'
  <2>1. ASSUME WInv, WaitNext PROVE WInv'
    BY <2>1, TypeStep, ListedStep DEF WInv
  <2>2. ASSUME WInv, UNCHANGED waitVars PROVE WInv'
    BY <2>2 DEF WInv, waitVars, moving, WaitTypeOK, ParkedListed, Exclusive
  <2> QED BY <2>1, <2>2
<1> QED BY <1>1, <1>2, PTL DEF WaitSpec

-----------------------------------------------------------------------------
(* Where nobody is stopped from outside and nobody has a deadline          *)

Alone == OwnMarksOnly => Exact /\ Handed

LEMMA AloneStep ==
  ASSUME WaitAssumption, WInv, OwnMarksOnly, Exact, Handed, WaitNext PROVE Exact' /\ Handed'
<1> USE DEF WInv
<1>0. \A u \in Threads : place[u] \in WaitPlaces /\ mark[u] \in BOOLEAN
  BY DEF WaitTypeOK
<1>1. ASSUME NEW t \in Threads, park(t) PROVE Exact' /\ Handed'
  <2>1. Exact'
    BY <1>0, <1>1, ParkDoes DEF Exact
  <2>2. Handed'
    BY <1>0, <1>1, ParkDoes DEF Handed, OnItsWay
  <2> QED BY <2>1, <2>2
<1>2. ASSUME NEW t \in Threads, lock_schritt(t) PROVE Exact' /\ Handed'
  <2>0. /\ mark' = mark /\ cq' = cq /\ place[t] \in {"run", "lock"} /\ ~mark[t]
        /\ \A u \in Threads \ {t} : place'[u] = place[u]
    BY <1>2, LockDoes DEF Exact
  <2>1. CASE inhaber = None /\ inhaber' = t /\ place'[t] = "holds" /\ mq' = mq
    BY <2>0, <2>1 DEF Exact, Handed, WaitAssumption
  <2>2. CASE /\ inhaber # None /\ inhaber' = inhaber /\ place'[t] = "lock_park"
             /\ mq' = Append(mq, t) /\ Len(mq') = Len(mq) + 1
             /\ ToSet(mq') = ToSet(mq) \cup {t}
    <3>1. t \notin ToSet(mq)
      BY <2>0 DEF Exact
    <3>2. \A u \in Threads :
            /\ mark'[u] => place'[u] \in {"lock_park", "wait_park"}
            /\ u \in ToSet(mq') <=> place'[u] \in {"lock_park", "lock_sleep"} /\ ~mark'[u]
            /\ u \in ToSet(cq') <=> place'[u] \in {"wait_park", "wait_sleep"} /\ ~mark'[u]
      BY <2>0, <2>2 DEF Exact
    <3>3. \A i, j \in DOMAIN mq' : mq'[i] = mq'[j] => i = j
      <4>1. mq \in Seq(Threads) /\ mq' = Append(mq, t)
        BY <2>2 DEF WaitTypeOK
      <4>2. \A i \in DOMAIN mq' : /\ i \in 1 .. (Len(mq) + 1)
                                  /\ mq'[i] = IF i = Len(mq) + 1 THEN t ELSE mq[i]
        BY <4>1
      <4>3. \A i \in 1 .. Len(mq) : i \in DOMAIN mq /\ mq[i] # t
        BY <3>1, <4>1 DEF ToSet
      <4>4. Len(mq) \in Nat
        BY <4>1
      <4>5. \A i \in DOMAIN mq' : i # Len(mq) + 1 => i \in 1 .. Len(mq)
        BY <4>2, <4>4
      <4> QED BY <4>2, <4>3, <4>5 DEF Exact
    <3> QED BY <2>2, <3>2, <3>3 DEF Exact, Handed
  <2>3. CASE inhaber # None /\ inhaber' = inhaber /\ place'[t] = "run" /\ mq' = mq
    BY <2>0, <2>3 DEF Exact, Handed
  <2> QED BY <1>2, <2>1, <2>2, <2>3, LockDoes
<1>3. ASSUME NEW t \in Threads, unlock(t) PROVE Exact' /\ Handed'
  <2>1. PICK S \in SUBSET Threads :
          /\ \/ mq = <<>> /\ mq' = <<>> /\ S = {}
             \/ /\ mq # <<>> /\ mq' = Tail(mq) /\ S = {Head(mq)}
                /\ ToSet(mq) = {Head(mq)} \cup ToSet(mq')
          /\ \A u \in Threads :
               /\ place'[u] = (IF u = t THEN "run" ELSE IF u \in S THEN Awake(place[u]) ELSE place[u])
               /\ mark'[u] = (mark[u] \/ (u \in S /\ ~Sleeping(u)))
    BY <1>3, UnlockDoes
  <2>2. place[t] = "holds" /\ inhaber' = None /\ cq' = cq /\ ~mark[t] /\ t \notin ToSet(mq)
    BY <1>3, UnlockDoes DEF Exact
  <2>3. CASE mq = <<>> /\ mq' = <<>> /\ S = {}
    BY <1>0, <2>1, <2>2, <2>3 DEF Exact, Handed
  <2>4. CASE /\ mq # <<>> /\ mq' = Tail(mq) /\ S = {Head(mq)}
             /\ ToSet(mq) = {Head(mq)} \cup ToSet(mq')
    <3> DEFINE h == Head(mq)
    <3>0. mq \in Seq(Threads) /\ Len(mq) \in Nat /\ Len(mq) # 0
      BY <2>4 DEF WaitTypeOK
    <3>1. h \in Threads /\ h # t /\ place[h] \in {"lock_park", "lock_sleep"} /\ ~mark[h]
      BY <2>1, <2>2, <2>4 DEF Exact
    <3>2. /\ \A i \in DOMAIN mq' : i + 1 \in DOMAIN mq /\ mq'[i] = mq[i + 1] /\ i \in Nat /\ i > 0
          /\ h = mq[1] /\ 1 \in DOMAIN mq
      BY <2>4, <3>0
    <3>3. h \notin ToSet(mq')
      <4> SUFFICES ASSUME NEW i \in DOMAIN mq', mq'[i] = h PROVE FALSE
        BY DEF ToSet
      <4>1. i + 1 = 1
        BY <3>2 DEF Exact
      <4> QED BY <3>2, <4>1
    <3>4. \A i, j \in DOMAIN mq' : mq'[i] = mq'[j] => i = j
      <4> SUFFICES ASSUME NEW i \in DOMAIN mq', NEW j \in DOMAIN mq', mq'[i] = mq'[j] PROVE i = j
        OBVIOUS
      <4>1. i + 1 = j + 1
        BY <3>2 DEF Exact
      <4> QED BY <3>2, <4>1
    <3>5. /\ place'[h] = (IF place[h] = "lock_sleep" THEN "lock" ELSE "lock_park")
          /\ mark'[h] <=> place[h] = "lock_park"
      BY <2>1, <2>4, <3>1 DEF Awake, Sleeping
    <3>6. \A u \in Threads \ {h} : /\ place'[u] = (IF u = t THEN "run" ELSE place[u])
                                   /\ mark'[u] = mark[u]
      BY <1>0, <2>1, <2>4
    <3>7. \A u \in Threads \ {h} : u \in ToSet(mq) <=> u \in ToSet(mq')
      BY <2>4
    <3> HIDE DEF h
    <3>8. Exact'
      <4> SUFFICES ASSUME NEW u \in Threads
                   PROVE
            /\ mark'[u] => place'[u] \in {"lock_park", "wait_park"}
            /\ u \in ToSet(mq') <=> place'[u] \in {"lock_park", "lock_sleep"} /\ ~mark'[u]
            /\ u \in ToSet(cq') <=> place'[u] \in {"wait_park", "wait_sleep"} /\ ~mark'[u]
        BY <3>4 DEF Exact
      <4>1. CASE u = h
        BY <2>2, <3>1, <3>3, <3>5, <4>1 DEF Exact
      <4>2. CASE u = t
        BY <2>2, <3>1, <3>6, <3>7, <4>2 DEF Exact
      <4>3. CASE u # h /\ u # t
        BY <1>0, <2>2, <3>6, <3>7, <4>3 DEF Exact
      <4> QED BY <4>1, <4>2, <4>3
    <3>9. Handed'
      BY <3>1, <3>5 DEF Handed, OnItsWay
    <3> QED BY <3>8, <3>9
  <2> QED BY <2>1, <2>3, <2>4
<1>4. ASSUME NEW t \in Threads, complete(t) PROVE Exact' /\ Handed'
  <2>1. /\ UNCHANGED <<inhaber, mq>> /\ ToSet(cq') = {}
        /\ \A u \in Threads :
             /\ place'[u] = (IF u \in ToSet(cq) THEN Awake(place[u]) ELSE place[u])
             /\ mark'[u] = (mark[u] \/ (u \in ToSet(cq) /\ ~Sleeping(u)))
    BY <1>4, CompleteDoes
  <2>2. \A u \in Threads :
          IF u \in ToSet(cq)
          THEN /\ place'[u] = (IF place[u] = "wait_sleep" THEN "wait" ELSE "wait_park")
               /\ place[u] \in {"wait_sleep", "wait_park"} /\ ~mark[u]
               /\ mark'[u] <=> place[u] = "wait_park"
          ELSE place'[u] = place[u] /\ mark'[u] = mark[u]
    <3> TAKE u \in Threads
    <3>1. CASE u \in ToSet(cq)
      <4>1. place[u] \in {"wait_sleep", "wait_park"} /\ ~mark[u]
        BY <3>1 DEF Exact
      <4> QED BY <2>1, <3>1, <4>1 DEF Awake, Sleeping
    <3>2. CASE u \notin ToSet(cq)
      BY <1>0, <2>1, <3>2
    <3> QED BY <3>1, <3>2
  <2>3. Exact'
    <3> SUFFICES ASSUME NEW u \in Threads
                 PROVE
          /\ mark'[u] => place'[u] \in {"lock_park", "wait_park"}
          /\ u \in ToSet(mq') <=> place'[u] \in {"lock_park", "lock_sleep"} /\ ~mark'[u]
          /\ u \in ToSet(cq') <=> place'[u] \in {"wait_park", "wait_sleep"} /\ ~mark'[u]
      BY <2>1 DEF Exact
    <3>1. CASE u \in ToSet(cq)
      BY <2>1, <2>2, <3>1 DEF Exact
    <3>2. CASE u \notin ToSet(cq)
      BY <2>1, <2>2, <3>2 DEF Exact
    <3> QED BY <3>1, <3>2
  <2>4. Handed'
    BY <2>1, <2>2 DEF Handed, OnItsWay
  <2> QED BY <2>3, <2>4
<1>5. ASSUME NEW t \in Threads, warten_schritt(t) PROVE Exact' /\ Handed'
  <2>1. Exact'
    BY <1>0, <1>5, WaitDoes DEF Exact
  <2>2. Handed'
    BY <1>0, <1>5, WaitDoes DEF Handed, OnItsWay
  <2> QED BY <2>1, <2>2
<1>6. ASSUME NEW t \in Threads, warten_timeout(t) \/ fristen_faellig(t) PROVE FALSE
  BY <1>6, TimeoutDoes, FristDoes DEF OwnMarksOnly
<1>7. ASSUME NEW t \in Threads, kthread_stop(t) PROVE FALSE
  BY <1>7 DEF kthread_stop, OwnMarksOnly
<1> QED BY <1>1, <1>2, <1>3, <1>4, <1>5, <1>6, <1>7 DEF WaitNext

\* No wake-up is lost between looking and sleeping, for any number of threads and places: every
\* sleeper is in the list that wakes it and nobody sleeps on a completion with something to
\* collect, also where deadlines and Kthread::stop leave marks behind; where neither does, a free
\* mutex with sleepers has somebody on the way.
THEOREM WaitNoWakeUpLost == ASSUME WaitAssumption PROVE WaitSpec => []NoWakeUpLost
<1>1. WaitInit => Alone
  BY DEF WaitInit, Alone, Exact, Handed, ToSet
<1>2. WInv /\ Alone /\ [WaitNext]_waitVars => Alone'
  <2>1. ASSUME WInv, Alone, WaitNext PROVE Alone'
    BY <2>1, AloneStep DEF Alone, OwnMarksOnly, WaitNext
  <2>2. ASSUME Alone, UNCHANGED waitVars PROVE Alone'
    BY <2>2 DEF Alone, OwnMarksOnly, Exact, Handed, OnItsWay, waitVars, moving
  <2> QED BY <2>1, <2>2
<1>3. WInv /\ Alone => NoWakeUpLost
  <2> SUFFICES ASSUME WInv, Alone PROVE NoWakeUpLost
    OBVIOUS
  <2>1. MutexHandedOn
    <3> SUFFICES ASSUME OwnMarksOnly, inhaber = None, NEW t \in Threads, place[t] = "lock_sleep"
                 PROVE  \E u \in Threads : OnItsWay(u)
      BY DEF MutexHandedOn
    <3>1. t \in ToSet(mq)
      BY DEF WInv, ParkedListed
    <3>2. mq # <<>>
      BY <3>1 DEF ToSet
    <3> QED BY <3>2 DEF Alone, Handed
  <2>2. SleeperListed
    BY DEF WInv, ParkedListed, SleeperListed
  <2>3. NobodySleepsOnFertig
    BY DEF WInv, WaitTypeOK, ParkedListed, NobodySleepsOnFertig
  <2> QED BY <2>1, <2>2, <2>3 DEF NoWakeUpLost
<1> QED BY <1>1, <1>2, <1>3, WaitInvariant, PTL DEF WaitSpec
=============================================================================
