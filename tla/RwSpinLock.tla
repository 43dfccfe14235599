----------------------------- MODULE RwSpinLock -----------------------------
(***************************************************************************)
(* The reader-writer lock of caprock-sync.  One u32 holds the writer bit   *)
(* and the number of readers, a second one the writers that have           *)
(* registered; every access to one of them is a step of its own.           *)
(***************************************************************************)
EXTENDS LockContext

CONSTANTS RW_WRITER,  \* 2^31 in the code
          Writers     \* the contexts that write at all

ASSUME RwAssumption ==
  /\ IsFiniteSet(Cores)
  /\ RW_WRITER \in Nat /\ Cardinality(Ctx) < RW_WRITER /\ Writers \subseteq Ctx

VARIABLES state, writers_waiting

rwVars == <<state, writers_waiting, ctxVars>>

Reading == {"look", "register", "check", "back", "reading"}
Writing == {"intend", "cas", "writing", "leave"}

\* The two words hold naturals and every context stands at a point of read or write.
RwTypeOK ==
  /\ lvl \in [Cores -> {0, 1}] /\ masked \in [Cores -> BOOLEAN] /\ saved \in [Ctx -> BOOLEAN]
  /\ pc \in [Ctx -> {"idle", "restore"} \cup Reading \cup Writing]
  /\ state \in Nat /\ writers_waiting \in Nat

RwInit == CtxInit /\ state = 0 /\ writers_waiting = 0

HasWriter == state >= RW_WRITER

-----------------------------------------------------------------------------
(* read()                                                                  *)

MaskRead(x) == irq_save_disable(x, "look") /\ UNCHANGED <<state, writers_waiting>>

\* Mutant of Look: registered writers are not given way.
LookPast(x) ==
  /\ At(x, "look") /\ Goto(x, "register")
  /\ UNCHANGED <<state, writers_waiting>>

Look(x) ==
  /\ At(x, "look") /\ writers_waiting = 0 /\ Goto(x, "register")
  /\ UNCHANGED <<state, writers_waiting>>

\* fetch_add; a set writer bit in the previous value is as good as a failed check.
Register(x) ==
  /\ At(x, "register")
  /\ state' = state + 1
  /\ Goto(x, IF HasWriter THEN "back" ELSE "check")
  /\ UNCHANGED writers_waiting

Check(x) ==
  /\ At(x, "check")
  /\ Goto(x, IF writers_waiting = 0 THEN "reading" ELSE "back")
  /\ UNCHANGED <<state, writers_waiting>>

Back(x) ==
  /\ At(x, "back") /\ Goto(x, "look")
  /\ state' = state - 1
  /\ UNCHANGED writers_waiting

\* RwReadGuard::drop
DropRead(x) ==
  /\ At(x, "reading") /\ Goto(x, "restore")
  /\ state' = state - 1
  /\ UNCHANGED writers_waiting

-----------------------------------------------------------------------------
(* write()                                                                 *)

MaskWrite(x) == x \in Writers /\ irq_save_disable(x, "intend") /\ UNCHANGED <<state, writers_waiting>>

Intend(x) ==
  /\ At(x, "intend") /\ Goto(x, "cas")
  /\ writers_waiting' = writers_waiting + 1
  /\ UNCHANGED state

\* Mutant of Cas: only the writer bit is tested.
CasBesideReaders(x) ==
  /\ At(x, "cas") /\ ~HasWriter /\ Goto(x, "writing")
  /\ state' = state + RW_WRITER
  /\ UNCHANGED writers_waiting

\* compare_exchange(0, RW_WRITER) that succeeds; a failed one changes nothing.
Cas(x) ==
  /\ At(x, "cas") /\ state = 0 /\ Goto(x, "writing")
  /\ state' = RW_WRITER
  /\ UNCHANGED writers_waiting

\* Mutant of DropWrite: store(0).
DropWriteStore(x) ==
  /\ At(x, "writing") /\ Goto(x, "leave")
  /\ state' = 0
  /\ UNCHANGED writers_waiting

\* RwWriteGuard::drop: fetch_and(!RW_WRITER) keeps the readers that have just registered.
DropWrite(x) ==
  /\ At(x, "writing") /\ Goto(x, "leave")
  /\ state' = IF HasWriter THEN state - RW_WRITER ELSE state
  /\ UNCHANGED writers_waiting

Leave(x) ==
  /\ At(x, "leave") /\ Goto(x, "restore")
  /\ writers_waiting' = writers_waiting - 1
  /\ UNCHANGED state

RwRestore(x) == irq_restore(x) /\ UNCHANGED <<state, writers_waiting>>

-----------------------------------------------------------------------------
RwInLock(x) ==
  \/ Look(x) \/ Register(x) \/ Check(x) \/ Back(x) \/ DropRead(x)
  \/ Intend(x) \/ Cas(x) \/ DropWrite(x) \/ Leave(x) \/ RwRestore(x)
RwIrq(c) == (Interrupt(c) \/ Return(c)) /\ UNCHANGED <<state, writers_waiting>>

RwNext ==
  \/ \E x \in Ctx : MaskRead(x) \/ MaskWrite(x) \/ RwInLock(x)
  \/ \E c \in Cores : RwIrq(c)

\* A core executes its instructions; a loop that tests a condition leaves when the condition
\* stays true.
RwFairness == \A c \in Cores :
  /\ WF_rwVars(\E l \in {0, 1} : RwInLock(<<c, l>>))
  /\ WF_rwVars(Return(c) /\ UNCHANGED <<state, writers_waiting>>)

RwSafe == RwInit /\ [][RwNext]_rwVars
RwSpec == RwSafe /\ RwFairness

-----------------------------------------------------------------------------
(* Properties                                                              *)

\* The contexts the lower bits of state count, and the guards.
Counted == {x \in Ctx : pc[x] \in {"check", "back", "reading"}}
Registered == {x \in Ctx : pc[x] \in {"cas", "writing", "leave"}}
ReadGuards == {x \in Ctx : pc[x] = "reading"}
WriteGuards == {x \in Ctx : pc[x] = "writing"}

RwLock == INSTANCE LockSpec WITH Holders <- Ctx, shared <- ReadGuards, excl <- WriteGuards

\* read(), write() and the guards implement a shared and exclusive lock.
RwImplementsLock == RwLock!LockSpecification

\* The two counters say what the contexts are doing: the transient registration of a reader
\* that steps back survives the release of a writer, no counter drifts or runs below zero, and
\* a reader that has seen no writer bit keeps writers out.
CountersTrue ==
  /\ state = Cardinality(Counted) + (IF WriteGuards = {} THEN 0 ELSE RW_WRITER)
  /\ writers_waiting = Cardinality(Registered)
  /\ \A x, y \in WriteGuards : x = y
  /\ WriteGuards # {} => \A x \in Counted : pc[x] = "back"

\* Writers' priority does not turn into a lock-out: a reader gets in unless a writer is about.
ReaderGetsIn == \A x \in Ctx : pc[x] = "look" ~> (pc[x] = "reading" \/ \E y \in Writers : pc[y] \in Writing)

\* "So the rare writers do not starve": once a writer has registered, no stream of readers keeps
\* the writers out, and a reader that gave way gets in unless a writer is about.
BothKindsGetIn ==
  /\ (\E x \in Writers : pc[x] = "cas") ~> (\E x \in Writers : pc[x] = "writing")
  /\ ReaderGetsIn

\* The same for every single writer.  It holds for one writer and not for two: nothing orders the
\* writers among each other, so one of them may lose every compare_exchange.
WriterGetsIn == \A x \in Writers : pc[x] = "cas" ~> pc[x] = "writing"
=============================================================================
