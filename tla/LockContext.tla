---------------------------- MODULE LockContext ----------------------------
(***************************************************************************)
(* Who runs through a lock of caprock-sync: on every core a thread and, on *)
(* top of it, an interrupt handler that uses the same lock.  Each context  *)
(* takes the lock again and again.  irq_save_disable masks the core's      *)
(* interrupts before anything else, irq_restore puts the old state back    *)
(* after the release.                                                      *)
(***************************************************************************)
EXTENDS Naturals, FiniteSets

CONSTANT Cores

Ctx == Cores \X {0, 1}  \* level 0: the thread, level 1: the handler above it

VARIABLES lvl,     \* the level each core executes
          masked,  \* interrupts masked at the core
          saved,   \* per context: the daif field of its guard
          pc       \* per context: where it is in the lock

ctxVars == <<lvl, masked, saved, pc>>

Running(x) == lvl[x[1]] = x[2]
At(x, p) == Running(x) /\ pc[x] = p
Goto(x, p) == pc' = [pc EXCEPT ![x] = p] /\ UNCHANGED <<lvl, masked, saved>>

CtxInit ==
  /\ lvl = [c \in Cores |-> 0]
  /\ masked = [c \in Cores |-> FALSE]
  /\ saved = [x \in Ctx |-> FALSE]
  /\ pc = [x \in Ctx |-> "idle"]

\* Mutant of irq_save_disable: the old state is saved, interrupts stay enabled.
SaveOnly(x, p) ==
  /\ At(x, "idle")
  /\ saved' = [saved EXCEPT ![x] = masked[x[1]]]
  /\ pc' = [pc EXCEPT ![x] = p]
  /\ UNCHANGED <<lvl, masked>>

irq_save_disable(x, p) ==
  /\ At(x, "idle")
  /\ saved' = [saved EXCEPT ![x] = masked[x[1]]]
  /\ masked' = [masked EXCEPT ![x[1]] = TRUE]
  /\ pc' = [pc EXCEPT ![x] = p]
  /\ UNCHANGED lvl

irq_restore(x) ==
  /\ At(x, "restore")
  /\ masked' = [masked EXCEPT ![x[1]] = saved[x]]
  /\ saved' = [saved EXCEPT ![x] = FALSE]
  /\ pc' = [pc EXCEPT ![x] = "idle"]
  /\ UNCHANGED lvl

\* An interrupt is taken: the hardware masks further ones until the handler returns.
Interrupt(c) ==
  /\ lvl[c] = 0 /\ ~masked[c]
  /\ lvl' = [lvl EXCEPT ![c] = 1]
  /\ masked' = [masked EXCEPT ![c] = TRUE]
  /\ UNCHANGED <<saved, pc>>

Return(c) ==
  /\ lvl[c] = 1 /\ pc[<<c, 1>>] = "idle"
  /\ lvl' = [lvl EXCEPT ![c] = 0]
  /\ masked' = [masked EXCEPT ![c] = FALSE]
  /\ UNCHANGED <<saved, pc>>
=============================================================================
