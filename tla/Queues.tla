------------------------------- MODULE Queues -------------------------------
(***************************************************************************)
(* The waiting lists of the kernel and of the waiting primitives: TidQueue *)
(* of caprock-ipc and WaitQueue of caprock-wait.  An entry may occur more  *)
(* than once.                                                              *)
(***************************************************************************)
EXTENDS Naturals, Sequences

ToSet(q) == {q[i] : i \in DOMAIN q}

\* remove, entfernen: every entry is taken out in turn and put back unless it is the one.
Kept(q, t) ==
  LET f[i \in 0 .. Len(q)] ==
        IF i = 0 THEN <<>> ELSE IF q[i] = t THEN f[i - 1] ELSE Append(f[i - 1], q[i])
  IN f

Without(q, t) == Kept(q, t)[Len(q)]
=============================================================================
