------------------------------ MODULE LockSpec ------------------------------
(***************************************************************************)
(* What a lock of caprock-sync promises its callers: guards that share, or *)
(* one guard alone.  SpinLock and RwSpinLock implement it.                 *)
(***************************************************************************)
CONSTANT Holders

VARIABLES shared,  \* holders of a read guard
          excl     \* the holder of the write guard, as a set of at most one

lockVars == <<shared, excl>>

Free == shared = {} /\ excl = {}

AcquireShared(x) == excl = {} /\ x \notin shared /\ shared' = shared \cup {x} /\ UNCHANGED excl
ReleaseShared(x) == x \in shared /\ shared' = shared \ {x} /\ UNCHANGED excl
AcquireExcl(x) == Free /\ excl' = {x} /\ UNCHANGED shared
ReleaseExcl(x) == excl = {x} /\ excl' = {} /\ UNCHANGED shared

LockNext == \E x \in Holders : \/ AcquireShared(x) \/ ReleaseShared(x)
                               \/ AcquireExcl(x) \/ ReleaseExcl(x)

LockSpecification == Free /\ [][LockNext]_lockVars
=============================================================================
