----------------------------- MODULE IpcProofs -----------------------------
(***************************************************************************)
(* Proofs about the endpoints and notifications, for any number of         *)
(* threads, cores and objects.  First what each step does to the queues,   *)
(* the threads and the operations under way, and what holds in every       *)
(* world: the types, the operations' own records, and the sweep that is    *)
(* due to a dead thread.  Then the theorems: who is blocked is entered     *)
(* where it waits, comes back with what belongs to its wait, and no signal *)
(* is lost.                                                                *)
(***************************************************************************)
EXTENDS Ipc, QueueProofs, FiniteSetTheorems, SequenceTheorems

USE IpcAssumption

-----------------------------------------------------------------------------
(* Queues                                                                  *)

\* dequeue takes the first live thread and drops the dead ones before it.
LEMMA TakeFirst ==
  ASSUME NEW q \in Seq(Threads), LiveIn(q) # {}
  PROVE  LET s == q[FirstLive(q)]
             r == Behind(q, FirstLive(q))
         IN /\ s \in Threads /\ s \in ToSet(q) /\ alive[s]
            /\ r \in Seq(Threads) /\ Len(r) <= Len(q) /\ ToSet(r) \subseteq ToSet(q)
            /\ \A t \in ToSet(q) : alive[t] => t = s \/ t \in ToSet(r)
            /\ SingleIn(q) => SingleIn(r) /\ s \notin ToSet(r)
PROOF
  <1> DEFINE i == FirstLive(q)
             r == Behind(q, i)
             n == Len(q)
  <1>1. n \in Nat /\ DOMAIN q = 1 .. n /\ LiveIn(q) \in SUBSET Nat BY DEF LiveIn
  <1>2. \E x \in LiveIn(q) : \A j \in LiveIn(q) : x <= j BY <1>1, LeastNatural
  <1>3. i \in LiveIn(q) /\ \A j \in LiveIn(q) : i <= j BY <1>2 DEF FirstLive
  <1>4. i \in 1 .. n /\ alive[q[i]] BY <1>1, <1>3 DEF LiveIn
  <1> HIDE DEF i
  <1>5. /\ r \in Seq(Threads) /\ Len(r) = n - i /\ DOMAIN r = 1 .. n - i
        /\ \A j \in 1 .. n - i : r[j] = q[i + j]
    <2>1. i + 1 \in Int /\ n \in Int /\ \A j \in i + 1 .. n : q[j] \in Threads BY <1>1, <1>4
    <2>2. /\ r \in Seq(Threads) /\ Len(r) = (IF i + 1 <= n THEN n - (i + 1) + 1 ELSE 0)
          /\ \A j \in 1 .. n - (i + 1) + 1 : r[j] = q[i + 1 + j - 1]
      BY <2>1, SubSeqProperties DEF Behind
    <2> HIDE DEF r, n
    <2>a. DOMAIN r = 1 .. Len(r) BY <2>2
    <2>b. Len(r) = n - i BY <2>2, <1>1, <1>4
    <2>3. Len(r) = n - i /\ DOMAIN r = 1 .. n - i BY <2>a, <2>b
    <2>c. n - (i + 1) + 1 = n - i /\ \A j \in 1 .. n - i : i + 1 + j - 1 = i + j BY <1>1, <1>4
    <2>4. \A j \in 1 .. n - i : r[j] = q[i + j]
      <3> TAKE j \in 1 .. n - i
      <3>1. i + 1 + j - 1 = i + j BY <2>c
      <3>2. r[j] = q[i + 1 + j - 1] BY <2>2, <2>c
      <3> QED BY <3>1, <3>2
    <2> QED BY <2>2, <2>3, <2>4
  <1>6. \A j \in DOMAIN r : i + j \in DOMAIN q /\ i + j # i /\ r[j] = q[i + j] BY <1>1, <1>4, <1>5
  <1>7. \A k \in DOMAIN q : k > i => k - i \in DOMAIN r /\ r[k - i] = q[k]
    <2> SUFFICES ASSUME NEW k \in DOMAIN q, k > i PROVE k - i \in DOMAIN r /\ r[k - i] = q[k]
      OBVIOUS
    <2>1. k - i \in 1 .. n - i /\ i + (k - i) = k BY <1>1, <1>4
    <2> QED BY <2>1, <1>5
  <1>8. \A k \in DOMAIN q : alive[q[k]] => k = i \/ k > i BY <1>1, <1>3, <1>4 DEF LiveIn
  <1>9. q[i] \in Threads /\ q[i] \in ToSet(q) BY <1>1, <1>4 DEF ToSet
  <1> HIDE DEF r
  <1>10. ToSet(r) \subseteq ToSet(q) BY <1>6 DEF ToSet
  <1>11. \A t \in ToSet(q) : alive[t] => t = q[i] \/ t \in ToSet(r)
    <2> TAKE t \in ToSet(q)
    <2>1. PICK k \in DOMAIN q : t = q[k] BY DEF ToSet
    <2> QED BY <2>1, <1>7, <1>8 DEF ToSet
  <1>12. ASSUME SingleIn(q) PROVE SingleIn(r) /\ q[i] \notin ToSet(r)
    <2>1. SingleIn(r)
      <3> SUFFICES ASSUME NEW j \in DOMAIN r, NEW k \in DOMAIN r, r[j] = r[k] PROVE j = k
        BY DEF SingleIn
      <3>1. i + j = i + k BY <1>6, <1>12 DEF SingleIn
      <3> QED BY <3>1, <1>5, <1>4
    <2>2. q[i] \notin ToSet(r)
      <3> SUFFICES ASSUME NEW j \in DOMAIN r, r[j] = q[i] PROVE FALSE BY DEF ToSet
      <3>1. i + j = i BY <1>1, <1>4, <1>6, <1>12 DEF SingleIn
      <3> QED BY <3>1, <1>6
    <2> QED BY <2>1, <2>2
  <1>13. Len(r) <= n BY <1>1, <1>4, <1>5
  <1> QED BY <1>4, <1>5, <1>9, <1>10, <1>11, <1>12, <1>13 DEF i, r

-----------------------------------------------------------------------------
(* Types                                                                   *)


\* A reply token names its caller if it names anyone.
TokenWhole == \A e \in Endpoints : ep[e].caller = None => ep[e].owner = None

TypeInv == TypeOK /\ TokenWhole

LEMMA NoneApart == None \notin Threads /\ None \notin Objs
  OBVIOUS

\* The fields of what the tables hold.
LEMMA EpFields ==
  ASSUME TypeOK, NEW e \in Endpoints
  PROVE  /\ ep[e].quiescing \in BOOLEAN
         /\ ep[e].senders \in Seq(Threads) /\ ep[e].receivers \in Seq(Threads)
         /\ Len(ep[e].senders) <= QueueCap /\ Len(ep[e].receivers) <= QueueCap
         /\ ep[e].caller \in Threads \cup {None} /\ ep[e].owner \in Threads \cup {None}
         /\ ep[e] = [quiescing |-> ep[e].quiescing, senders |-> ep[e].senders,
                     receivers |-> ep[e].receivers, caller |-> ep[e].caller, owner |-> ep[e].owner]
  BY DEF TypeOK, Endpoint

LEMMA OpFields ==
  ASSUME TypeOK, NEW c \in Cores
  PROVE  /\ op[c].k \in {"idle", "wake", "purge", "death", "sweep", "gone"}
         /\ op[c].obj \in Objs \cup {None}
         /\ op[c].self \in Threads \cup {None} /\ op[c].to \in Threads \cup {None}
         /\ op[c].todo \in SUBSET (Threads \X Objs) /\ op[c].orphans \in SUBSET Threads
         /\ op[c] \in Operation
  BY DEF TypeOK, Operation

LEMMA ThreadFields ==
  ASSUME TypeOK, NEW t \in Threads
  PROVE  /\ alive[t] \in BOOLEAN /\ ipc[t] \in BOOLEAN /\ frist[t] \in BOOLEAN
         /\ frame[t] \in Frame /\ wait[t] \in Syscall /\ CoreOf[t] \in Cores
         /\ serving[t] \in [Endpoints -> Threads \cup {None, "stale"}]
  BY DEF TypeOK

\* One endpoint changes.
LEMMA EpTyped ==
  ASSUME TypeOK, NEW e \in Endpoints, NEW r, r \in Endpoint,
         Len(r.senders) <= QueueCap, Len(r.receivers) <= QueueCap,
         ep' = [ep EXCEPT ![e] = r]
  PROVE  /\ ep' \in [Endpoints -> Endpoint] /\ ep'[e] = r
         /\ \A x \in Endpoints : Len(ep'[x].senders) <= QueueCap /\ Len(ep'[x].receivers) <= QueueCap
         /\ \A x \in Endpoints : x # e => ep'[x] = ep[x]
  BY DEF TypeOK

\* One core's operation changes.
LEMMA OpTyped ==
  ASSUME TypeOK, NEW c \in Cores, NEW v, v \in Operation, op' = [op EXCEPT ![c] = v]
  PROVE  /\ op' \in [Cores -> Operation] /\ op'[c] = v
         /\ \A d \in Cores : d # c => op'[d] = op[d]
  BY DEF TypeOK

LEMMA IdleTyped == Idle \in Operation
  BY DEF Idle, Operation

LEMMA WakingTyped ==
  ASSUME NEW o \in Objs, NEW t \in Threads, NEW s \in Threads \cup {None}
  PROVE  /\ Waking(o, t, s) \in Operation
         /\ Waking(o, t, s).k = "wake" /\ Waking(o, t, s).obj = o /\ Waking(o, t, s).to = t
         /\ Waking(o, t, s).self = s /\ Waking(o, t, s).todo = {} /\ Waking(o, t, s).orphans = {}
  BY DEF Waking, Idle, Operation

\* No endpoint but e changes, and e within its type.
OnlyEp(e) == ep' \in [Endpoints -> Endpoint] /\ \A x \in Endpoints : x # e => ep'[x] = ep[x]

Lengths(e) == Len(ep[e].senders) <= QueueCap /\ Len(ep[e].receivers) <= QueueCap
AllLengths == \A e \in Endpoints : Lengths(e)

LEMMA EpStep ==
  ASSUME TypeInv, NEW e \in Endpoints, OnlyEp(e), Lengths(e)',
         ep'[e].caller = None => ep'[e].owner = None
  PROVE  TokenWhole' /\ AllLengths'
  BY DEF TypeInv, TypeOK, TokenWhole, OnlyEp, Lengths, AllLengths

EmptyQueue == <<>>

LEMMA EmptyTyped == EmptyQueue \in Seq(Threads) /\ Len(EmptyQueue) <= QueueCap
  BY DEF EmptyQueue

\* The ways an operation writes an endpoint.
LEMMA EpWrites ==
  ASSUME TypeOK, NEW e \in Endpoints, NEW S \in Seq(Threads), NEW R \in Seq(Threads),
         NEW c \in Threads \cup {None}, NEW o \in Threads \cup {None}, NEW b \in BOOLEAN
  PROVE  /\ [ep EXCEPT ![e].receivers = R] \in [Endpoints -> Endpoint]
         /\ [ep EXCEPT ![e].senders = S] \in [Endpoints -> Endpoint]
         /\ [ep EXCEPT ![e].quiescing = b] \in [Endpoints -> Endpoint]
         /\ [ep EXCEPT ![e].receivers = R, ![e].senders = S] \in [Endpoints -> Endpoint]
         /\ [ep EXCEPT ![e].senders = S, ![e].receivers = R] \in [Endpoints -> Endpoint]
         /\ [ep EXCEPT ![e].caller = c, ![e].owner = o] \in [Endpoints -> Endpoint]
         /\ [ep EXCEPT ![e].receivers = R, ![e].caller = c, ![e].owner = o] \in [Endpoints -> Endpoint]
         /\ [ep EXCEPT ![e].senders = S, ![e].caller = c, ![e].owner = o] \in [Endpoints -> Endpoint]
PROOF
  <1>0. ep \in [Endpoints -> Endpoint] BY DEF TypeOK
  <1>1. [ep EXCEPT ![e].receivers = R] \in [Endpoints -> Endpoint]
    BY <1>0 DEF Endpoint
  <1>2. [ep EXCEPT ![e].senders = S] \in [Endpoints -> Endpoint]
    BY <1>0 DEF Endpoint
  <1>3. [ep EXCEPT ![e].quiescing = b] \in [Endpoints -> Endpoint]
    BY <1>0 DEF Endpoint
  <1>4. [ep EXCEPT ![e].receivers = R, ![e].senders = S] \in [Endpoints -> Endpoint]
    BY <1>0 DEF Endpoint
  <1>5. [ep EXCEPT ![e].senders = S, ![e].receivers = R] \in [Endpoints -> Endpoint]
    BY <1>0 DEF Endpoint
  <1>6. [ep EXCEPT ![e].caller = c, ![e].owner = o] \in [Endpoints -> Endpoint]
    BY <1>0 DEF Endpoint
  <1>7. [ep EXCEPT ![e].receivers = R, ![e].caller = c, ![e].owner = o] \in [Endpoints -> Endpoint]
    BY <1>0, ZenonT(40) DEF Endpoint
  <1>8. [ep EXCEPT ![e].senders = S, ![e].caller = c, ![e].owner = o] \in [Endpoints -> Endpoint]
    BY <1>0, ZenonT(40) DEF Endpoint
  <1> QED BY <1>1, <1>2, <1>3, <1>4, <1>5, <1>6, <1>7, <1>8

\* What dequeue makes of a queue: the first live thread is out.
Took(q, s, r) ==
  /\ s \in ToSet(q) /\ s \in Threads /\ alive[s] /\ ToSet(r) \subseteq ToSet(q)
  /\ \A u \in ToSet(q) : alive[u] => u = s \/ u \in ToSet(r)
  /\ SingleIn(q) => SingleIn(r) /\ s \notin ToSet(r)

\* What is left of a queue without a live thread.
Dropped(q, r) == r = q \/ (r = <<>> /\ LiveIn(q) = {})

\* The first four variables of a thread and the rest keep their types.
ThreadTypes ==
  /\ alive \in [Threads -> BOOLEAN] /\ ipc \in [Threads -> BOOLEAN]
  /\ frist \in [Threads -> BOOLEAN] /\ frame \in [Threads -> Frame]
  /\ wait \in [Threads -> Syscall]
  /\ serving \in [Threads -> [Endpoints -> Threads \cup {None, "stale"}]]

RestTypes ==
  /\ nt \in [Notifications -> Notification] /\ op \in [Cores -> Operation]
  /\ retired \subseteq Threads /\ owed \subseteq Badges /\ panic \in BOOLEAN /\ world \in World

LEMMA TypeParts ==
  /\ TypeOK <=> /\ ep \in [Endpoints -> Endpoint] /\ AllLengths /\ ThreadTypes /\ RestTypes
  /\ TypeOK' <=> /\ ep' \in [Endpoints -> Endpoint] /\ AllLengths' /\ ThreadTypes' /\ RestTypes'
  BY DEF TypeOK, AllLengths, Lengths, ThreadTypes, RestTypes

LEMMA ArmTyped ==
  ASSUME TypeOK, NEW t \in Threads, NEW tm \in BOOLEAN, Arm(t, tm), MayTime(t, tm)
  PROVE  /\ frist' \in [Threads -> BOOLEAN]
         /\ \A u \in Threads : frist'[u] => frist[u] \/ u \in world.timed
  BY DEF TypeOK, Arm, MayTime

LEMMA CallRefusedStep ==
  ASSUME TypeInv, NEW t \in Threads, NEW e \in Endpoints, NEW tm \in BOOLEAN,
         CallRefused(t, e, tm), UNCHANGED world
  PROVE  /\ TypeInv' /\ OnlyEp(e)
         /\ ep'[e].senders = ep[e].senders /\ ep'[e].caller = ep[e].caller
         /\ ep'[e].owner = ep[e].owner /\ ep'[e].quiescing = ep[e].quiescing
         /\ Dropped(ep[e].receivers, ep'[e].receivers)
         /\ \A u \in Threads : frist'[u] => frist[u] \/ u \in world.timed
PROOF
  <1>0. TypeOK BY DEF TypeInv
  <1>1. /\ frist' \in [Threads -> BOOLEAN]
        /\ \A u \in Threads : frist'[u] => frist[u] \/ u \in world.timed
    BY <1>0, ArmTyped DEF CallRefused, CallEntry
  <1>2. CASE ep' = ep
    <2>1. TypeOK' BY <1>0, <1>1, <1>2 DEF TypeOK, CallRefused
    <2>2. TokenWhole' BY <1>2 DEF TypeInv, TokenWhole
    <2>3. OnlyEp(e) BY <1>0, <1>2 DEF OnlyEp, TypeOK
    <2> QED BY <1>1, <1>2, <2>1, <2>2, <2>3 DEF TypeInv, Dropped
  <1>3. CASE LiveIn(ep[e].receivers) = {} /\ ep' = [ep EXCEPT ![e].receivers = EmptyQueue]
    <2>1. /\ OnlyEp(e) /\ ep'[e].senders = ep[e].senders /\ ep'[e].receivers = EmptyQueue
          /\ ep'[e].caller = ep[e].caller /\ ep'[e].owner = ep[e].owner
          /\ ep'[e].quiescing = ep[e].quiescing
      <3>1. ep' \in [Endpoints -> Endpoint] BY <1>0, <1>3, EmptyTyped, EpWrites
      <3>2. \A x \in Endpoints : x # e => ep'[x] = ep[x] BY <1>0, <1>3 DEF TypeOK
      <3>3. /\ ep'[e].senders = ep[e].senders /\ ep'[e].receivers = EmptyQueue
            /\ ep'[e].caller = ep[e].caller /\ ep'[e].owner = ep[e].owner
            /\ ep'[e].quiescing = ep[e].quiescing
        BY <1>0, <1>3 DEF TypeOK
      <3> QED BY <3>1, <3>2, <3>3 DEF OnlyEp
    <2>2. TokenWhole' /\ AllLengths'
      <3>1. Lengths(e)' /\ (ep'[e].caller = None => ep'[e].owner = None)
        BY <1>0, <2>1, EpFields, EmptyTyped DEF TypeInv, TokenWhole, Lengths
      <3> QED BY <2>1, <3>1, EpStep
    <2>3. TypeOK' BY <1>0, <1>1, <2>1, <2>2, TypeParts DEF CallRefused, ThreadTypes, RestTypes, OnlyEp
    <2> QED BY <1>1, <1>3, <2>1, <2>2, <2>3 DEF TypeInv, Dropped, EmptyQueue
  <1> QED BY <1>2, <1>3 DEF CallRefused, EmptyQueue

LEMMA CallRendezvousStep ==
  ASSUME TypeInv, NEW t \in Threads, NEW e \in Endpoints, NEW tm \in BOOLEAN,
         CallRendezvous(t, e, tm), UNCHANGED world
  PROVE  /\ TypeInv' /\ OnlyEp(e)
         /\ \E s \in Threads :
              /\ Took(ep[e].receivers, s, ep'[e].receivers)
              /\ ep'[e].senders = ep[e].senders /\ ep'[e].caller = t /\ ep'[e].owner = s
              /\ ep'[e].quiescing = ep[e].quiescing
              /\ frame' = [frame EXCEPT ![s] = [res |-> "OK", from |-> t, bits |-> {}]]
              /\ op' = [op EXCEPT ![CoreOf[t]] = Waking(e, s, t)]
         /\ \A u \in Threads : frist'[u] => frist[u] \/ u \in world.timed
PROOF
  <1>0. TypeOK /\ CoreOf[t] \in Cores /\ e \in Objs BY DEF TypeInv, Objs
  <1> DEFINE q == ep[e].receivers
             s == q[FirstLive(q)]
             r == Behind(q, FirstLive(q))
  <1>1. /\ frist' \in [Threads -> BOOLEAN]
        /\ \A u \in Threads : frist'[u] => frist[u] \/ u \in world.timed
    BY <1>0, ArmTyped DEF CallRendezvous, CallEntry
  <1>2. q \in Seq(Threads) /\ Len(q) <= QueueCap /\ LiveIn(q) # {}
    BY <1>0, EpFields DEF CallRendezvous
  <1>3. s \in Threads /\ r \in Seq(Threads) /\ Len(r) <= Len(q) /\ Took(q, s, r)
    BY <1>2, TakeFirst DEF Took
  <1>4. /\ ep' = [ep EXCEPT ![e].receivers = r, ![e].caller = t, ![e].owner = s]
        /\ frame' = [frame EXCEPT ![s] = [res |-> "OK", from |-> t, bits |-> {}]]
        /\ op' = [op EXCEPT ![CoreOf[t]] = Waking(e, s, t)]
        /\ wait' = [wait EXCEPT ![t] = [k |-> "call", obj |-> e, timed |-> tm]]
    BY DEF CallRendezvous
  <1> HIDE DEF s, r
  <1>5. /\ OnlyEp(e) /\ ep'[e].senders = ep[e].senders /\ ep'[e].receivers = r
        /\ ep'[e].caller = t /\ ep'[e].owner = s /\ ep'[e].quiescing = ep[e].quiescing
    <2>1. ep' \in [Endpoints -> Endpoint] BY <1>0, <1>3, <1>4, EpWrites, ZenonT(40)
    <2>2. \A x \in Endpoints : x # e => ep'[x] = ep[x] BY <1>0, <1>4 DEF TypeOK
    <2>3. /\ ep'[e].senders = ep[e].senders /\ ep'[e].receivers = r
          /\ ep'[e].caller = t /\ ep'[e].owner = s /\ ep'[e].quiescing = ep[e].quiescing
      BY <1>0, <1>4 DEF TypeOK
    <2> QED BY <2>1, <2>2, <2>3 DEF OnlyEp
  <1>6. TokenWhole' /\ AllLengths'
    <2>1. Len(r) <= QueueCap BY <1>2, <1>3, SeqSet
    <2>2. Lengths(e)' /\ ep'[e].caller # None BY <1>0, <1>5, <2>1, EpFields DEF Lengths
    <2> QED BY <1>5, <2>2, EpStep
  <1>7. /\ frame' \in [Threads -> Frame] /\ wait' \in [Threads -> Syscall]
    BY <1>0, <1>3, <1>4 DEF TypeOK, Frame, Syscall
  <1>8. op' \in [Cores -> Operation] BY <1>0, <1>3, <1>4, WakingTyped, OpTyped
  <1>9. TypeOK'
    BY <1>0, <1>1, <1>5, <1>6, <1>7, <1>8, TypeParts
       DEF CallRendezvous, ThreadTypes, RestTypes, OnlyEp
  <1> QED BY <1>1, <1>3, <1>4, <1>5, <1>6, <1>9 DEF TypeInv

\* Nothing happens to the endpoints.
LEMMA EpSame ==
  ASSUME TypeInv, ep' = ep
  PROVE  TokenWhole' /\ AllLengths' /\ ep' \in [Endpoints -> Endpoint]
  BY TypeParts DEF TypeInv, TokenWhole, AllLengths, Lengths

LEMMA CallQueuedStep ==
  ASSUME TypeInv, NEW t \in Threads, NEW e \in Endpoints, NEW tm \in BOOLEAN,
         CallQueued(t, e, tm), UNCHANGED world
  PROVE  /\ TypeInv' /\ OnlyEp(e)
         /\ ep'[e].senders = Append(ep[e].senders, t) /\ ep'[e].receivers = <<>>
         /\ LiveIn(ep[e].receivers) = {}
         /\ ep'[e].caller = ep[e].caller /\ ep'[e].owner = ep[e].owner
         /\ ep'[e].quiescing = ep[e].quiescing
         /\ \A u \in Threads : frist'[u] => frist[u] \/ u \in world.timed
PROOF
  <1>0. TypeOK /\ e \in Objs BY DEF TypeInv, Objs
  <1>1. /\ frist' \in [Threads -> BOOLEAN]
        /\ \A u \in Threads : frist'[u] => frist[u] \/ u \in world.timed
    BY <1>0, ArmTyped DEF CallQueued, CallEntry
  <1> DEFINE q == Append(ep[e].senders, t)
  <1>2. q \in Seq(Threads) /\ Len(q) <= QueueCap
    <2>1. ep[e].senders \in Seq(Threads) BY <1>0, EpFields
    <2>2. Len(ep[e].senders) \in Nat /\ QueueCap \in Nat BY <2>1
    <2>3. ~(Len(ep[e].senders) >= QueueCap) BY DEF CallQueued, Full
    <2> QED BY <2>1, <2>2, <2>3
  <1>3. ep' = [ep EXCEPT ![e].receivers = EmptyQueue, ![e].senders = q]
    BY DEF CallQueued, EmptyQueue
  <1> HIDE DEF q
  <1>4. /\ OnlyEp(e) /\ ep'[e].senders = q /\ ep'[e].receivers = EmptyQueue
        /\ ep'[e].caller = ep[e].caller /\ ep'[e].owner = ep[e].owner
        /\ ep'[e].quiescing = ep[e].quiescing
    <2>1. ep' \in [Endpoints -> Endpoint] BY <1>0, <1>2, <1>3, EmptyTyped, EpWrites
    <2>2. \A x \in Endpoints : x # e => ep'[x] = ep[x] BY <1>0, <1>3 DEF TypeOK
    <2>3. /\ ep'[e].senders = q /\ ep'[e].receivers = EmptyQueue
          /\ ep'[e].caller = ep[e].caller /\ ep'[e].owner = ep[e].owner
          /\ ep'[e].quiescing = ep[e].quiescing
      BY <1>0, <1>3 DEF TypeOK
    <2> QED BY <2>1, <2>2, <2>3 DEF OnlyEp
  <1>5. TokenWhole' /\ AllLengths'
    <2>1. Lengths(e)' /\ (ep'[e].caller = None => ep'[e].owner = None)
      BY <1>2, <1>4, EmptyTyped DEF Lengths, TypeInv, TokenWhole
    <2> QED BY <1>4, <2>1, EpStep
  <1>6. ipc' \in [Threads -> BOOLEAN] /\ wait' \in [Threads -> Syscall]
    BY <1>0 DEF TypeOK, Syscall, CallQueued
  <1>7. TypeOK'
    BY <1>0, <1>1, <1>4, <1>5, <1>6, TypeParts DEF CallQueued, ThreadTypes, RestTypes, OnlyEp
  <1>8. LiveIn(ep[e].receivers) = {} BY DEF CallQueued
  <1> QED BY <1>1, <1>4, <1>5, <1>7, <1>8 DEF TypeInv, q, EmptyQueue

LEMMA RecvRendezvousStep ==
  ASSUME TypeInv, NEW t \in Threads, NEW e \in Endpoints, RecvRendezvous(t, e), UNCHANGED world
  PROVE  /\ TypeInv' /\ OnlyEp(e)
         /\ \E c \in Threads :
              /\ Took(ep[e].senders, c, ep'[e].senders)
              /\ ep'[e].receivers = ep[e].receivers /\ ep'[e].caller = c /\ ep'[e].owner = t
              /\ ep'[e].quiescing = ep[e].quiescing
              /\ serving' = [serving EXCEPT ![t][e] = c]
PROOF
  <1>0. TypeOK BY DEF TypeInv
  <1> DEFINE q == ep[e].senders
             s == q[FirstLive(q)]
             r == Behind(q, FirstLive(q))
  <1>2. q \in Seq(Threads) /\ Len(q) <= QueueCap /\ LiveIn(q) # {}
    BY <1>0, EpFields DEF RecvRendezvous
  <1>3. s \in Threads /\ r \in Seq(Threads) /\ Len(r) <= Len(q) /\ Took(q, s, r)
    BY <1>2, TakeFirst DEF Took
  <1>4. /\ ep' = [ep EXCEPT ![e].senders = r, ![e].caller = s, ![e].owner = t]
        /\ serving' = [serving EXCEPT ![t][e] = s]
    BY DEF RecvRendezvous
  <1> HIDE DEF s, r
  <1>5. /\ OnlyEp(e) /\ ep'[e].senders = r /\ ep'[e].receivers = ep[e].receivers
        /\ ep'[e].caller = s /\ ep'[e].owner = t /\ ep'[e].quiescing = ep[e].quiescing
    <2>1. ep' \in [Endpoints -> Endpoint] BY <1>0, <1>3, <1>4, EpWrites
    <2>2. \A x \in Endpoints : x # e => ep'[x] = ep[x] BY <1>0, <1>4 DEF TypeOK
    <2>3. /\ ep'[e].senders = r /\ ep'[e].receivers = ep[e].receivers
          /\ ep'[e].caller = s /\ ep'[e].owner = t /\ ep'[e].quiescing = ep[e].quiescing
      BY <1>0, <1>4 DEF TypeOK
    <2> QED BY <2>1, <2>2, <2>3 DEF OnlyEp
  <1>6. TokenWhole' /\ AllLengths'
    <2>1. Len(r) <= QueueCap BY <1>2, <1>3, SeqSet
    <2>2. Lengths(e)' /\ ep'[e].caller # None BY <1>0, <1>3, <1>5, <2>1, EpFields DEF Lengths
    <2> QED BY <1>5, <2>2, EpStep
  <1>7. serving' \in [Threads -> [Endpoints -> Threads \cup {None, "stale"}]]
    BY <1>0, <1>3, <1>4 DEF TypeOK
  <1>9. TypeOK'
    BY <1>0, <1>5, <1>6, <1>7, TypeParts DEF RecvRendezvous, ThreadTypes, RestTypes, OnlyEp
  <1> QED BY <1>3, <1>4, <1>5, <1>6, <1>9 DEF TypeInv

LEMMA RecvQueuedStep ==
  ASSUME TypeInv, NEW t \in Threads, NEW e \in Endpoints, RecvQueued(t, e), UNCHANGED world
  PROVE  /\ TypeInv' /\ OnlyEp(e)
         /\ ep'[e].senders = <<>> /\ ep'[e].receivers = Append(ep[e].receivers, t)
         /\ LiveIn(ep[e].senders) = {}
         /\ ep'[e].caller = ep[e].caller /\ ep'[e].owner = ep[e].owner
         /\ ep'[e].quiescing = ep[e].quiescing
PROOF
  <1>0. TypeOK /\ e \in Objs BY DEF TypeInv, Objs
  <1> DEFINE q == Append(ep[e].receivers, t)
  <1>2. q \in Seq(Threads) /\ Len(q) <= QueueCap
    <2>1. ep[e].receivers \in Seq(Threads) BY <1>0, EpFields
    <2>2. Len(ep[e].receivers) \in Nat /\ QueueCap \in Nat BY <2>1
    <2>3. ~(Len(ep[e].receivers) >= QueueCap) BY DEF RecvQueued, Full
    <2> QED BY <2>1, <2>2, <2>3
  <1>3. ep' = [ep EXCEPT ![e].senders = EmptyQueue, ![e].receivers = q]
    BY DEF RecvQueued, EmptyQueue
  <1> HIDE DEF q
  <1>4. /\ OnlyEp(e) /\ ep'[e].receivers = q /\ ep'[e].senders = EmptyQueue
        /\ ep'[e].caller = ep[e].caller /\ ep'[e].owner = ep[e].owner
        /\ ep'[e].quiescing = ep[e].quiescing
    <2>1. ep' \in [Endpoints -> Endpoint] BY <1>0, <1>2, <1>3, EmptyTyped, EpWrites
    <2>2. \A x \in Endpoints : x # e => ep'[x] = ep[x] BY <1>0, <1>3 DEF TypeOK
    <2>3. /\ ep'[e].receivers = q /\ ep'[e].senders = EmptyQueue
          /\ ep'[e].caller = ep[e].caller /\ ep'[e].owner = ep[e].owner
          /\ ep'[e].quiescing = ep[e].quiescing
      BY <1>0, <1>3 DEF TypeOK
    <2> QED BY <2>1, <2>2, <2>3 DEF OnlyEp
  <1>5. TokenWhole' /\ AllLengths'
    <2>1. Lengths(e)' /\ (ep'[e].caller = None => ep'[e].owner = None)
      BY <1>2, <1>4, EmptyTyped DEF Lengths, TypeInv, TokenWhole
    <2> QED BY <1>4, <2>1, EpStep
  <1>6. ipc' \in [Threads -> BOOLEAN] /\ wait' \in [Threads -> Syscall]
    BY <1>0 DEF TypeOK, Syscall, RecvQueued
  <1>7. TypeOK'
    BY <1>0, <1>4, <1>5, <1>6, TypeParts DEF RecvQueued, ThreadTypes, RestTypes, OnlyEp
  <1>8. LiveIn(ep[e].senders) = {} BY DEF RecvQueued
  <1> QED BY <1>4, <1>5, <1>7, <1>8 DEF TypeInv, q, EmptyQueue

LEMMA RecvRefusedStep ==
  ASSUME TypeInv, NEW t \in Threads, NEW e \in Endpoints, RecvRefused(t, e), UNCHANGED world
  PROVE  /\ TypeInv' /\ OnlyEp(e)
         /\ ep'[e].receivers = ep[e].receivers /\ ep'[e].caller = ep[e].caller
         /\ ep'[e].owner = ep[e].owner /\ ep'[e].quiescing = ep[e].quiescing
         /\ Dropped(ep[e].senders, ep'[e].senders)
PROOF
  <1>0. TypeOK BY DEF TypeInv
  <1>3. LiveIn(ep[e].senders) = {} /\ ep' = [ep EXCEPT ![e].senders = EmptyQueue]
    BY DEF RecvRefused, EmptyQueue
  <1>4. /\ OnlyEp(e) /\ ep'[e].receivers = ep[e].receivers /\ ep'[e].senders = EmptyQueue
        /\ ep'[e].caller = ep[e].caller /\ ep'[e].owner = ep[e].owner
        /\ ep'[e].quiescing = ep[e].quiescing
    <2>1. ep' \in [Endpoints -> Endpoint] BY <1>0, <1>3, EmptyTyped, EpWrites
    <2>2. \A x \in Endpoints : x # e => ep'[x] = ep[x] BY <1>0, <1>3 DEF TypeOK
    <2>3. /\ ep'[e].receivers = ep[e].receivers /\ ep'[e].senders = EmptyQueue
          /\ ep'[e].caller = ep[e].caller /\ ep'[e].owner = ep[e].owner
          /\ ep'[e].quiescing = ep[e].quiescing
      BY <1>0, <1>3 DEF TypeOK
    <2> QED BY <2>1, <2>2, <2>3 DEF OnlyEp
  <1>5. TokenWhole' /\ AllLengths'
    <2>1. Lengths(e)' /\ (ep'[e].caller = None => ep'[e].owner = None)
      BY <1>0, <1>4, EpFields, EmptyTyped DEF Lengths, TypeInv, TokenWhole
    <2> QED BY <1>4, <2>1, EpStep
  <1>7. TypeOK'
    BY <1>0, <1>4, <1>5, TypeParts DEF RecvRefused, threadVars, ThreadTypes, RestTypes, OnlyEp
  <1> QED BY <1>3, <1>4, <1>5, <1>7 DEF TypeInv, Dropped, EmptyQueue

\* A token is given up.
LEMMA TokenGone ==
  ASSUME TypeInv, NEW e \in Endpoints, ep' = [ep EXCEPT ![e].caller = None, ![e].owner = None]
  PROVE  /\ OnlyEp(e) /\ TokenWhole' /\ AllLengths'
         /\ ep'[e].receivers = ep[e].receivers /\ ep'[e].senders = ep[e].senders
         /\ ep'[e].caller = None /\ ep'[e].owner = None /\ ep'[e].quiescing = ep[e].quiescing
PROOF
  <1>0. TypeOK BY DEF TypeInv
  <1>4. /\ OnlyEp(e) /\ ep'[e].receivers = ep[e].receivers /\ ep'[e].senders = ep[e].senders
        /\ ep'[e].caller = None /\ ep'[e].owner = None /\ ep'[e].quiescing = ep[e].quiescing
    <2>0. None \in Threads \cup {None} /\ TRUE \in BOOLEAN OBVIOUS
    <2>1. ep' \in [Endpoints -> Endpoint] BY <1>0, <2>0, EmptyTyped, EpWrites
    <2>2. \A x \in Endpoints : x # e => ep'[x] = ep[x] BY <1>0 DEF TypeOK
    <2>3. /\ ep'[e].receivers = ep[e].receivers /\ ep'[e].senders = ep[e].senders
          /\ ep'[e].caller = None /\ ep'[e].owner = None /\ ep'[e].quiescing = ep[e].quiescing
      BY <1>0 DEF TypeOK
    <2> QED BY <2>1, <2>2, <2>3 DEF OnlyEp
  <1>5. Lengths(e)' BY <1>0, <1>4, EpFields DEF Lengths
  <1> QED BY <1>4, <1>5, EpStep

LEMMA ReplyStep ==
  ASSUME TypeInv, NEW t \in Threads, NEW e \in Endpoints, Reply(t, e), UNCHANGED world
  PROVE  /\ TypeInv' /\ OnlyEp(e)
         /\ ep'[e].receivers = ep[e].receivers /\ ep'[e].senders = ep[e].senders
         /\ ep'[e].caller = None /\ ep'[e].owner = None /\ ep'[e].quiescing = ep[e].quiescing
         /\ serving' = [serving EXCEPT ![t][e] = None]
         /\ \/ /\ ep[e].caller \in Threads /\ alive[ep[e].caller] /\ ipc[ep[e].caller]
               /\ frame' = [frame EXCEPT ![ep[e].caller] =
                              [res |-> "OK", from |-> serving[t][e], bits |-> {}]]
               /\ op' = [op EXCEPT ![CoreOf[t]] = Waking(e, ep[e].caller, None)]
            \/ /\ frame' = frame /\ op' = op
               /\ ep[e].caller = None \/ ~alive[ep[e].caller] \/ ~ipc[ep[e].caller]
PROOF
  <1>0. TypeOK /\ CoreOf[t] \in Cores /\ e \in Objs BY DEF TypeInv, Objs
  <1>1. /\ OnlyEp(e) /\ TokenWhole' /\ AllLengths'
        /\ ep'[e].receivers = ep[e].receivers /\ ep'[e].senders = ep[e].senders
        /\ ep'[e].caller = None /\ ep'[e].owner = None /\ ep'[e].quiescing = ep[e].quiescing
    BY TokenGone DEF Reply
  <1>2. serving' = [serving EXCEPT ![t][e] = None] BY DEF Reply
  <1>3. serving' \in [Threads -> [Endpoints -> Threads \cup {None, "stale"}]]
    BY <1>0, <1>2 DEF TypeOK
  <1>4. \/ /\ ep[e].caller \in Threads /\ alive[ep[e].caller] /\ ipc[ep[e].caller]
           /\ frame' = [frame EXCEPT ![ep[e].caller] =
                          [res |-> "OK", from |-> serving[t][e], bits |-> {}]]
           /\ op' = [op EXCEPT ![CoreOf[t]] = Waking(e, ep[e].caller, None)]
        \/ /\ frame' = frame /\ op' = op
           /\ ep[e].caller = None \/ ~alive[ep[e].caller] \/ ~ipc[ep[e].caller]
    BY <1>0, EpFields DEF Reply
  <1>5. frame' \in [Threads -> Frame] /\ op' \in [Cores -> Operation]
    <2>1. CASE frame' = frame /\ op' = op BY <1>0, <2>1 DEF TypeOK
    <2>2. CASE /\ ep[e].caller \in Threads
               /\ frame' = [frame EXCEPT ![ep[e].caller] =
                          [res |-> "OK", from |-> serving[t][e], bits |-> {}]]
               /\ op' = [op EXCEPT ![CoreOf[t]] = Waking(e, ep[e].caller, None)]
      <3>1. op' \in [Cores -> Operation] BY <1>0, <2>2, WakingTyped, OpTyped
      <3>2. [res |-> "OK", from |-> serving[t][e], bits |-> {}] \in Frame
        BY <1>0, ThreadFields DEF Frame
      <3>3. frame' \in [Threads -> Frame] BY <1>0, <2>2, <3>2 DEF TypeOK
      <3> QED BY <3>1, <3>3
    <2> QED BY <1>4, <2>1, <2>2
  <1>6. TypeOK'
    BY <1>0, <1>1, <1>3, <1>5, TypeParts DEF Reply, ThreadTypes, RestTypes, OnlyEp
  <1> QED BY <1>1, <1>2, <1>4, <1>6 DEF TypeInv

\* Steps that leave the endpoints alone.
LEMMA WakeStep ==
  ASSUME TypeInv, NEW c \in Cores, Wake(c), UNCHANGED world
  PROVE  TypeInv'
PROOF
  <1>0. TypeOK BY DEF TypeInv
  <1>1. TokenWhole' /\ AllLengths' /\ ep' \in [Endpoints -> Endpoint] BY EpSame DEF Wake
  <1>2. ipc' \in [Threads -> BOOLEAN] BY DEF Wake
  <1>3. op' \in [Cores -> Operation] BY <1>0, IdleTyped, OpTyped DEF Wake
  <1> QED BY <1>0, <1>1, <1>2, <1>3, TypeParts DEF TypeInv, Wake, ThreadTypes, RestTypes

LEMMA SwitchToDeadStep ==
  ASSUME TypeInv, NEW c \in Cores, SwitchToDead(c), UNCHANGED world
  PROVE  TypeInv'
PROOF
  <1>0. TypeOK BY DEF TypeInv
  <1>1. TokenWhole' /\ AllLengths' /\ ep' \in [Endpoints -> Endpoint] BY EpSame DEF SwitchToDead
  <1> QED BY <1>0, <1>1, TypeParts DEF TypeInv, SwitchToDead, threadVars, ThreadTypes, RestTypes

LEMMA NtFields ==
  ASSUME TypeOK, NEW n \in Notifications
  PROVE  nt[n].pending \in SUBSET Badges /\ nt[n].waiter \in Threads \cup {None} /\ n \in Objs
  BY DEF TypeOK, Notification, Objs

LEMMA NtWrites ==
  ASSUME TypeOK, NEW n \in Notifications, NEW w \in Threads \cup {None}
  PROVE  [nt EXCEPT ![n].waiter = w] \in [Notifications -> Notification]
PROOF
  <1>1. nt \in [Notifications -> Notification] /\ nt[n] \in Notification BY DEF TypeOK
  <1>2. [nt[n] EXCEPT !.waiter = w] \in Notification BY <1>1 DEF Notification
  <1> QED BY <1>1, <1>2

LEMMA SignalStep ==
  ASSUME TypeInv, NEW c \in Cores, NEW n \in Notifications, NEW b \in world.badges,
         Signal(c, n, b), UNCHANGED world
  PROVE  TypeInv'
PROOF
  <1>0. TypeOK /\ b \in Badges BY DEF TypeInv, TypeOK, World
  <1>1. TokenWhole' /\ AllLengths' /\ ep' \in [Endpoints -> Endpoint] BY EpSame DEF Signal
  <1> DEFINE w == nt[n].waiter
             all == nt[n].pending \cup {b}
  <1>2. w \in Threads \cup {None} /\ all \in SUBSET Badges /\ n \in Objs BY <1>0, NtFields
  <1>3. /\ nt' = [nt EXCEPT ![n] = [pending |-> PendingLeft(w, all), waiter |-> None]]
        /\ frame' = IF w # None /\ alive[w]
                    THEN [frame EXCEPT ![w] = [res |-> "OK", from |-> None, bits |-> all]]
                    ELSE frame
        /\ op' = IF w # None THEN [op EXCEPT ![c] = Waking(n, w, None)] ELSE op
    BY DEF Signal
  <1> HIDE DEF w, all
  <1>4. nt' \in [Notifications -> Notification]
    BY <1>0, <1>2, <1>3 DEF TypeOK, Notification, PendingLeft
  <1>5. frame' \in [Threads -> Frame] BY <1>0, <1>2, <1>3 DEF TypeOK, Frame
  <1>6. op' \in [Cores -> Operation]
    <2>1. CASE w = None BY <1>0, <1>3, <2>1 DEF TypeOK
    <2>2. CASE w # None
      <3>1. w \in Threads /\ None \in Threads \cup {None} BY <1>2, <2>2
      <3> QED BY <1>0, <1>2, <1>3, <2>2, <3>1, WakingTyped, OpTyped
    <2> QED BY <2>1, <2>2
  <1>7. owed' \subseteq Badges BY <1>0 DEF TypeOK, Signal
  <1> QED BY <1>0, <1>1, <1>4, <1>5, <1>6, <1>7, TypeParts
          DEF TypeInv, Signal, ThreadTypes, RestTypes

LEMMA WaitReturnsStep ==
  ASSUME TypeInv, NEW t \in Threads, NEW n \in Notifications, NEW tm \in BOOLEAN,
         WaitReturns(t, n, tm), UNCHANGED world
  PROVE  TypeInv' /\ \A u \in Threads : frist'[u] => frist[u] \/ u \in world.timed
PROOF
  <1>0. TypeOK BY DEF TypeInv
  <1>1. TokenWhole' /\ AllLengths' /\ ep' \in [Endpoints -> Endpoint] BY EpSame DEF WaitReturns
  <1>2. /\ frist' \in [Threads -> BOOLEAN]
        /\ \A u \in Threads : frist'[u] => frist[u] \/ u \in world.timed
    BY <1>0, ArmTyped DEF WaitReturns
  <1>3. nt' \in [Notifications -> Notification] BY <1>0 DEF TypeOK, Notification, WaitReturns
  <1>4. owed' \subseteq Badges BY <1>0 DEF TypeOK, WaitReturns
  <1> QED BY <1>0, <1>1, <1>2, <1>3, <1>4, TypeParts
          DEF TypeInv, WaitReturns, ThreadTypes, RestTypes

LEMMA WaitBlocksStep ==
  ASSUME TypeInv, NEW t \in Threads, NEW n \in Notifications, NEW tm \in BOOLEAN,
         WaitBlocks(t, n, tm), UNCHANGED world
  PROVE  TypeInv' /\ \A u \in Threads : frist'[u] => frist[u] \/ u \in world.timed
PROOF
  <1>0. TypeOK /\ n \in Objs BY DEF TypeInv, Objs
  <1>1. TokenWhole' /\ AllLengths' /\ ep' \in [Endpoints -> Endpoint] BY EpSame DEF WaitBlocks
  <1>2. /\ frist' \in [Threads -> BOOLEAN]
        /\ \A u \in Threads : frist'[u] => frist[u] \/ u \in world.timed
    BY <1>0, ArmTyped DEF WaitBlocks
  <1>3. nt' \in [Notifications -> Notification] BY <1>0, NtWrites DEF WaitBlocks
  <1>4. ipc' \in [Threads -> BOOLEAN] /\ wait' \in [Threads -> Syscall]
    BY <1>0 DEF TypeOK, Syscall, WaitBlocks
  <1> QED BY <1>0, <1>1, <1>2, <1>3, <1>4, TypeParts
          DEF TypeInv, WaitBlocks, ThreadTypes, RestTypes

LEMMA NoFrameTyped == NoFrame \in Frame /\ User \in Syscall
  BY DEF NoFrame, Frame, User, Syscall

LEMMA ReturnStep ==
  ASSUME TypeInv, NEW t \in Threads, Return(t), UNCHANGED world
  PROVE  TypeInv'
PROOF
  <1>0. TypeOK BY DEF TypeInv
  <1>1. TokenWhole' /\ AllLengths' /\ ep' \in [Endpoints -> Endpoint] BY EpSame DEF Return
  <1>2. \A s \in Threads : frame[s] \in Frame BY <1>0 DEF TypeOK
  <1>3. frame' \in [Threads -> Frame]
    <2>1. \A s \in Threads : [frame[s] EXCEPT !.from = "stale"] \in Frame BY <1>2 DEF Frame
    <2> QED BY <1>2, <2>1, NoFrameTyped DEF Return
  <1>4. wait' \in [Threads -> Syscall] BY <1>0, NoFrameTyped DEF TypeOK, Return
  <1>5. serving' \in [Threads -> [Endpoints -> Threads \cup {None, "stale"}]]
    <2>1. frame[t].from \in Threads \cup {None, "stale"} BY <1>2 DEF Frame
    <2>2. \A s \in Threads : \A e \in Endpoints : serving[s][e] \in Threads \cup {None, "stale"}
      BY <1>0 DEF TypeOK
    <2> QED BY <2>1, <2>2 DEF Return
  <1>6. owed' \subseteq Badges BY <1>0 DEF TypeOK, Return
  <1> QED BY <1>0, <1>1, <1>3, <1>4, <1>5, <1>6, TypeParts
          DEF TypeInv, Return, ThreadTypes, RestTypes

\* The operation of a core that signs threads off.
Purging(todo) == [Idle EXCEPT !.k = "purge", !.todo = todo]

LEMMA PurgingTyped ==
  ASSUME NEW todo \in SUBSET (Threads \X Objs)
  PROVE  /\ Purging(todo) \in Operation /\ Purging(todo).k = "purge" /\ Purging(todo).obj = None
         /\ Purging(todo).self = None /\ Purging(todo).to = None
         /\ Purging(todo).todo = todo /\ Purging(todo).orphans = {}
  BY DEF Purging, Idle, Operation

LEMMA TickStep ==
  ASSUME TypeInv, NEW c \in Cores, NEW D \in SUBSET Armed(c), Tick(c, D), UNCHANGED world
  PROVE  TypeInv'
PROOF
  <1>0. TypeOK /\ D \subseteq Threads BY DEF TypeInv, Armed
  <1>1. TokenWhole' /\ AllLengths' /\ ep' \in [Endpoints -> Endpoint] BY EpSame DEF Tick
  <1>2. frist' \in [Threads -> BOOLEAN] /\ ipc' \in [Threads -> BOOLEAN]
    BY <1>0 DEF TypeOK, Tick
  <1>3. frame' \in [Threads -> Frame]
    <2>1. \A s \in Threads : frame[s] \in Frame BY <1>0 DEF TypeOK
    <2>2. \A s \in Threads : TimeoutFrame(s) \in Frame BY <2>1 DEF Frame, TimeoutFrame
    <2> QED BY <2>1, <2>2 DEF Tick
  <1>4. op' \in [Cores -> Operation]
    <2> DEFINE todo == SignOff({t \in D : Released(t, D)})
    <2>1. todo \in SUBSET (Threads \X Objs) BY <1>0 DEF SignOff
    <2>2. op' = IF todo = {} THEN op ELSE [op EXCEPT ![c] = Purging(todo)] BY DEF Tick, Purging
    <2> HIDE DEF todo
    <2> QED BY <1>0, <2>1, <2>2, PurgingTyped, OpTyped DEF TypeOK
  <1> QED BY <1>0, <1>1, <1>2, <1>3, <1>4, TypeParts DEF TypeInv, Tick, ThreadTypes, RestTypes

\* purge_thread keeps an endpoint well formed.
LEMMA PurgedTyped ==
  ASSUME TypeInv, NEW e \in Endpoints, NEW t \in Threads
  PROVE  LET r == PurgedEp(ep[e], t) IN
         /\ r \in Endpoint /\ Len(r.senders) <= QueueCap /\ Len(r.receivers) <= QueueCap
         /\ r.caller = None => r.owner = None
         /\ r.quiescing = ep[e].quiescing
         /\ r.senders = Without(ep[e].senders, t) /\ r.receivers = Without(ep[e].receivers, t)
         /\ r.caller = IF ep[e].caller = t THEN None ELSE ep[e].caller
         /\ r.owner = IF ep[e].caller = t THEN None ELSE ep[e].owner
PROOF
  <1> DEFINE r == PurgedEp(ep[e], t)
             S == Without(ep[e].senders, t)
             R == Without(ep[e].receivers, t)
  <1>0. TypeOK BY DEF TypeInv
  <1>1. /\ ep[e].senders \in Seq(Threads) /\ ep[e].receivers \in Seq(Threads)
        /\ Len(ep[e].senders) <= QueueCap /\ Len(ep[e].receivers) <= QueueCap
    BY <1>0, EpFields
  <1>2. S \in Seq(Threads) /\ Len(S) <= QueueCap
    <2>1. S \in Seq(Threads) /\ Len(S) <= Len(ep[e].senders) BY <1>1, WithoutLeaves
    <2> QED BY <1>1, <2>1, SeqSet
  <1>3. R \in Seq(Threads) /\ Len(R) <= QueueCap
    <2>1. R \in Seq(Threads) /\ Len(R) <= Len(ep[e].receivers) BY <1>1, WithoutLeaves
    <2> QED BY <1>1, <2>1, SeqSet
  <1> DEFINE x == IF ep[e].caller = t THEN None ELSE ep[e].caller
             o == IF ep[e].caller = t THEN None ELSE ep[e].owner
  <1>4. r = [ep[e] EXCEPT !.senders = S, !.receivers = R, !.caller = x, !.owner = o]
    BY DEF PurgedEp
  <1>5. x \in Threads \cup {None} /\ o \in Threads \cup {None} /\ ep[e] \in Endpoint
    BY <1>0, EpFields DEF TypeOK
  <1>6. x = None => o = None BY DEF TypeInv, TokenWhole
  <1>7. /\ r \in Endpoint /\ r.quiescing = ep[e].quiescing /\ r.senders = S /\ r.receivers = R
        /\ r.caller = x /\ r.owner = o
    <2> HIDE DEF S, R, r, x, o
    <2> QED BY <1>2, <1>3, <1>4, <1>5 DEF Endpoint
  <1> HIDE DEF r
  <1> QED BY <1>2, <1>3, <1>6, <1>7 DEF r

\* The next state of a core that signs off.
LEMMA PurgeLeft ==
  ASSUME TypeOK, NEW c \in Cores, NEW p,
         op' = [op EXCEPT ![c] = IF op[c].todo = {p} THEN Idle
                                 ELSE [op[c] EXCEPT !.todo = op[c].todo \ {p}]]
  PROVE  /\ op' \in [Cores -> Operation]
         /\ \A d \in Cores : d # c => op'[d] = op[d]
         /\ \/ op[c].todo = {p} /\ op'[c] = Idle
            \/ /\ op[c].todo # {p} /\ op'[c].k = op[c].k /\ op'[c].obj = op[c].obj
               /\ op'[c].self = op[c].self /\ op'[c].to = op[c].to
               /\ op'[c].todo = op[c].todo \ {p} /\ op'[c].orphans = op[c].orphans
PROOF
  <1> DEFINE v == [op[c] EXCEPT !.todo = op[c].todo \ {p}]
             w == IF op[c].todo = {p} THEN Idle ELSE v
  <1>1. op[c] \in Operation BY OpFields
  <1>2. /\ v \in Operation /\ v.k = op[c].k /\ v.obj = op[c].obj /\ v.self = op[c].self
        /\ v.to = op[c].to /\ v.todo = op[c].todo \ {p} /\ v.orphans = op[c].orphans
    BY <1>1 DEF Operation
  <1>3. op' = [op EXCEPT ![c] = w] OBVIOUS
  <1> HIDE DEF v
  <1>4. w \in Operation BY <1>2, IdleTyped
  <1>5. /\ op' \in [Cores -> Operation] /\ op'[c] = w /\ \A d \in Cores : d # c => op'[d] = op[d]
    <2> HIDE DEF w
    <2> QED BY <1>3, <1>4, OpTyped
  <1> QED BY <1>2, <1>5

LEMMA PurgeStep ==
  ASSUME TypeInv, NEW c \in Cores, NEW t \in Threads, NEW o \in Objs, Purge(c, t, o),
         UNCHANGED world
  PROVE  /\ TypeInv'
         /\ o \in Endpoints => OnlyEp(o) /\ ep'[o] = PurgedEp(ep[o], t)
         /\ o \notin Endpoints => ep' = ep
PROOF
  <1>0. TypeOK BY DEF TypeInv
  <1>1. op' \in [Cores -> Operation] BY <1>0, PurgeLeft DEF Purge
  <1>2. nt' \in [Notifications -> Notification] 
    <2>1. None \in Threads \cup {None} OBVIOUS
    <2>2. CASE o \in Notifications /\ nt[o].waiter = t
      <3>1. nt' = [nt EXCEPT ![o].waiter = None] BY <2>2 DEF Purge
      <3> QED BY <1>0, <2>1, <2>2, <3>1, NtWrites
    <2>3. CASE ~(o \in Notifications /\ nt[o].waiter = t)
      <3>1. nt' = nt BY <2>3 DEF Purge
      <3> QED BY <1>0, <3>1 DEF TypeOK
    <2> QED BY <2>2, <2>3
  <1>3. /\ TokenWhole' /\ AllLengths' /\ ep' \in [Endpoints -> Endpoint]
        /\ o \in Endpoints => OnlyEp(o) /\ ep'[o] = PurgedEp(ep[o], t)
        /\ o \notin Endpoints => ep' = ep
    <2>1. CASE o \in Endpoints
      <3> DEFINE r == PurgedEp(ep[o], t)
      <3>1. /\ r \in Endpoint /\ Len(r.senders) <= QueueCap /\ Len(r.receivers) <= QueueCap
            /\ r.caller = None => r.owner = None
        BY <2>1, PurgedTyped
      <3>2. ep' = [ep EXCEPT ![o] = r] BY <2>1 DEF Purge
      <3> HIDE DEF r
      <3>3. OnlyEp(o) /\ ep'[o] = r BY <1>0, <2>1, <3>1, <3>2, EpTyped DEF OnlyEp
      <3>4. Lengths(o)' BY <3>1, <3>3 DEF Lengths
      <3>5. TokenWhole' /\ AllLengths' BY <2>1, <3>1, <3>3, <3>4, EpStep
      <3> QED BY <2>1, <3>3, <3>5 DEF r, OnlyEp
    <2>2. CASE o \notin Endpoints
      <3>1. ep' = ep BY <2>2 DEF Purge
      <3> QED BY <2>2, <3>1, EpSame
    <2> QED BY <2>1, <2>2
  <1> QED BY <1>0, <1>1, <1>2, <1>3, TypeParts
          DEF TypeInv, Purge, threadVars, ThreadTypes, RestTypes

\* The operation of a core on which t has died.
Dying(t) == [Idle EXCEPT !.k = "death", !.todo = {t} \X Endpoints, !.to = t]

LEMMA DyingTyped ==
  ASSUME NEW t \in Threads
  PROVE  /\ Dying(t) \in Operation /\ Dying(t).k = "death" /\ Dying(t).obj = None
         /\ Dying(t).self = None /\ Dying(t).to = t /\ Dying(t).todo = {t} \X Endpoints
         /\ Dying(t).orphans = {}
  BY DEF Dying, Idle, Operation, Objs

LEMMA DieStep ==
  ASSUME TypeInv, NEW c \in Cores, NEW t \in Threads, Die(c, t), UNCHANGED world
  PROVE  TypeInv' /\ op' = [op EXCEPT ![c] = Dying(t)]
PROOF
  <1>0. TypeOK BY DEF TypeInv
  <1>1. TokenWhole' /\ AllLengths' /\ ep' \in [Endpoints -> Endpoint] BY EpSame DEF Die
  <1>2. op' = [op EXCEPT ![c] = Dying(t)] BY DEF Die, Dying
  <1>3. op' \in [Cores -> Operation] BY <1>0, <1>2, DyingTyped, OpTyped
  <1>4. /\ alive' \in [Threads -> BOOLEAN] /\ ipc' \in [Threads -> BOOLEAN]
        /\ frist' \in [Threads -> BOOLEAN]
    BY <1>0 DEF TypeOK, Die
  <1>5. frame' \in [Threads -> Frame] /\ wait' \in [Threads -> Syscall]
    BY <1>0, NoFrameTyped DEF TypeOK, Die
  <1>6. serving' \in [Threads -> [Endpoints -> Threads \cup {None, "stale"}]]
    BY <1>0 DEF TypeOK, Die, NoDebt
  <1>7. owed' \subseteq Badges /\ retired' \subseteq Threads BY <1>0 DEF TypeOK, Die
  <1> QED BY <1>0, <1>1, <1>2, <1>3, <1>4, <1>5, <1>6, <1>7, TypeParts
          DEF TypeInv, Die, ThreadTypes, RestTypes

LEMMA SweepBeginStep ==
  ASSUME TypeInv, NEW c \in Cores, SweepBegin(c), UNCHANGED world
  PROVE  /\ TypeInv'
         /\ op'[c].k = "sweep" /\ op'[c].obj = op[c].obj /\ op'[c].self = op[c].self
         /\ op'[c].to = op[c].to /\ op'[c].todo = op[c].todo /\ op'[c].orphans = op[c].orphans
         /\ \A d \in Cores : d # c => op'[d] = op[d]
PROOF
  <1>0. TypeOK BY DEF TypeInv
  <1>1. TokenWhole' /\ AllLengths' /\ ep' \in [Endpoints -> Endpoint] BY EpSame DEF SweepBegin
  <1> DEFINE v == [op[c] EXCEPT !.k = "sweep"]
  <1>2. op[c] \in Operation BY <1>0, OpFields
  <1>3. /\ v \in Operation /\ v.k = "sweep" /\ v.obj = op[c].obj /\ v.self = op[c].self
        /\ v.to = op[c].to /\ v.todo = op[c].todo /\ v.orphans = op[c].orphans
    BY <1>2 DEF Operation
  <1>4. op' = [op EXCEPT ![c] = v] BY DEF SweepBegin
  <1> HIDE DEF v
  <1>5. /\ op' \in [Cores -> Operation] /\ op'[c] = v /\ \A d \in Cores : d # c => op'[d] = op[d]
    BY <1>0, <1>3, <1>4, OpTyped
  <1>6. TypeInv' BY <1>0, <1>1, <1>5, TypeParts
          DEF TypeInv, SweepBegin, threadVars, ThreadTypes, RestTypes
  <1> QED BY <1>3, <1>5, <1>6

LEMMA SweepEndStep ==
  ASSUME TypeInv, NEW c \in Cores, op[c].to \in Threads, SweepEnd(c), UNCHANGED world
  PROVE  /\ TypeInv'
         /\ \/ op' = [op EXCEPT ![c] = Idle] /\ Notifications = {}
            \/ op' = [op EXCEPT ![c] = Purging({op[c].to} \X Notifications)] /\ Notifications # {}
PROOF
  <1>0. TypeOK BY DEF TypeInv
  <1>1. TokenWhole' /\ AllLengths' /\ ep' \in [Endpoints -> Endpoint] BY EpSame DEF SweepEnd
  <1> DEFINE todo == {op[c].to} \X Notifications
  <1>2. todo \in SUBSET (Threads \X Objs) BY DEF Objs
  <1>3. \/ op' = [op EXCEPT ![c] = Idle] /\ Notifications = {}
        \/ op' = [op EXCEPT ![c] = Purging(todo)] /\ Notifications # {}
    BY DEF SweepEnd, Purging
  <1> HIDE DEF todo
  <1>4. op' \in [Cores -> Operation] BY <1>0, <1>2, <1>3, IdleTyped, PurgingTyped, OpTyped
  <1>5. TypeInv' BY <1>0, <1>1, <1>4, TypeParts
          DEF TypeInv, SweepEnd, threadVars, ThreadTypes, RestTypes
  <1> QED BY <1>3, <1>5 DEF todo

\* One endpoint of the sweep.
LEMMA SweepEpStep ==
  ASSUME TypeInv, NEW c \in Cores, NEW e \in Endpoints, op[c].to \in Threads, SweepEp(c, e),
         UNCHANGED world
  PROVE  /\ TypeInv' /\ OnlyEp(e) /\ ep'[e].quiescing = ep[e].quiescing
         /\ ep'[e].senders = PurgedEp(ep[e], op[c].to).senders
         /\ ep'[e].receivers = PurgedEp(ep[e], op[c].to).receivers
         /\ \A d \in Cores : d # c => op'[d] = op[d]
         /\ op'[c].k = op[c].k /\ op'[c].obj = op[c].obj /\ op'[c].self = op[c].self
         /\ op'[c].to = op[c].to /\ op'[c].todo = op[c].todo \ {<<op[c].to, e>>}
         /\ \/ /\ PurgedEp(ep[e], op[c].to).owner # op[c].to
               /\ ep'[e] = PurgedEp(ep[e], op[c].to) /\ op'[c].orphans = op[c].orphans
            \/ /\ PurgedEp(ep[e], op[c].to).owner = op[c].to
               /\ PurgedEp(ep[e], op[c].to).caller \in Threads
               /\ ep'[e].caller = None /\ ep'[e].owner = None
               /\ op'[c].orphans = op[c].orphans \cup {PurgedEp(ep[e], op[c].to).caller}
PROOF
  <1> DEFINE t == op[c].to
             p == PurgedEp(ep[e], t)
             g == [p EXCEPT !.caller = None, !.owner = None]
             r == IF p.owner = t THEN g ELSE p
             S == IF p.owner = t THEN op[c].orphans \cup {p.caller} ELSE op[c].orphans
             v == [op[c] EXCEPT !.todo = op[c].todo \ {<<t, e>>}, !.orphans = S]
  <1>0. TypeOK /\ op[c] \in Operation BY OpFields DEF TypeInv
  <1>1. /\ p \in Endpoint /\ Len(p.senders) <= QueueCap /\ Len(p.receivers) <= QueueCap
        /\ p.caller = None => p.owner = None
        /\ p.quiescing = ep[e].quiescing
    BY PurgedTyped
  <1>2. ep' = [ep EXCEPT ![e] = r] BY DEF SweepEp, OwnerDied
  <1>3. op' = [op EXCEPT ![c] = v]
    <2>1. op' = [op EXCEPT ![c].todo = @ \ {<<t, e>>}, ![c].orphans = IF p.owner = t THEN @ \cup {p.caller} ELSE @]
      BY DEF SweepEp, OwnerDied
    <2> HIDE DEF p
    <2> QED BY <1>0, <2>1 DEF TypeOK, Operation
  <1> HIDE DEF p
  <1>4. /\ g \in Endpoint /\ g.quiescing = p.quiescing /\ g.senders = p.senders
        /\ g.receivers = p.receivers /\ g.caller = None /\ g.owner = None
    BY <1>1 DEF Endpoint
  <1> HIDE DEF g
  <1>5. /\ r \in Endpoint /\ Len(r.senders) <= QueueCap /\ Len(r.receivers) <= QueueCap
        /\ r.caller = None => r.owner = None
        /\ r.quiescing = ep[e].quiescing /\ r.senders = p.senders /\ r.receivers = p.receivers
    BY <1>1, <1>4
  <1>6. p.owner = t => p.caller \in Threads
    <2>1. p.caller \in Threads \cup {None} BY <1>1 DEF Endpoint
    <2> QED BY <1>1, <2>1
  <1>7. S \in SUBSET Threads BY <1>0, <1>6, OpFields
  <1>8. p.owner = t => r.caller = None /\ r.owner = None /\ S = op[c].orphans \cup {p.caller}
    BY <1>4
  <1>9. p.owner # t => r = p /\ S = op[c].orphans OBVIOUS
  <1> HIDE DEF r, S
  <1>10. /\ v \in Operation /\ v.k = op[c].k /\ v.obj = op[c].obj /\ v.self = op[c].self
         /\ v.to = op[c].to /\ v.todo = op[c].todo \ {<<t, e>>} /\ v.orphans = S
    BY <1>0, <1>7 DEF Operation
  <1> HIDE DEF v
  <1>11. /\ op' \in [Cores -> Operation] /\ op'[c] = v
         /\ \A d \in Cores : d # c => op'[d] = op[d]
    BY <1>0, <1>3, <1>10, OpTyped
  <1>12. OnlyEp(e) /\ ep'[e] = r BY <1>0, <1>2, <1>5, EpTyped DEF OnlyEp
  <1>13. Lengths(e)' BY <1>5, <1>12 DEF Lengths
  <1>14. TokenWhole' /\ AllLengths' BY <1>5, <1>12, <1>13, EpStep
  <1>15. TypeInv'
    BY <1>0, <1>11, <1>12, <1>14, TypeParts
       DEF TypeInv, SweepEp, threadVars, ThreadTypes, RestTypes, OnlyEp
  <1>16. CASE p.owner = t BY <1>5, <1>6, <1>8, <1>10, <1>11, <1>12, <1>15, <1>16 DEF p
  <1>17. CASE p.owner # t BY <1>5, <1>9, <1>10, <1>11, <1>12, <1>15, <1>17 DEF p
  <1> QED BY <1>16, <1>17

LEMMA OrphanStep ==
  ASSUME TypeInv, NEW c \in Cores, NEW t \in Threads, Orphan(c, t), UNCHANGED world
  PROVE  /\ TypeInv'
         /\ \A d \in Cores : d # c => op'[d] = op[d]
         /\ \/ op[c].k = "gone" /\ op'[c] = Idle
            \/ /\ op[c].k = "sweep" /\ op'[c].k = op[c].k /\ op'[c].obj = op[c].obj
               /\ op'[c].self = op[c].self /\ op'[c].to = op[c].to
               /\ op'[c].todo = op[c].todo /\ op'[c].orphans = op[c].orphans \ {t}
PROOF
  <1> DEFINE v == [op[c] EXCEPT !.orphans = op[c].orphans \ {t}]
             w == IF op[c].k = "gone" THEN Idle ELSE v
  <1>0. TypeOK /\ op[c] \in Operation BY OpFields DEF TypeInv
  <1>1. TokenWhole' /\ AllLengths' /\ ep' \in [Endpoints -> Endpoint] BY EpSame DEF Orphan
  <1>2. /\ v \in Operation /\ v.k = op[c].k /\ v.obj = op[c].obj /\ v.self = op[c].self
        /\ v.to = op[c].to /\ v.todo = op[c].todo /\ v.orphans = op[c].orphans \ {t}
    BY <1>0 DEF Operation
  <1>3. op' = [op EXCEPT ![c] = w] BY DEF Orphan
  <1> HIDE DEF v
  <1>4. w \in Operation BY <1>2, IdleTyped
  <1>5. /\ op' \in [Cores -> Operation] /\ op'[c] = w /\ \A d \in Cores : d # c => op'[d] = op[d]
    <2> HIDE DEF w
    <2> QED BY <1>0, <1>3, <1>4, OpTyped
  <1>6. frame' \in [Threads -> Frame] /\ ipc' \in [Threads -> BOOLEAN]
    BY <1>0 DEF TypeOK, Frame, Orphan
  <1>7. TypeInv' BY <1>0, <1>1, <1>5, <1>6, TypeParts DEF TypeInv, Orphan, ThreadTypes, RestTypes
  <1>8. op[c].k = "gone" \/ op[c].k = "sweep" BY DEF Orphan
  <1> QED BY <1>2, <1>5, <1>7, <1>8

LEMMA SetQuiescingStep ==
  ASSUME TypeInv, NEW c \in Cores, NEW e \in Endpoints, NEW q \in BOOLEAN,
         SetQuiescing(c, e, q), UNCHANGED world
  PROVE  /\ TypeInv' /\ OnlyEp(e)
         /\ ep'[e].senders = ep[e].senders /\ ep'[e].receivers = ep[e].receivers
         /\ ep'[e].caller = ep[e].caller /\ ep'[e].owner = ep[e].owner
PROOF
  <1>0. TypeOK BY DEF TypeInv
  <1>1. ep' = [ep EXCEPT ![e].quiescing = q] BY DEF SetQuiescing
  <1>2. OnlyEp(e)
    <2>1. None \in Threads \cup {None} OBVIOUS
    <2>2. ep' \in [Endpoints -> Endpoint] BY <1>0, <1>1, <2>1, EmptyTyped, EpWrites
    <2>3. \A x \in Endpoints : x # e => ep'[x] = ep[x] BY <1>0, <1>1 DEF TypeOK
    <2> QED BY <2>2, <2>3 DEF OnlyEp
  <1>3. /\ ep'[e].senders = ep[e].senders /\ ep'[e].receivers = ep[e].receivers
        /\ ep'[e].caller = ep[e].caller /\ ep'[e].owner = ep[e].owner
    BY <1>0, <1>1 DEF TypeOK
  <1>4. Lengths(e)' /\ (ep'[e].caller = None => ep'[e].owner = None)
    BY <1>0, <1>3, EpFields DEF Lengths, TypeInv, TokenWhole
  <1>5. TokenWhole' /\ AllLengths' BY <1>2, <1>4, EpStep
  <1> QED BY <1>0, <1>2, <1>3, <1>5, TypeParts
          DEF TypeInv, SetQuiescing, threadVars, ThreadTypes, RestTypes, OnlyEp

\* A receiver is taken off its endpoint.
LEMMA ReceiversWritten ==
  ASSUME TypeInv, NEW e \in Endpoints, NEW R \in Seq(Threads), Len(R) <= QueueCap,
         ep' = [ep EXCEPT ![e].receivers = R]
  PROVE  /\ OnlyEp(e) /\ TokenWhole' /\ AllLengths'
         /\ ep'[e].senders = ep[e].senders /\ ep'[e].receivers = R
         /\ ep'[e].caller = ep[e].caller /\ ep'[e].owner = ep[e].owner
         /\ ep'[e].quiescing = ep[e].quiescing
PROOF
  <1>0. TypeOK BY DEF TypeInv
  <1>3. OnlyEp(e)
    <2>1. None \in Threads \cup {None} /\ TRUE \in BOOLEAN OBVIOUS
    <2>2. ep' \in [Endpoints -> Endpoint] BY <1>0, <2>1, EpWrites
    <2>3. \A x \in Endpoints : x # e => ep'[x] = ep[x] BY <1>0 DEF TypeOK
    <2> QED BY <2>2, <2>3 DEF OnlyEp
  <1>4. /\ ep'[e].senders = ep[e].senders /\ ep'[e].receivers = R
        /\ ep'[e].caller = ep[e].caller /\ ep'[e].owner = ep[e].owner
        /\ ep'[e].quiescing = ep[e].quiescing
    BY <1>0 DEF TypeOK
  <1>5. Lengths(e)' /\ (ep'[e].caller = None => ep'[e].owner = None)
    BY <1>0, <1>4, EpFields DEF Lengths, TypeInv, TokenWhole
  <1>6. TokenWhole' /\ AllLengths' BY <1>3, <1>5, EpStep
  <1> QED BY <1>3, <1>4, <1>6

LEMMA ReceiverGone ==
  ASSUME TypeInv, NEW e \in Endpoints, NEW t \in Threads,
         ep' = [ep EXCEPT ![e].receivers = Without(@, t)]
  PROVE  /\ OnlyEp(e) /\ TokenWhole' /\ AllLengths'
         /\ ep'[e].senders = ep[e].senders /\ ep'[e].receivers = Without(ep[e].receivers, t)
         /\ ep'[e].caller = ep[e].caller /\ ep'[e].owner = ep[e].owner
         /\ ep'[e].quiescing = ep[e].quiescing
PROOF
  <1> DEFINE R == Without(ep[e].receivers, t)
  <1>0. TypeOK BY DEF TypeInv
  <1>1. R \in Seq(Threads) /\ Len(R) <= QueueCap
    <2>0. ep[e].receivers \in Seq(Threads) /\ Len(ep[e].receivers) <= QueueCap BY <1>0, EpFields
    <2>1. R \in Seq(Threads) /\ Len(R) <= Len(ep[e].receivers) BY <2>0, WithoutLeaves
    <2> QED BY <2>0, <2>1, SeqSet
  <1>2. ep' = [ep EXCEPT ![e].receivers = R] OBVIOUS
  <1> QED BY <1>1, <1>2, ReceiversWritten

LEMMA RetireStep ==
  ASSUME TypeInv, NEW c \in Cores, NEW e \in Endpoints, NEW t \in Threads,
         RetireReceiver(c, e, t) \/ \E new \in Threads : RebindServer(c, e, t, new),
         UNCHANGED world
  PROVE  TypeInv'
PROOF
  <1>0. TypeOK BY DEF TypeInv
  <1>1. ep' = [ep EXCEPT ![e].receivers = Without(@, t)] /\ retired' = retired \cup {t}
    BY DEF RetireReceiver, RebindServer
  <1>2. OnlyEp(e) /\ TokenWhole' /\ AllLengths' BY <1>1, ReceiverGone
  <1>3. UNCHANGED <<nt, threadVars, op, owed, panic>> BY DEF RetireReceiver, RebindServer
  <1> QED BY <1>0, <1>1, <1>2, <1>3, TypeParts
          DEF TypeInv, threadVars, ThreadTypes, RestTypes, OnlyEp

LEMMA MigrateOwnerStep ==
  ASSUME TypeInv, NEW c \in Cores, NEW e \in Endpoints, NEW s \in Threads,
         MigrateOwner(c, e, s), UNCHANGED world
  PROVE  /\ TypeInv' /\ OnlyEp(e) /\ ep[e].caller \in Threads
         /\ ep'[e].senders = Append(ep[e].senders, ep[e].caller)
         /\ ep'[e].receivers = ep[e].receivers
         /\ ep'[e].caller = None /\ ep'[e].owner = None /\ ep'[e].quiescing = ep[e].quiescing
PROOF
  <1> DEFINE S == Append(ep[e].senders, ep[e].caller)
  <1>0. TypeOK BY DEF TypeInv
  <1>1. ep[e].caller \in Threads BY <1>0, EpFields DEF MigrateOwner
  <1>2. S \in Seq(Threads) /\ Len(S) <= QueueCap
    <2>1. ep[e].senders \in Seq(Threads) BY <1>0, EpFields
    <2>2. Len(ep[e].senders) \in Nat /\ QueueCap \in Nat BY <2>1
    <2>3. ~(Len(ep[e].senders) >= QueueCap) BY DEF MigrateOwner, Full
    <2> QED BY <1>1, <2>1, <2>2, <2>3
  <1>3. ep' = [ep EXCEPT ![e].senders = S, ![e].caller = None, ![e].owner = None]
    BY DEF MigrateOwner
  <1> HIDE DEF S
  <1>4. OnlyEp(e)
    <2>1. None \in Threads \cup {None} /\ TRUE \in BOOLEAN OBVIOUS
    <2>2. ep' \in [Endpoints -> Endpoint] BY <1>0, <1>2, <1>3, <2>1, EpWrites
    <2>3. \A x \in Endpoints : x # e => ep'[x] = ep[x] BY <1>0, <1>3 DEF TypeOK
    <2> QED BY <2>2, <2>3 DEF OnlyEp
  <1>5. /\ ep'[e].senders = S /\ ep'[e].receivers = ep[e].receivers
        /\ ep'[e].caller = None /\ ep'[e].owner = None /\ ep'[e].quiescing = ep[e].quiescing
    BY <1>0, <1>3 DEF TypeOK
  <1>6. Lengths(e)' BY <1>0, <1>2, <1>5, EpFields DEF Lengths
  <1>7. TokenWhole' /\ AllLengths' BY <1>4, <1>5, <1>6, EpStep
  <1>8. TypeInv' BY <1>0, <1>4, <1>7, TypeParts
          DEF TypeInv, MigrateOwner, threadVars, ThreadTypes, RestTypes, OnlyEp
  <1> QED BY <1>1, <1>4, <1>5, <1>8 DEF S

\* The operation of a core that wakes the caller of an aborted call.
Gone(t) == [Idle EXCEPT !.k = "gone", !.orphans = {t}]

LEMMA GoneTyped ==
  ASSUME NEW t \in Threads
  PROVE  /\ Gone(t) \in Operation /\ Gone(t).k = "gone" /\ Gone(t).obj = None
         /\ Gone(t).self = None /\ Gone(t).to = None /\ Gone(t).todo = {}
         /\ Gone(t).orphans = {t}
  BY DEF Gone, Idle, Operation

LEMMA AbortCallStep ==
  ASSUME TypeInv, NEW c \in Cores, NEW e \in Endpoints, AbortCall(c, e), UNCHANGED world
  PROVE  /\ TypeInv' /\ OnlyEp(e) /\ ep[e].caller \in Threads
         /\ ep'[e].senders = ep[e].senders /\ ep'[e].receivers = ep[e].receivers
         /\ ep'[e].caller = None /\ ep'[e].owner = None /\ ep'[e].quiescing = ep[e].quiescing
         /\ op' = [op EXCEPT ![c] = Gone(ep[e].caller)]
PROOF
  <1>0. TypeOK BY DEF TypeInv
  <1>1. ep[e].caller \in Threads BY <1>0, EpFields DEF AbortCall
  <1>2. op' = [op EXCEPT ![c] = Gone(ep[e].caller)] BY DEF AbortCall, Gone
  <1>3. op' \in [Cores -> Operation] BY <1>0, <1>1, <1>2, GoneTyped, OpTyped
  <1>4. /\ OnlyEp(e) /\ TokenWhole' /\ AllLengths'
        /\ ep'[e].receivers = ep[e].receivers /\ ep'[e].senders = ep[e].senders
        /\ ep'[e].caller = None /\ ep'[e].owner = None /\ ep'[e].quiescing = ep[e].quiescing
    BY TokenGone DEF AbortCall
  <1>5. TypeInv' BY <1>0, <1>3, <1>4, TypeParts
          DEF TypeInv, AbortCall, threadVars, ThreadTypes, RestTypes, OnlyEp
  <1> QED BY <1>1, <1>2, <1>4, <1>5

-----------------------------------------------------------------------------
(* The operations under way                                                *)

\* What a core is in the middle of has the shape its code gives it: the object lock belongs to
\* the waking of a thread, a sweep is about a dead thread, and the thread that blocks itself
\* after a rendezvous lives on that core.
OpOK(c) ==
  /\ op[c].k = "idle" => op[c] = Idle
  /\ op[c].k = "wake" => op[c].to \in Threads /\ op[c].obj \in Objs
  /\ op[c].k \notin {"sweep", "gone"} => op[c].orphans = {}
  /\ op[c].k \in {"wake", "gone"} => op[c].todo = {}
  /\ op[c].k # "wake" => op[c].obj = None /\ op[c].self = None
  /\ op[c].k \in {"purge", "gone"} => op[c].to = None
  /\ op[c].k \in {"death", "sweep"} =>
       /\ op[c].to \in Threads /\ ~alive[op[c].to]
       /\ op[c].todo \subseteq {op[c].to} \X Endpoints
  /\ op[c].k = "gone" => \E t \in Threads : op[c].orphans = {t}
  /\ op[c].self # None => /\ op[c].self \in Threads /\ CoreOf[op[c].self] = c
                          /\ alive[op[c].self] /\ op[c].obj \in Endpoints

\* The lock of an object has one holder.
LocksExclusive == \A c, d \in Cores : c # d /\ op[c].obj # None => op[c].obj # op[d].obj

OpsTrue == (\A c \in Cores : OpOK(c)) /\ LocksExclusive

OnlyCore(c) == \A d \in Cores : d # c => op'[d] = op[d]

LEMMA OpsSame ==
  ASSUME OpsTrue, op' = op, alive' = alive
  PROVE  OpsTrue'
  BY DEF OpsTrue, OpOK, LocksExclusive

LEMMA OpsOne ==
  ASSUME OpsTrue, NEW c \in Cores, OnlyCore(c), OpOK(c)',
         \A t \in Threads : alive'[t] # alive[t] =>
           ~alive'[t] /\ \A d \in Cores : op[d].self # t,
         \/ op'[c].obj = None
         \/ op'[c].obj = op[c].obj
         \/ op'[c].obj \in Objs /\ Unlocked(op'[c].obj)
  PROVE  OpsTrue'
PROOF
  <1>1. ASSUME NEW d \in Cores, d # c PROVE OpOK(d)'
    <2>1. op'[d] = op[d] /\ OpOK(d) BY <1>1 DEF OnlyCore, OpsTrue
    <2>2. op[d].k \in {"death", "sweep"} => ~alive'[op[d].to] BY <2>1 DEF OpOK
    <2>3. op[d].self # None => alive'[op[d].self] BY <2>1 DEF OpOK
    <2> QED BY <2>1, <2>2, <2>3 DEF OpOK
  <1>2. LocksExclusive'
    <2> SUFFICES ASSUME NEW a \in Cores, NEW b \in Cores, a # b, op'[a].obj # None
                 PROVE  op'[a].obj # op'[b].obj
      BY DEF LocksExclusive
    <2>1. LocksExclusive /\ (a # c => op'[a] = op[a]) /\ (b # c => op'[b] = op[b])
      BY DEF OnlyCore, OpsTrue
    <2> QED BY <2>1 DEF LocksExclusive, Unlocked
  <1> QED BY <1>1, <1>2 DEF OpsTrue

\* What a core is in after each kind of operation.
LEMMA IdleOK ==
  ASSUME NEW c \in Cores, op'[c] = Idle
  PROVE  /\ OpOK(c)' /\ op'[c].k = "idle" /\ op'[c].obj = None /\ op'[c].self = None
         /\ op'[c].to = None /\ op'[c].todo = {} /\ op'[c].orphans = {}
  BY DEF OpOK, Idle

LEMMA FreeFields ==
  ASSUME NEW c \in Cores, Free(c)
  PROVE  /\ op[c].k = "idle" /\ op[c].obj = None /\ op[c].self = None
         /\ op[c].to = None /\ op[c].todo = {} /\ op[c].orphans = {}
  BY DEF Free, Idle

LEMMA PurgingOK ==
  ASSUME TypeOK, NEW c \in Cores, NEW todo \in SUBSET (Threads \X Objs),
         op' = [op EXCEPT ![c] = Purging(todo)]
  PROVE  /\ OpOK(c)' /\ OnlyCore(c) /\ op'[c].k = "purge" /\ op'[c].obj = None /\ op'[c].to = None
         /\ op'[c].self = None /\ op'[c].todo = todo /\ op'[c].orphans = {}
PROOF
  <1>1. op'[c] = Purging(todo) /\ OnlyCore(c) BY PurgingTyped, OpTyped DEF OnlyCore
  <1> QED BY <1>1, PurgingTyped DEF OpOK

LEMMA DyingOK ==
  ASSUME TypeOK, NEW c \in Cores, NEW t \in Threads, op' = [op EXCEPT ![c] = Dying(t)], ~alive'[t]
  PROVE  /\ OpOK(c)' /\ OnlyCore(c) /\ op'[c].k = "death" /\ op'[c].obj = None /\ op'[c].to = t
         /\ op'[c].self = None /\ op'[c].todo = {t} \X Endpoints /\ op'[c].orphans = {}
PROOF
  <1>1. op'[c] = Dying(t) /\ OnlyCore(c) BY DyingTyped, OpTyped DEF OnlyCore
  <1> QED BY <1>1, DyingTyped DEF OpOK

LEMMA GoneOK ==
  ASSUME TypeOK, NEW c \in Cores, NEW t \in Threads, op' = [op EXCEPT ![c] = Gone(t)]
  PROVE  /\ OpOK(c)' /\ OnlyCore(c) /\ op'[c].k = "gone" /\ op'[c].obj = None /\ op'[c].to = None
         /\ op'[c].self = None /\ op'[c].todo = {} /\ op'[c].orphans = {t}
PROOF
  <1>1. op'[c] = Gone(t) /\ OnlyCore(c) BY GoneTyped, OpTyped DEF OnlyCore
  <1> QED BY <1>1, GoneTyped DEF OpOK

-----------------------------------------------------------------------------
(* What a step means to one thread                                         *)

\* Where thread t is entered.
Snd(t, e) == t \in ToSet(ep[e].senders)
Rcv(t, e) == t \in ToSet(ep[e].receivers)
Clr(t, e) == ep[e].caller = t
Wtr(t, n) == nt[n].waiter = t

\* What core c is about to do to t: wake it, wake it as an orphan, take it off object o; or
\* t itself is on its way from a rendezvous into its block.
Tgt(t, c) == op[c].k = "wake" /\ op[c].to = t
Orp(t, c) == t \in op[c].orphans
OffAt(t, o, c) == op[c].k = "purge" /\ <<t, o>> \in op[c].todo
Off(t, o) == OffAt(t, o, CoreOf[t])
Self(t) == op[CoreOf[t]].self = t

\* A step leaves these alone for thread t.
EpView(t) == \A e \in Endpoints :
  (Snd(t, e)' <=> Snd(t, e)) /\ (Rcv(t, e)' <=> Rcv(t, e)) /\ (Clr(t, e)' <=> Clr(t, e))
NtView(t) == \A n \in Notifications : Wtr(t, n)' <=> Wtr(t, n)
OpView(t) ==
  /\ \A c \in Cores :
       /\ Tgt(t, c)' <=> Tgt(t, c)
       /\ Tgt(t, c) => op'[c].obj = op[c].obj /\ op'[c].self = op[c].self
       /\ Orp(t, c)' <=> Orp(t, c)
       /\ \A o \in Objs : OffAt(t, o, c)' <=> OffAt(t, o, c)
  /\ Self(t)' <=> Self(t)
  /\ Self(t) => op'[CoreOf[t]].obj = op[CoreOf[t]].obj
ThreadView(t) ==
  /\ alive'[t] = alive[t] /\ ipc'[t] = ipc[t] /\ wait'[t] = wait[t]
  /\ frame'[t].res = frame[t].res /\ frame'[t].bits = frame[t].bits
  /\ frame'[t] = NoFrame <=> frame[t] = NoFrame
  /\ frame'[t].from = None <=> frame[t].from = None
  /\ wait[t].k = "recv" => \A e \in Endpoints : serving'[t][e] = None <=> serving[t][e] = None
Untouched(t) == EpView(t) /\ NtView(t) /\ OpView(t) /\ ThreadView(t)

\* A dead thread stays dead, is entered nowhere anew, and stays on the list of its sweep where
\* it is entered.
DeadStep(t) ==
  /\ ~alive'[t] /\ (ipc'[t] => ipc[t]) /\ wait'[t] = wait[t]
  /\ \A e \in Endpoints : Snd(t, e)' \/ Rcv(t, e)' \/ Clr(t, e)' =>
       (Snd(t, e) \/ Rcv(t, e) \/ Clr(t, e)) /\ (SweepPending(t, e) => SweepPending(t, e)')
  /\ \A n \in Notifications : Wtr(t, n)' =>
       Wtr(t, n) /\ (SweepPending(t, n) => SweepPending(t, n)')

LEMMA EpViewSame ==
  ASSUME ep' = ep, NEW t
  PROVE  EpView(t)
  BY DEF EpView, Snd, Rcv, Clr

LEMMA NtViewSame ==
  ASSUME nt' = nt, NEW t
  PROVE  NtView(t)
  BY DEF NtView, Wtr

LEMMA OpViewSame ==
  ASSUME op' = op, NEW t \in Threads
  PROVE  OpView(t) /\ \A o \in Objs : SweepPending(t, o) <=> SweepPending(t, o)'
  BY DEF OpView, Tgt, Orp, OffAt, Self, SweepPending

LEMMA ThreadViewSame ==
  ASSUME alive' = alive, ipc' = ipc, wait' = wait, frame' = frame, serving' = serving, NEW t
  PROVE  ThreadView(t)
  BY DEF ThreadView

\* One endpoint changes.
LEMMA EpViewOne ==
  ASSUME NEW e \in Endpoints, OnlyEp(e), NEW t,
         Snd(t, e)' <=> Snd(t, e), Rcv(t, e)' <=> Rcv(t, e), Clr(t, e)' <=> Clr(t, e)
  PROVE  EpView(t)
PROOF
  <1> SUFFICES ASSUME NEW x \in Endpoints
               PROVE  /\ Snd(t, x)' <=> Snd(t, x)
                      /\ Rcv(t, x)' <=> Rcv(t, x)
                      /\ Clr(t, x)' <=> Clr(t, x)
    BY DEF EpView
  <1>1. CASE x = e BY <1>1
  <1>2. CASE x # e
    <2>1. ep'[x] = ep[x] BY <1>2 DEF OnlyEp
    <2> QED BY <2>1 DEF Snd, Rcv, Clr
  <1> QED BY <1>1, <1>2

LEMMA NtViewOne ==
  ASSUME TypeOK, NEW n \in Notifications, NEW r, nt' = [nt EXCEPT ![n] = r], NEW t,
         Wtr(t, n)' <=> Wtr(t, n)
  PROVE  NtView(t)
PROOF
  <1> SUFFICES ASSUME NEW x \in Notifications PROVE Wtr(t, x)' <=> Wtr(t, x)
    BY DEF NtView
  <1>1. CASE x = n BY <1>1
  <1>2. CASE x # n
    <2>1. nt'[x] = nt[x] BY <1>2 DEF TypeOK
    <2> QED BY <2>1 DEF Wtr
  <1> QED BY <1>1, <1>2

\* Thread t has no part in what core c does.
Absent(t, c) ==
  ~Tgt(t, c) /\ ~Orp(t, c) /\ (\A o \in Objs : <<t, o>> \notin op[c].todo) /\ op[c].self # t

\* One core's operation changes.
LEMMA OpViewOne ==
  ASSUME NEW c \in Cores, OnlyCore(c), NEW t \in Threads,
         Tgt(t, c)' <=> Tgt(t, c), Orp(t, c)' <=> Orp(t, c),
         Tgt(t, c) => op'[c].obj = op[c].obj /\ op'[c].self = op[c].self,
         \A o \in Objs : OffAt(t, o, c)' <=> OffAt(t, o, c),
         op'[c].self = t <=> op[c].self = t, op[c].self = t => op'[c].obj = op[c].obj
  PROVE  OpView(t)
PROOF
  <1>1. ASSUME NEW d \in Cores
        PROVE  /\ Tgt(t, d)' <=> Tgt(t, d)
               /\ Tgt(t, d) => op'[d].obj = op[d].obj /\ op'[d].self = op[d].self
               /\ Orp(t, d)' <=> Orp(t, d)
               /\ \A o \in Objs : OffAt(t, o, d)' <=> OffAt(t, o, d)
               /\ op'[d].self = t <=> op[d].self = t
               /\ op[d].self = t => op'[d].obj = op[d].obj
    <2>1. CASE d = c BY <2>1
    <2>2. CASE d # c
      <3>1. op'[d] = op[d] BY <2>2 DEF OnlyCore
      <3> QED BY <3>1 DEF Tgt, Orp, OffAt
    <2> QED BY <2>1, <2>2
  <1>2. CoreOf[t] \in Cores OBVIOUS
  <1>3. /\ Self(t)' <=> Self(t)
        /\ Self(t) => op'[CoreOf[t]].obj = op[CoreOf[t]].obj
    BY <1>1, <1>2 DEF Self
  <1> QED BY <1>1, <1>3 DEF OpView

LEMMA OpViewAbsent ==
  ASSUME NEW c \in Cores, OnlyCore(c), NEW t \in Threads, Absent(t, c), Absent(t, c)'
  PROVE  OpView(t)
PROOF
  <1>1. /\ Tgt(t, c)' <=> Tgt(t, c)
        /\ Orp(t, c)' <=> Orp(t, c)
        /\ Tgt(t, c) => op'[c].obj = op[c].obj /\ op'[c].self = op[c].self
        /\ \A o \in Objs : OffAt(t, o, c)' <=> OffAt(t, o, c)
        /\ op'[c].self = t <=> op[c].self = t
        /\ op[c].self = t => op'[c].obj = op[c].obj
    BY DEF Absent, OffAt
  <1> QED BY <1>1, OpViewOne

LEMMA FreeAbsent ==
  ASSUME NEW c \in Cores, Free(c), NEW t \in Threads
  PROVE  Absent(t, c)
PROOF
  <1>1. /\ op[c].k = "idle" /\ op[c].self = None /\ op[c].todo = {} /\ op[c].orphans = {}
    BY FreeFields
  <1> QED BY <1>1 DEF Absent, Tgt, Orp

LEMMA IdleAbsent ==
  ASSUME NEW c \in Cores, op'[c] = Idle, NEW t \in Threads
  PROVE  Absent(t, c)'
PROOF
  <1>1. /\ op'[c].k = "idle" /\ op'[c].self = None /\ op'[c].todo = {} /\ op'[c].orphans = {}
    BY IdleOK
  <1> QED BY <1>1 DEF Absent, Tgt, Orp

\* The sweep of a dead thread goes on.
LEMMA PendingOne ==
  ASSUME NEW c \in Cores, OnlyCore(c), NEW t, NEW o, SweepPending(t, o),
         \/ /\ <<t, o>> \notin op[c].todo
            /\ ~(op[c].k \in {"death", "sweep"} /\ op[c].to = t /\ o \in Notifications)
         \/ <<t, o>> \in op'[c].todo
         \/ op'[c].k \in {"death", "sweep"} /\ op'[c].to = t /\ o \in Notifications
  PROVE  SweepPending(t, o)'
PROOF
  <1>1. PICK d \in Cores : \/ <<t, o>> \in op[d].todo
                           \/ op[d].k \in {"death", "sweep"} /\ op[d].to = t /\ o \in Notifications
    BY DEF SweepPending
  <1>2. CASE d = c BY <1>1, <1>2 DEF SweepPending
  <1>3. CASE d # c
    <2>1. op'[d] = op[d] BY <1>3 DEF OnlyCore
    <2> QED BY <1>1, <2>1 DEF SweepPending
  <1> QED BY <1>2, <1>3

Single == \A e \in Endpoints : SingleIn(ep[e].senders) /\ SingleIn(ep[e].receivers)

LEMMA SingleOne ==
  ASSUME Single, NEW e \in Endpoints, OnlyEp(e),
         SingleIn(ep'[e].senders), SingleIn(ep'[e].receivers)
  PROVE  Single'
PROOF
  <1> SUFFICES ASSUME NEW x \in Endpoints
               PROVE  SingleIn(ep'[x].senders) /\ SingleIn(ep'[x].receivers)
    BY DEF Single
  <1>1. CASE x = e BY <1>1
  <1>2. CASE x # e
    <2>1. ep'[x] = ep[x] BY <1>2 DEF OnlyEp
    <2> QED BY <2>1 DEF Single
  <1> QED BY <1>1, <1>2

LEMMA SingleSame ==
  ASSUME Single, ep' = ep
  PROVE  Single'
  BY DEF Single

\* The dead are all that is dropped.
LEMMA NoneLive ==
  ASSUME NEW q \in Seq(Threads), LiveIn(q) = {}
  PROVE  \A u \in ToSet(q) : ~alive[u]
  BY DEF LiveIn, ToSet

LEMMA DroppedSet ==
  ASSUME NEW q \in Seq(Threads), NEW r, Dropped(q, r)
  PROVE  /\ ToSet(r) \subseteq ToSet(q)
         /\ \A u \in ToSet(q) : alive[u] => u \in ToSet(r)
         /\ SingleIn(q) => SingleIn(r)
PROOF
  <1>1. CASE r = q BY <1>1
  <1>2. CASE r = EmptyQueue /\ LiveIn(q) = {}
    <2>1. ToSet(r) = {} /\ SingleIn(r) BY <1>2, EmptySet DEF EmptyQueue
    <2> QED BY <1>2, <2>1, NoneLive
  <1> QED BY <1>1, <1>2 DEF Dropped, EmptyQueue

\* Thread u may lose its entries at e, nothing else changes.
EpLess(u, e) ==
  /\ (Snd(u, e)' => Snd(u, e)) /\ (Rcv(u, e)' => Rcv(u, e)) /\ (Clr(u, e)' => Clr(u, e))
  /\ \A x \in Endpoints : x # e =>
       (Snd(u, x)' <=> Snd(u, x)) /\ (Rcv(u, x)' <=> Rcv(u, x)) /\ (Clr(u, x)' <=> Clr(u, x))

LEMMA EpLessOne ==
  ASSUME NEW e \in Endpoints, OnlyEp(e), NEW u,
         Snd(u, e)' => Snd(u, e), Rcv(u, e)' => Rcv(u, e), Clr(u, e)' => Clr(u, e)
  PROVE  EpLess(u, e)
  BY DEF EpLess, OnlyEp, Snd, Rcv, Clr

\* Entries of thread u at e are none but those it had.
EpShrinks(u, e) == Snd(u, e)' \/ Rcv(u, e)' \/ Clr(u, e)' => Snd(u, e) \/ Rcv(u, e) \/ Clr(u, e)

LEMMA DeadStepOne ==
  ASSUME NEW u \in Threads, ~alive'[u], ipc'[u] => ipc[u], wait'[u] = wait[u],
         NEW e \in Endpoints, OnlyEp(e), EpShrinks(u, e),
         \A n \in Notifications : Wtr(u, n)' => Wtr(u, n),
         \A o \in Objs : SweepPending(u, o) => SweepPending(u, o)'
  PROVE  DeadStep(u)
PROOF
  <1>1. ASSUME NEW x \in Endpoints, Snd(u, x)' \/ Rcv(u, x)' \/ Clr(u, x)'
        PROVE  Snd(u, x) \/ Rcv(u, x) \/ Clr(u, x)
    <2>1. CASE x = e BY <1>1, <2>1 DEF EpShrinks
    <2>2. CASE x # e
      <3>1. ep'[x] = ep[x] BY <2>2 DEF OnlyEp
      <3> QED BY <1>1, <3>1 DEF Snd, Rcv, Clr
    <2> QED BY <2>1, <2>2
  <1> QED BY <1>1 DEF DeadStep, Objs

LEMMA DeadStepSame ==
  ASSUME NEW u \in Threads, ~alive'[u], ipc'[u] => ipc[u], wait'[u] = wait[u], ep' = ep,
         \A n \in Notifications : Wtr(u, n)' => Wtr(u, n),
         \A o \in Objs : SweepPending(u, o) => SweepPending(u, o)'
  PROVE  DeadStep(u)
  BY DEF DeadStep, Objs, Snd, Rcv, Clr

LEMMA CallRefusedEffect ==
  ASSUME TypeInv, OpsTrue, NEW t \in Threads, NEW e \in Endpoints, NEW tm \in BOOLEAN,
         CallRefused(t, e, tm), UNCHANGED world
  PROVE  /\ TypeInv' /\ OpsTrue' /\ (Single => Single')
         /\ \A u \in Threads : IF alive[u] THEN Untouched(u) ELSE DeadStep(u)
PROOF
  <1>0. TypeOK BY DEF TypeInv
  <1>1. /\ TypeInv' /\ OnlyEp(e)
        /\ ep'[e].senders = ep[e].senders /\ ep'[e].caller = ep[e].caller
        /\ Dropped(ep[e].receivers, ep'[e].receivers)
    BY CallRefusedStep
  <1>2. /\ nt' = nt /\ alive' = alive /\ ipc' = ipc /\ frame' = frame /\ wait' = wait
        /\ serving' = serving /\ op' = op
    BY DEF CallRefused
  <1>3. /\ ToSet(ep'[e].receivers) \subseteq ToSet(ep[e].receivers)
        /\ \A u \in ToSet(ep[e].receivers) : alive[u] => u \in ToSet(ep'[e].receivers)
        /\ SingleIn(ep[e].receivers) => SingleIn(ep'[e].receivers)
    BY <1>0, <1>1, EpFields, DroppedSet
  <1>4. OpsTrue' BY <1>2, OpsSame
  <1>5. Single => Single' BY <1>1, <1>3, SingleOne DEF Single
  <1>6. ASSUME NEW u \in Threads, alive[u] PROVE Untouched(u)
    <2>1. /\ Snd(u, e)' <=> Snd(u, e)
          /\ Rcv(u, e)' <=> Rcv(u, e)
          /\ Clr(u, e)' <=> Clr(u, e)
      BY <1>1, <1>3, <1>6 DEF Snd, Rcv, Clr
    <2> QED BY <1>1, <1>2, <2>1, EpViewOne, NtViewSame, OpViewSame, ThreadViewSame DEF Untouched
  <1>7. ASSUME NEW u \in Threads, ~alive[u] PROVE DeadStep(u)
    <2>1. EpShrinks(u, e) BY <1>1, <1>3 DEF EpShrinks, Snd, Rcv, Clr
    <2>2. \A o \in Objs : SweepPending(u, o) => SweepPending(u, o)' BY <1>2, OpViewSame
    <2>3. \A n \in Notifications : Wtr(u, n)' => Wtr(u, n) BY <1>2 DEF Wtr
    <2> QED BY <1>1, <1>2, <1>7, <2>1, <2>2, <2>3, DeadStepOne
  <1> QED BY <1>1, <1>4, <1>5, <1>6, <1>7

\* A thread that enters the kernel has no part in any operation on its core.
LEMMA RunningAbsent ==
  ASSUME NEW t \in Threads, Running(t)
  PROVE  /\ CoreOf[t] \in Cores /\ Free(CoreOf[t]) /\ alive[t] /\ ~ipc[t] /\ wait[t] = User
         /\ Absent(t, CoreOf[t]) /\ ~Self(t) /\ \A o \in Objs : ~Off(t, o)
PROOF
  <1>1. CoreOf[t] \in Cores /\ Free(CoreOf[t]) BY DEF Running
  <1>2. Absent(t, CoreOf[t]) BY <1>1, FreeAbsent
  <1> QED BY <1>1, <1>2 DEF Running, Absent, Self, Off, OffAt

\* The operation of a free core begins: for all but the threads it names, nothing changes.
LEMMA WakingBegins ==
  ASSUME TypeInv, OpsTrue, NEW c \in Cores, Free(c), NEW o \in Objs, Unlocked(o), NEW t \in Threads,
         NEW s \in Threads \cup {None}, op' = [op EXCEPT ![c] = Waking(o, t, s)], alive' = alive,
         s # None => CoreOf[s] = c /\ alive[s] /\ o \in Endpoints
  PROVE  /\ OpsTrue' /\ OnlyCore(c) /\ op'[c].k = "wake" /\ op'[c].obj = o /\ op'[c].to = t
         /\ op'[c].self = s /\ op'[c].todo = {} /\ op'[c].orphans = {}
         /\ \A u \in Threads : u # t /\ u # s => OpView(u)
         /\ \A u \in Threads : \A x \in Objs : SweepPending(u, x) => SweepPending(u, x)'
PROOF
  <1>0. TypeOK BY DEF TypeInv
  <1>1. /\ OpOK(c)' /\ OnlyCore(c) /\ op'[c].k = "wake" /\ op'[c].obj = o /\ op'[c].to = t
        /\ op'[c].self = s /\ op'[c].todo = {} /\ op'[c].orphans = {}
    <2>1. s # None => CoreOf[s] = c /\ alive'[s] /\ o \in Endpoints OBVIOUS
    <2>2. /\ Waking(o, t, s) \in Operation
          /\ Waking(o, t, s).k = "wake" /\ Waking(o, t, s).obj = o /\ Waking(o, t, s).to = t
          /\ Waking(o, t, s).self = s /\ Waking(o, t, s).todo = {} /\ Waking(o, t, s).orphans = {}
      BY WakingTyped
    <2>3. op'[c] = Waking(o, t, s) /\ OnlyCore(c) BY <1>0, <2>2, OpTyped, ZenonT(40) DEF OnlyCore
    <2> QED BY <2>1, <2>2, <2>3 DEF OpOK
  <1>2. OpsTrue' BY <1>1, OpsOne
  <1>3. ASSUME NEW u \in Threads, u # t, u # s PROVE OpView(u)
    <2>1. Absent(u, c) BY FreeAbsent
    <2>2. Absent(u, c)' BY <1>1, <1>3 DEF Absent, Tgt, Orp
    <2> QED BY <1>1, <2>1, <2>2, OpViewAbsent
  <1>4. ASSUME NEW u \in Threads, NEW x \in Objs, SweepPending(u, x) PROVE SweepPending(u, x)'
    <2>1. op[c].k = "idle" /\ op[c].todo = {} BY FreeFields
    <2> QED BY <1>1, <1>4, <2>1, PendingOne
  <1> QED BY <1>1, <1>2, <1>3, <1>4

LEMMA CallRendezvousEffect ==
  ASSUME TypeInv, OpsTrue, NEW t \in Threads, NEW e \in Endpoints, NEW tm \in BOOLEAN,
         CallRendezvous(t, e, tm), UNCHANGED world
  PROVE  /\ TypeInv' /\ OpsTrue' /\ (Single => Single')
         /\ \E s \in Threads :
              /\ Rcv(s, e) /\ alive[s] /\ (Single => ~Rcv(s, e)')
              /\ ep'[e].senders = ep[e].senders /\ ep'[e].caller = t /\ ep'[e].owner = s
              /\ ToSet(ep'[e].receivers) \subseteq ToSet(ep[e].receivers)
              /\ frame' = [frame EXCEPT ![s] = [res |-> "OK", from |-> t, bits |-> {}]]
              /\ OnlyCore(CoreOf[t]) /\ op'[CoreOf[t]].k = "wake" /\ op'[CoreOf[t]].obj = e
              /\ op'[CoreOf[t]].to = s /\ op'[CoreOf[t]].self = t
              /\ op'[CoreOf[t]].todo = {} /\ op'[CoreOf[t]].orphans = {}
              /\ \A u \in Threads : u # s /\ u # t => 
                   IF alive[u]
                   THEN /\ EpLess(u, e) /\ NtView(u) /\ OpView(u) /\ ThreadView(u)
                        /\ u # ep[e].caller => Untouched(u)
                   ELSE DeadStep(u)
         /\ OnlyEp(e)
PROOF
  <1> DEFINE c == CoreOf[t]
  <1>0. TypeOK /\ e \in Objs BY DEF TypeInv, Objs
  <1>r. c \in Cores /\ Free(c) /\ alive[t] /\ Unlocked(e)
    BY RunningAbsent DEF CallRendezvous, CallEntry
  <1>1. PICK s \in Threads :
              /\ Took(ep[e].receivers, s, ep'[e].receivers)
              /\ ep'[e].senders = ep[e].senders /\ ep'[e].caller = t /\ ep'[e].owner = s
              /\ frame' = [frame EXCEPT ![s] = [res |-> "OK", from |-> t, bits |-> {}]]
              /\ op' = [op EXCEPT ![CoreOf[t]] = Waking(e, s, t)]
    BY CallRendezvousStep
  <1>2. TypeInv' /\ OnlyEp(e) BY CallRendezvousStep
  <1>3. /\ nt' = nt /\ alive' = alive /\ ipc' = ipc /\ serving' = serving
        /\ wait' = [wait EXCEPT ![t] = [k |-> "call", obj |-> e, timed |-> tm]]
    BY DEF CallRendezvous
  <1>4. /\ OpsTrue' /\ OnlyCore(c) /\ op'[c].k = "wake" /\ op'[c].obj = e /\ op'[c].to = s
        /\ op'[c].self = t /\ op'[c].todo = {} /\ op'[c].orphans = {}
        /\ \A u \in Threads : u # s /\ u # t => OpView(u)
        /\ \A u \in Threads : \A x \in Objs : SweepPending(u, x) => SweepPending(u, x)'
    <2>1. t \in Threads \cup {None} /\ s \in Threads OBVIOUS
    <2>2. op' = [op EXCEPT ![c] = Waking(e, s, t)] BY <1>1
    <2>3. t # None => CoreOf[t] = c /\ alive[t] /\ e \in Endpoints BY <1>r
    <2> HIDE DEF c
    <2> QED BY <1>0, <1>r, <1>3, <2>1, <2>2, <2>3, WakingBegins
  <1> HIDE DEF c
  <1>5. /\ Rcv(s, e) /\ alive[s] /\ (Single => ~Rcv(s, e)') /\ (Single => Single')
        /\ ToSet(ep'[e].receivers) \subseteq ToSet(ep[e].receivers)
    <2>1. Single => SingleIn(ep'[e].receivers) /\ SingleIn(ep'[e].senders) /\ ~Rcv(s, e)'
      BY <1>1 DEF Took, Single, Rcv
    <2> QED BY <1>1, <1>2, <2>1, SingleOne DEF Took, Rcv
  <1>6. ASSUME NEW u \in Threads, u # s, u # t, alive[u]
        PROVE  /\ EpLess(u, e) /\ NtView(u) /\ OpView(u) /\ ThreadView(u)
               /\ u # ep[e].caller => Untouched(u)
    <2>1. /\ Snd(u, e)' <=> Snd(u, e)
          /\ Rcv(u, e)' <=> Rcv(u, e)
          /\ ~Clr(u, e)'
          /\ u # ep[e].caller => ~Clr(u, e)
      BY <1>1, <1>6 DEF Snd, Rcv, Clr, Took
    <2>2. OpView(u) BY <1>4, <1>6
    <2>3. ThreadView(u) BY <1>0, <1>1, <1>3, <1>6 DEF ThreadView, TypeOK
    <2>4. EpLess(u, e) /\ NtView(u) BY <1>2, <1>3, <2>1, EpLessOne, NtViewSame
    <2>5. u # ep[e].caller => EpView(u) BY <1>2, <2>1, EpViewOne
    <2> QED BY <2>2, <2>3, <2>4, <2>5 DEF Untouched
  <1>7. ASSUME NEW u \in Threads, ~alive[u] PROVE DeadStep(u)
    <2>0. u # t BY <1>r, <1>7
    <2>1. EpShrinks(u, e) BY <1>1, <1>5, <2>0 DEF EpShrinks, Snd, Rcv, Clr
    <2>2. \A o \in Objs : SweepPending(u, o) => SweepPending(u, o)' BY <1>4
    <2>3. \A n \in Notifications : Wtr(u, n)' => Wtr(u, n) BY <1>3 DEF Wtr
    <2>4. wait'[u] = wait[u] /\ ipc'[u] = ipc[u] BY <1>0, <1>3, <2>0 DEF TypeOK
    <2> QED BY <1>2, <1>3, <1>7, <2>1, <2>2, <2>3, <2>4, DeadStepOne
  <1> QED BY <1>1, <1>2, <1>4, <1>5, <1>6, <1>7 DEF c

LEMMA CallQueuedEffect ==
  ASSUME TypeInv, OpsTrue, NEW t \in Threads, NEW e \in Endpoints, NEW tm \in BOOLEAN,
         CallQueued(t, e, tm), UNCHANGED world
  PROVE  /\ TypeInv' /\ OpsTrue' /\ (Single /\ ~Snd(t, e) => Single') /\ OnlyEp(e)
         /\ \A u \in Threads : u # t => IF alive[u] THEN Untouched(u) ELSE DeadStep(u)
         /\ NtView(t) /\ OpView(t)
         /\ \A x \in Endpoints : /\ Snd(t, x)' <=> Snd(t, x) \/ x = e
                                 /\ Rcv(t, x)' <=> Rcv(t, x)
                                 /\ Clr(t, x)' <=> Clr(t, x)
PROOF
  <1>0. TypeOK /\ ep[e].senders \in Seq(Threads) /\ ep[e].receivers \in Seq(Threads)
    BY EpFields DEF TypeInv
  <1>r. alive[t] BY RunningAbsent DEF CallQueued, CallEntry
  <1>1. /\ TypeInv' /\ OnlyEp(e)
        /\ ep'[e].senders = Append(ep[e].senders, t) /\ ep'[e].receivers = <<>>
        /\ LiveIn(ep[e].receivers) = {} /\ ep'[e].caller = ep[e].caller
    BY CallQueuedStep
  <1>2. /\ nt' = nt /\ alive' = alive /\ frame' = frame /\ serving' = serving /\ op' = op
        /\ ipc' = [ipc EXCEPT ![t] = TRUE]
        /\ wait' = [wait EXCEPT ![t] = [k |-> "call", obj |-> e, timed |-> tm]]
    BY DEF CallQueued
  <1>3. /\ ToSet(ep'[e].senders) = ToSet(ep[e].senders) \cup {t}
        /\ ToSet(ep'[e].receivers) = {} /\ SingleIn(ep'[e].receivers)
        /\ \A u \in ToSet(ep[e].receivers) : ~alive[u]
        /\ SingleIn(ep[e].senders) /\ ~Snd(t, e) => SingleIn(ep'[e].senders)
    <2>1. ToSet(ep'[e].senders) = ToSet(ep[e].senders) \cup {t} BY <1>0, <1>1, AppendSet
    <2>2. ToSet(ep'[e].receivers) = {} /\ SingleIn(ep'[e].receivers) BY <1>1, EmptySet
    <2>3. \A u \in ToSet(ep[e].receivers) : ~alive[u] BY <1>0, <1>1, NoneLive
    <2>4. SingleIn(ep[e].senders) /\ ~Snd(t, e) => SingleIn(ep'[e].senders)
      BY <1>0, <1>1, AppendSingle DEF Snd
    <2> QED BY <2>1, <2>2, <2>3, <2>4
  <1>4. OpsTrue' BY <1>2, OpsSame
  <1>5. Single /\ ~Snd(t, e) => Single' BY <1>1, <1>3, SingleOne DEF Single
  <1>6. ASSUME NEW u \in Threads, alive[u], u # t PROVE Untouched(u)
    <2>1. /\ Snd(u, e)' <=> Snd(u, e)
          /\ Rcv(u, e)' <=> Rcv(u, e)
          /\ Clr(u, e)' <=> Clr(u, e)
      BY <1>1, <1>3, <1>6 DEF Snd, Rcv, Clr
    <2>2. ThreadView(u) BY <1>0, <1>2, <1>6 DEF ThreadView, TypeOK
    <2> QED BY <1>1, <1>2, <2>1, <2>2, EpViewOne, NtViewSame, OpViewSame DEF Untouched
  <1>7. ASSUME NEW u \in Threads, ~alive[u] PROVE DeadStep(u)
    <2>0. u # t BY <1>r, <1>7
    <2>1. EpShrinks(u, e) BY <1>1, <1>3, <2>0 DEF EpShrinks, Snd, Rcv, Clr
    <2>2. \A o \in Objs : SweepPending(u, o) => SweepPending(u, o)' BY <1>2, OpViewSame
    <2>3. \A n \in Notifications : Wtr(u, n)' => Wtr(u, n) BY <1>2 DEF Wtr
    <2>4. wait'[u] = wait[u] /\ ipc'[u] = ipc[u] BY <1>0, <1>2, <2>0 DEF TypeOK
    <2> QED BY <1>1, <1>2, <1>7, <2>1, <2>2, <2>3, <2>4, DeadStepOne
  <1>8. ASSUME NEW x \in Endpoints
        PROVE  /\ Snd(t, x)' <=> Snd(t, x) \/ x = e
               /\ Rcv(t, x)' <=> Rcv(t, x)
               /\ Clr(t, x)' <=> Clr(t, x)
    <2>1. CASE x = e BY <1>1, <1>3, <1>r, <2>1 DEF Snd, Rcv, Clr
    <2>2. CASE x # e
      <3>1. ep'[x] = ep[x] BY <1>1, <2>2 DEF OnlyEp
      <3> QED BY <2>2, <3>1 DEF Snd, Rcv, Clr
    <2> QED BY <2>1, <2>2
  <1>9. NtView(t) /\ OpView(t) BY <1>2, NtViewSame, OpViewSame
  <1> QED BY <1>1, <1>4, <1>5, <1>6, <1>7, <1>8, <1>9

LEMMA RecvQueuedEffect ==
  ASSUME TypeInv, OpsTrue, NEW t \in Threads, NEW e \in Endpoints, RecvQueued(t, e),
         UNCHANGED world
  PROVE  /\ TypeInv' /\ OpsTrue' /\ (Single /\ ~Rcv(t, e) => Single') /\ OnlyEp(e)
         /\ \A u \in Threads : u # t => IF alive[u] THEN Untouched(u) ELSE DeadStep(u)
         /\ NtView(t) /\ OpView(t)
         /\ \A x \in Endpoints : /\ Snd(t, x)' <=> Snd(t, x)
                                 /\ Rcv(t, x)' <=> Rcv(t, x) \/ x = e
                                 /\ Clr(t, x)' <=> Clr(t, x)
PROOF
  <1>0. TypeOK /\ ep[e].senders \in Seq(Threads) /\ ep[e].receivers \in Seq(Threads)
    BY EpFields DEF TypeInv
  <1>r. alive[t] BY RunningAbsent DEF RecvQueued
  <1>1. /\ TypeInv' /\ OnlyEp(e)
        /\ ep'[e].senders = <<>> /\ ep'[e].receivers = Append(ep[e].receivers, t)
        /\ LiveIn(ep[e].senders) = {} /\ ep'[e].caller = ep[e].caller
    BY RecvQueuedStep
  <1>2. /\ nt' = nt /\ alive' = alive /\ frame' = frame /\ serving' = serving /\ op' = op
        /\ ipc' = [ipc EXCEPT ![t] = TRUE]
        /\ wait' = [wait EXCEPT ![t] = [k |-> "recv", obj |-> e, timed |-> FALSE]]
    BY DEF RecvQueued
  <1>3. /\ ToSet(ep'[e].receivers) = ToSet(ep[e].receivers) \cup {t}
        /\ ToSet(ep'[e].senders) = {} /\ SingleIn(ep'[e].senders)
        /\ \A u \in ToSet(ep[e].senders) : ~alive[u]
        /\ SingleIn(ep[e].receivers) /\ ~Rcv(t, e) => SingleIn(ep'[e].receivers)
    <2>1. ToSet(ep'[e].receivers) = ToSet(ep[e].receivers) \cup {t} BY <1>0, <1>1, AppendSet
    <2>2. ToSet(ep'[e].senders) = {} /\ SingleIn(ep'[e].senders) BY <1>1, EmptySet
    <2>3. \A u \in ToSet(ep[e].senders) : ~alive[u] BY <1>0, <1>1, NoneLive
    <2>4. SingleIn(ep[e].receivers) /\ ~Rcv(t, e) => SingleIn(ep'[e].receivers)
      BY <1>0, <1>1, AppendSingle DEF Rcv
    <2> QED BY <2>1, <2>2, <2>3, <2>4
  <1>4. OpsTrue' BY <1>2, OpsSame
  <1>5. Single /\ ~Rcv(t, e) => Single' BY <1>1, <1>3, SingleOne DEF Single
  <1>6. ASSUME NEW u \in Threads, alive[u], u # t PROVE Untouched(u)
    <2>1. /\ Snd(u, e)' <=> Snd(u, e)
          /\ Rcv(u, e)' <=> Rcv(u, e)
          /\ Clr(u, e)' <=> Clr(u, e)
      BY <1>1, <1>3, <1>6 DEF Snd, Rcv, Clr
    <2>2. ThreadView(u) BY <1>0, <1>2, <1>6 DEF ThreadView, TypeOK
    <2> QED BY <1>1, <1>2, <2>1, <2>2, EpViewOne, NtViewSame, OpViewSame DEF Untouched
  <1>7. ASSUME NEW u \in Threads, ~alive[u] PROVE DeadStep(u)
    <2>0. u # t BY <1>r, <1>7
    <2>1. EpShrinks(u, e) BY <1>1, <1>3, <2>0 DEF EpShrinks, Snd, Rcv, Clr
    <2>2. \A o \in Objs : SweepPending(u, o) => SweepPending(u, o)' BY <1>2, OpViewSame
    <2>3. \A n \in Notifications : Wtr(u, n)' => Wtr(u, n) BY <1>2 DEF Wtr
    <2>4. wait'[u] = wait[u] /\ ipc'[u] = ipc[u] BY <1>0, <1>2, <2>0 DEF TypeOK
    <2> QED BY <1>1, <1>2, <1>7, <2>1, <2>2, <2>3, <2>4, DeadStepOne
  <1>8. ASSUME NEW x \in Endpoints
        PROVE  /\ Snd(t, x)' <=> Snd(t, x)
               /\ Rcv(t, x)' <=> Rcv(t, x) \/ x = e
               /\ Clr(t, x)' <=> Clr(t, x)
    <2>1. CASE x = e BY <1>1, <1>3, <1>r, <2>1 DEF Snd, Rcv, Clr
    <2>2. CASE x # e
      <3>1. ep'[x] = ep[x] BY <1>1, <2>2 DEF OnlyEp
      <3> QED BY <2>2, <3>1 DEF Snd, Rcv, Clr
    <2> QED BY <2>1, <2>2
  <1>9. NtView(t) /\ OpView(t) BY <1>2, NtViewSame, OpViewSame
  <1> QED BY <1>1, <1>4, <1>5, <1>6, <1>7, <1>8, <1>9

LEMMA RecvRefusedEffect ==
  ASSUME TypeInv, OpsTrue, NEW t \in Threads, NEW e \in Endpoints, RecvRefused(t, e),
         UNCHANGED world
  PROVE  /\ TypeInv' /\ OpsTrue' /\ (Single => Single')
         /\ \A u \in Threads : IF alive[u] THEN Untouched(u) ELSE DeadStep(u)
PROOF
  <1>0. TypeOK BY DEF TypeInv
  <1>1. /\ TypeInv' /\ OnlyEp(e)
        /\ ep'[e].receivers = ep[e].receivers /\ ep'[e].caller = ep[e].caller
        /\ Dropped(ep[e].senders, ep'[e].senders)
    BY RecvRefusedStep
  <1>2. /\ nt' = nt /\ alive' = alive /\ ipc' = ipc /\ frame' = frame /\ wait' = wait
        /\ serving' = serving /\ op' = op
    BY DEF RecvRefused, threadVars
  <1>3. /\ ToSet(ep'[e].senders) \subseteq ToSet(ep[e].senders)
        /\ \A u \in ToSet(ep[e].senders) : alive[u] => u \in ToSet(ep'[e].senders)
        /\ SingleIn(ep[e].senders) => SingleIn(ep'[e].senders)
    BY <1>0, <1>1, EpFields, DroppedSet
  <1>4. OpsTrue' BY <1>2, OpsSame
  <1>5. Single => Single' BY <1>1, <1>3, SingleOne DEF Single
  <1>6. ASSUME NEW u \in Threads, alive[u] PROVE Untouched(u)
    <2>1. /\ Snd(u, e)' <=> Snd(u, e)
          /\ Rcv(u, e)' <=> Rcv(u, e)
          /\ Clr(u, e)' <=> Clr(u, e)
      BY <1>1, <1>3, <1>6 DEF Snd, Rcv, Clr
    <2> QED BY <1>1, <1>2, <2>1, EpViewOne, NtViewSame, OpViewSame, ThreadViewSame DEF Untouched
  <1>7. ASSUME NEW u \in Threads, ~alive[u] PROVE DeadStep(u)
    <2>1. EpShrinks(u, e) BY <1>1, <1>3 DEF EpShrinks, Snd, Rcv, Clr
    <2>2. \A o \in Objs : SweepPending(u, o) => SweepPending(u, o)' BY <1>2, OpViewSame
    <2>3. \A n \in Notifications : Wtr(u, n)' => Wtr(u, n) BY <1>2 DEF Wtr
    <2> QED BY <1>1, <1>2, <1>7, <2>1, <2>2, <2>3, DeadStepOne
  <1> QED BY <1>1, <1>4, <1>5, <1>6, <1>7

\* A running server's debts are no part of what a step means to it.
LEMMA DebtView ==
  ASSUME TypeOK, NEW t \in Threads, wait[t] = User, NEW e \in Endpoints, NEW v,
         serving' = [serving EXCEPT ![t][e] = v],
         alive' = alive, ipc' = ipc, wait' = wait, NEW u \in Threads, frame'[u] = frame[u]
  PROVE  ThreadView(u)
PROOF
  <1>1. CASE u = t
    <2>1. wait[u].k # "recv" BY <1>1 DEF User
    <2> QED BY <2>1 DEF ThreadView
  <1>2. CASE u # t
    <2>1. serving'[u] = serving[u] BY <1>2 DEF TypeOK
    <2> QED BY <2>1 DEF ThreadView
  <1> QED BY <1>1, <1>2

LEMMA RecvRendezvousEffect ==
  ASSUME TypeInv, OpsTrue, NEW t \in Threads, NEW e \in Endpoints, RecvRendezvous(t, e),
         UNCHANGED world
  PROVE  /\ TypeInv' /\ OpsTrue' /\ (Single => Single') /\ OnlyEp(e)
         /\ \E c \in Threads :
              /\ Snd(c, e) /\ alive[c] /\ (Single => ~Snd(c, e)')
              /\ ep'[e].receivers = ep[e].receivers /\ ep'[e].caller = c /\ ep'[e].owner = t
              /\ ToSet(ep'[e].senders) \subseteq ToSet(ep[e].senders)
              /\ serving' = [serving EXCEPT ![t][e] = c]
              /\ \A u \in Threads :
                   IF alive[u]
                   THEN /\ NtView(u) /\ OpView(u) /\ ThreadView(u)
                        /\ u # c => EpLess(u, e)
                        /\ u # c /\ u # ep[e].caller => Untouched(u)
                   ELSE DeadStep(u)
PROOF
  <1>0. TypeOK BY DEF TypeInv
  <1>r. wait[t] = User BY RunningAbsent DEF RecvRendezvous
  <1>1. PICK c \in Threads :
              /\ Took(ep[e].senders, c, ep'[e].senders)
              /\ ep'[e].receivers = ep[e].receivers /\ ep'[e].caller = c /\ ep'[e].owner = t
              /\ serving' = [serving EXCEPT ![t][e] = c]
    BY RecvRendezvousStep
  <1>2. TypeInv' /\ OnlyEp(e) BY RecvRendezvousStep
  <1>3. /\ nt' = nt /\ alive' = alive /\ ipc' = ipc /\ frame' = frame /\ wait' = wait /\ op' = op
    BY DEF RecvRendezvous
  <1>4. OpsTrue' BY <1>3, OpsSame
  <1>5. /\ Snd(c, e) /\ alive[c] /\ (Single => ~Snd(c, e)') /\ (Single => Single')
        /\ ToSet(ep'[e].senders) \subseteq ToSet(ep[e].senders)
    <2>1. Single => SingleIn(ep'[e].receivers) /\ SingleIn(ep'[e].senders) /\ ~Snd(c, e)'
      BY <1>1 DEF Took, Single, Snd
    <2> QED BY <1>1, <1>2, <2>1, SingleOne DEF Took, Snd
  <1>6. ASSUME NEW u \in Threads, alive[u]
        PROVE  /\ NtView(u) /\ OpView(u) /\ ThreadView(u)
               /\ u # c => EpLess(u, e)
               /\ u # c /\ u # ep[e].caller => Untouched(u)
    <2>1. NtView(u) /\ OpView(u) BY <1>3, NtViewSame, OpViewSame
    <2>2. ThreadView(u) BY <1>0, <1>r, <1>1, <1>3, DebtView
    <2>3. ASSUME u # c PROVE EpLess(u, e) /\ (u # ep[e].caller => EpView(u))
      <3>1. /\ Snd(u, e)' <=> Snd(u, e)
            /\ Rcv(u, e)' <=> Rcv(u, e)
            /\ ~Clr(u, e)'
            /\ u # ep[e].caller => ~Clr(u, e)
        BY <1>1, <1>6, <2>3 DEF Snd, Rcv, Clr, Took
      <3> QED BY <1>2, <3>1, EpLessOne, EpViewOne
    <2> QED BY <2>1, <2>2, <2>3 DEF Untouched
  <1>7. ASSUME NEW u \in Threads, ~alive[u] PROVE DeadStep(u)
    <2>1. EpShrinks(u, e) BY <1>1, <1>5, <1>7 DEF EpShrinks, Snd, Rcv, Clr
    <2>2. \A o \in Objs : SweepPending(u, o) => SweepPending(u, o)' BY <1>3, OpViewSame
    <2>3. \A n \in Notifications : Wtr(u, n)' => Wtr(u, n) BY <1>3 DEF Wtr
    <2> QED BY <1>2, <1>3, <1>7, <2>1, <2>2, <2>3, DeadStepOne
  <1> QED BY <1>1, <1>2, <1>4, <1>5, <1>6, <1>7

LEMMA ReplyEffect ==
  ASSUME TypeInv, OpsTrue, NEW t \in Threads, NEW e \in Endpoints, Reply(t, e), UNCHANGED world
  PROVE  /\ TypeInv' /\ OpsTrue' /\ (Single => Single') /\ OnlyEp(e)
         /\ ep'[e].receivers = ep[e].receivers /\ ep'[e].senders = ep[e].senders
         /\ ep'[e].caller = None /\ ep'[e].owner = None
         /\ serving' = [serving EXCEPT ![t][e] = None]
         /\ \A u \in Threads :
              IF alive[u] THEN /\ EpLess(u, e) /\ NtView(u) /\ (u # ep[e].caller => Untouched(u))
                               /\ Snd(u, e)' <=> Snd(u, e)
                               /\ Rcv(u, e)' <=> Rcv(u, e)
                          ELSE DeadStep(u)
         /\ \/ /\ ep[e].caller \in Threads /\ alive[ep[e].caller] /\ ipc[ep[e].caller]
               /\ frame' = [frame EXCEPT ![ep[e].caller] =
                              [res |-> "OK", from |-> serving[t][e], bits |-> {}]]
               /\ OnlyCore(CoreOf[t]) /\ op'[CoreOf[t]].k = "wake" /\ op'[CoreOf[t]].obj = e
               /\ op'[CoreOf[t]].to = ep[e].caller /\ op'[CoreOf[t]].self = None
               /\ op'[CoreOf[t]].todo = {} /\ op'[CoreOf[t]].orphans = {}
            \/ /\ frame' = frame /\ op' = op
               /\ ep[e].caller = None \/ ~alive[ep[e].caller] \/ ~ipc[ep[e].caller]
               /\ \A u \in Threads : OpView(u) /\ ThreadView(u)
PROOF
  <1> DEFINE c == CoreOf[t]
             w == ep[e].caller
  <1>0. TypeOK /\ e \in Objs BY DEF TypeInv, Objs
  <1>r. c \in Cores /\ Free(c) /\ alive[t] /\ Unlocked(e) /\ wait[t] = User
    BY RunningAbsent DEF Reply
  <1>1. /\ TypeInv' /\ OnlyEp(e)
        /\ ep'[e].receivers = ep[e].receivers /\ ep'[e].senders = ep[e].senders
        /\ ep'[e].caller = None /\ ep'[e].owner = None
        /\ serving' = [serving EXCEPT ![t][e] = None]
    BY ReplyStep
  <1>2. \/ /\ w \in Threads /\ alive[w] /\ ipc[w]
           /\ frame' = [frame EXCEPT ![w] = [res |-> "OK", from |-> serving[t][e], bits |-> {}]]
           /\ op' = [op EXCEPT ![c] = Waking(e, w, None)]
        \/ /\ frame' = frame /\ op' = op
           /\ w = None \/ ~alive[w] \/ ~ipc[w]
    BY ReplyStep
  <1>3. nt' = nt /\ alive' = alive /\ ipc' = ipc /\ wait' = wait BY DEF Reply
  <1> HIDE DEF c
  <1>4. ASSUME w \in Threads, op' = [op EXCEPT ![c] = Waking(e, w, None)]
        PROVE  /\ OpsTrue' /\ OnlyCore(c) /\ op'[c].k = "wake" /\ op'[c].obj = e /\ op'[c].to = w
               /\ op'[c].self = None /\ op'[c].todo = {} /\ op'[c].orphans = {}
               /\ \A u \in Threads : u # w => OpView(u)
               /\ \A u \in Threads : \A x \in Objs : SweepPending(u, x) => SweepPending(u, x)'
    <2>1. None \in Threads \cup {None} OBVIOUS
    <2>2. /\ OpsTrue' /\ OnlyCore(c) /\ op'[c].k = "wake" /\ op'[c].obj = e /\ op'[c].to = w
          /\ op'[c].self = None /\ op'[c].todo = {} /\ op'[c].orphans = {}
          /\ \A u \in Threads : u # w /\ u # None => OpView(u)
          /\ \A u \in Threads : \A x \in Objs : SweepPending(u, x) => SweepPending(u, x)'
      <3> HIDE DEF w
      <3> QED BY <1>0, <1>r, <1>3, <1>4, <2>1, WakingBegins
    <2> QED BY <2>2
  <1>5. Single => Single' BY <1>1, SingleOne DEF Single
  <1>6. /\ OpsTrue'
        /\ \A u \in Threads : u # w => OpView(u) /\ ThreadView(u)
        /\ \A u \in Threads : \A x \in Objs : SweepPending(u, x) => SweepPending(u, x)'
    <2>1. CASE /\ w \in Threads
               /\ frame' = [frame EXCEPT ![w] = [res |-> "OK", from |-> serving[t][e], bits |-> {}]]
               /\ op' = [op EXCEPT ![c] = Waking(e, w, None)]
      <3>1. ASSUME NEW u \in Threads, u # w PROVE ThreadView(u)
        <4>1. frame'[u] = frame[u] BY <1>0, <2>1, <3>1 DEF TypeOK
        <4> QED BY <1>0, <1>r, <1>1, <1>3, <4>1, DebtView
      <3> QED BY <1>4, <2>1, <3>1
    <2>2. CASE frame' = frame /\ op' = op
      <3>1. ASSUME NEW u \in Threads PROVE ThreadView(u)
        BY <1>0, <1>r, <1>1, <1>3, <2>2, DebtView
      <3> QED BY <1>3, <2>2, <3>1, OpsSame, OpViewSame
    <2> QED BY <1>2, <2>1, <2>2
  <1>7. ASSUME NEW u \in Threads, alive[u]
        PROVE  /\ EpLess(u, e) /\ NtView(u) /\ (u # w => Untouched(u))
               /\ Snd(u, e)' <=> Snd(u, e)
               /\ Rcv(u, e)' <=> Rcv(u, e)
    <2>1. /\ Snd(u, e)' <=> Snd(u, e)
          /\ Rcv(u, e)' <=> Rcv(u, e)
          /\ ~Clr(u, e)'
          /\ u # w => ~Clr(u, e)
      BY <1>1, <1>7 DEF Snd, Rcv, Clr
    <2>2. EpLess(u, e) /\ NtView(u) BY <1>1, <1>3, <2>1, EpLessOne, NtViewSame
    <2>3. u # w => EpView(u) BY <1>1, <2>1, EpViewOne
    <2> QED BY <1>6, <2>1, <2>2, <2>3 DEF Untouched
  <1>8. ASSUME NEW u \in Threads, ~alive[u] PROVE DeadStep(u)
    <2>1. EpShrinks(u, e) BY <1>1 DEF EpShrinks, Snd, Rcv, Clr
    <2>3. \A n \in Notifications : Wtr(u, n)' => Wtr(u, n) BY <1>3 DEF Wtr
    <2> QED BY <1>1, <1>3, <1>6, <1>8, <2>1, <2>3, DeadStepOne
  <1>9. CASE /\ w \in Threads /\ alive[w] /\ ipc[w]
             /\ frame' = [frame EXCEPT ![w] = [res |-> "OK", from |-> serving[t][e], bits |-> {}]]
             /\ op' = [op EXCEPT ![c] = Waking(e, w, None)]
    BY <1>1, <1>4, <1>5, <1>6, <1>7, <1>8, <1>9 DEF c
  <1>10. CASE /\ frame' = frame /\ op' = op
              /\ w = None \/ ~alive[w] \/ ~ipc[w]
    <2>1. ASSUME NEW u \in Threads PROVE OpView(u) /\ ThreadView(u)
      BY <1>0, <1>r, <1>1, <1>3, <1>10, DebtView, OpViewSame
    <2> QED BY <1>1, <1>5, <1>6, <1>7, <1>8, <1>10, <2>1
  <1> QED BY <1>2, <1>9, <1>10

LEMMA WakeEffect ==
  ASSUME TypeInv, OpsTrue, NEW c \in Cores, Wake(c), UNCHANGED world
  PROVE  /\ TypeInv' /\ OpsTrue' /\ OnlyCore(c) /\ op'[c] = Idle
         /\ \A u \in Threads :
              /\ Absent(u, c)' /\ EpView(u) /\ NtView(u)
              /\ IF alive[u] THEN u # op[c].to /\ u # op[c].self => Untouched(u) ELSE DeadStep(u)
PROOF
  <1>0. TypeOK BY DEF TypeInv
  <1>1. TypeInv' BY WakeStep
  <1>2. /\ ep' = ep /\ nt' = nt /\ alive' = alive /\ frame' = frame /\ wait' = wait
        /\ serving' = serving
        /\ ipc' = [t \in Threads |-> (t = op[c].self) \/ (ipc[t] /\ t # op[c].to)]
        /\ op' = [op EXCEPT ![c] = Idle] /\ op[c].k = "wake"
    BY DEF Wake
  <1>3. op'[c] = Idle /\ OnlyCore(c) BY <1>0, <1>2, IdleTyped, OpTyped DEF OnlyCore
  <1>4. /\ op[c].todo = {} /\ op[c].orphans = {}
        /\ op[c].self # None => op[c].self \in Threads /\ alive[op[c].self]
    BY <1>2 DEF OpsTrue, OpOK
  <1>5. OpsTrue'
    <2>1. OpOK(c)' /\ op'[c].obj = None BY <1>3, IdleOK
    <2> QED BY <1>2, <1>3, <2>1, OpsOne
  <1>6. ASSUME NEW u \in Threads PROVE Absent(u, c)' /\ EpView(u) /\ NtView(u)
    BY <1>2, <1>3, IdleAbsent, EpViewSame, NtViewSame
  <1>7. ASSUME NEW u \in Threads, u # op[c].to, u # op[c].self PROVE Untouched(u)
    <2>1. Absent(u, c) BY <1>4, <1>7 DEF Absent, Tgt, Orp
    <2>2. ThreadView(u) BY <1>0, <1>2, <1>7 DEF ThreadView, TypeOK
    <2> QED BY <1>3, <1>6, <2>1, <2>2, OpViewAbsent DEF Untouched
  <1>8. ASSUME NEW u \in Threads, ~alive[u] PROVE DeadStep(u)
    <2>1. u # op[c].self BY <1>4, <1>8
    <2>2. ipc'[u] => ipc[u] BY <1>2, <2>1
    <2>3. ASSUME NEW o \in Objs, SweepPending(u, o) PROVE SweepPending(u, o)'
      BY <1>2, <1>3, <1>4, <2>3, PendingOne
    <2>4. \A n \in Notifications : Wtr(u, n)' => Wtr(u, n) BY <1>2 DEF Wtr
    <2> QED BY <1>2, <1>8, <2>2, <2>3, <2>4, DeadStepSame
  <1> QED BY <1>1, <1>3, <1>5, <1>6, <1>7, <1>8

\* Nothing but the variables no view is about.
LEMMA StillEffect ==
  ASSUME OpsTrue, ep' = ep, op' = op, alive' = alive, ipc' = ipc, wait' = wait, frame' = frame,
         serving' = serving, \A u \in Threads : NtView(u)
  PROVE  /\ OpsTrue'
         /\ \A u \in Threads : Untouched(u) /\ (~alive[u] => DeadStep(u))
PROOF
  <1>1. OpsTrue' BY OpsSame
  <1>2. ASSUME NEW u \in Threads PROVE Untouched(u)
    BY EpViewSame, OpViewSame, ThreadViewSame DEF Untouched
  <1>3. ASSUME NEW u \in Threads, ~alive[u] PROVE DeadStep(u)
    <2>1. \A o \in Objs : SweepPending(u, o) => SweepPending(u, o)' BY OpViewSame
    <2>2. \A n \in Notifications : Wtr(u, n)' => Wtr(u, n) BY DEF NtView
    <2> QED BY <1>3, <2>1, <2>2, DeadStepSame
  <1> QED BY <1>1, <1>2, <1>3

LEMMA SwitchToDeadEffect ==
  ASSUME TypeInv, OpsTrue, NEW c \in Cores, SwitchToDead(c), UNCHANGED world
  PROVE  /\ TypeInv' /\ OpsTrue'
         /\ \A u \in Threads : Untouched(u) /\ (~alive[u] => DeadStep(u))
PROOF
  <1>1. TypeInv' BY SwitchToDeadStep
  <1>2. /\ ep' = ep /\ nt' = nt /\ alive' = alive /\ frame' = frame /\ wait' = wait
        /\ serving' = serving /\ ipc' = ipc /\ op' = op
    BY DEF SwitchToDead, threadVars
  <1> QED BY <1>1, <1>2, NtViewSame, StillEffect

LEMMA WaitReturnsEffect ==
  ASSUME TypeInv, OpsTrue, NEW t \in Threads, NEW n \in Notifications, NEW tm \in BOOLEAN,
         WaitReturns(t, n, tm), UNCHANGED world
  PROVE  /\ TypeInv' /\ OpsTrue'
         /\ \A u \in Threads : Untouched(u) /\ (~alive[u] => DeadStep(u))
PROOF
  <1>0. TypeOK BY DEF TypeInv
  <1>1. TypeInv' BY WaitReturnsStep
  <1>2. /\ ep' = ep /\ alive' = alive /\ frame' = frame /\ wait' = wait
        /\ serving' = serving /\ ipc' = ipc /\ op' = op
        /\ nt' = [nt EXCEPT ![n].pending = {}]
    BY DEF WaitReturns
  <1>3. ASSUME NEW u \in Threads PROVE NtView(u)
    <2>1. \A m \in Notifications : nt'[m].waiter = nt[m].waiter
      BY <1>0, <1>2 DEF TypeOK, Notification
    <2> QED BY <2>1 DEF NtView, Wtr
  <1> QED BY <1>1, <1>2, <1>3, StillEffect

LEMMA WaitBlocksEffect ==
  ASSUME TypeInv, OpsTrue, NEW t \in Threads, NEW n \in Notifications, NEW tm \in BOOLEAN,
         WaitBlocks(t, n, tm), UNCHANGED world
  PROVE  /\ TypeInv' /\ OpsTrue'
         /\ \A u \in Threads : u # t => IF alive[u] THEN Untouched(u) ELSE DeadStep(u)
         /\ EpView(t) /\ OpView(t)
         /\ \A x \in Notifications : Wtr(t, x)' <=> Wtr(t, x) \/ x = n
PROOF
  <1>0. TypeOK BY DEF TypeInv
  <1>r. alive[t] BY RunningAbsent DEF WaitBlocks
  <1>1. TypeInv' BY WaitBlocksStep
  <1>2. /\ ep' = ep /\ alive' = alive /\ frame' = frame /\ serving' = serving /\ op' = op
        /\ nt' = [nt EXCEPT ![n].waiter = t] /\ nt[n].waiter = None
        /\ ipc' = [ipc EXCEPT ![t] = TRUE]
        /\ wait' = [wait EXCEPT ![t] = [k |-> "wait", obj |-> n, timed |-> tm]]
    BY DEF WaitBlocks
  <1>3. /\ nt'[n].waiter = t
        /\ \A x \in Notifications : x # n => nt'[x] = nt[x]
    BY <1>0, <1>2 DEF TypeOK, Notification
  <1>4. ASSUME NEW u \in Threads, u # t PROVE NtView(u)
    BY <1>2, <1>3, <1>4 DEF NtView, Wtr
  <1>5. \A x \in Notifications : Wtr(t, x)' <=> Wtr(t, x) \/ x = n BY <1>3 DEF Wtr
  <1>6. OpsTrue' BY <1>2, OpsSame
  <1>7. ASSUME NEW u \in Threads, u # t PROVE Untouched(u)
    <2>1. ThreadView(u) BY <1>0, <1>2, <1>7 DEF ThreadView, TypeOK
    <2> QED BY <1>2, <1>4, <1>7, <2>1, EpViewSame, OpViewSame DEF Untouched
  <1>8. ASSUME NEW u \in Threads, ~alive[u] PROVE DeadStep(u)
    <2>0. u # t BY <1>r, <1>8
    <2>1. \A o \in Objs : SweepPending(u, o) => SweepPending(u, o)' BY <1>2, OpViewSame
    <2>2. \A x \in Notifications : Wtr(u, x)' => Wtr(u, x) BY <1>4, <2>0 DEF NtView
    <2>3. wait'[u] = wait[u] /\ ipc'[u] = ipc[u] BY <1>0, <1>2, <2>0 DEF TypeOK
    <2> QED BY <1>2, <1>8, <2>1, <2>2, <2>3, DeadStepSame
  <1> QED BY <1>1, <1>2, <1>5, <1>6, <1>7, <1>8, EpViewSame, OpViewSame

LEMMA SignalEffect ==
  ASSUME TypeInv, OpsTrue, NEW c \in Cores, NEW n \in Notifications, NEW b \in world.badges,
         Signal(c, n, b), UNCHANGED world
  PROVE  LET w == nt[n].waiter IN
         /\ TypeInv' /\ OpsTrue'
         /\ \A u \in Threads :
              IF alive[u] THEN EpView(u) /\ (u # w => Untouched(u)) ELSE DeadStep(u)
         /\ \A u \in Threads, x \in Notifications : Wtr(u, x)' <=> Wtr(u, x) /\ x # n
         /\ w # None =>
              /\ w \in Threads /\ OnlyCore(c) /\ op'[c].k = "wake" /\ op'[c].obj = n
              /\ op'[c].to = w /\ op'[c].self = None /\ op'[c].todo = {} /\ op'[c].orphans = {}
              /\ alive[w] => frame' = [frame EXCEPT ![w] =
                               [res |-> "OK", from |-> None, bits |-> nt[n].pending \cup {b}]]
PROOF
  <1> DEFINE w == nt[n].waiter
  <1>0. TypeOK /\ n \in Objs /\ w \in Threads \cup {None} BY NtFields DEF TypeInv
  <1>1. TypeInv' BY SignalStep
  <1>r. Free(c) /\ Unlocked(n) BY DEF Signal
  <1>2. /\ ep' = ep /\ alive' = alive /\ wait' = wait /\ serving' = serving /\ ipc' = ipc
        /\ nt' = [nt EXCEPT ![n] = [pending |-> PendingLeft(w, nt[n].pending \cup {b}),
                                    waiter |-> None]]
        /\ frame' = IF w # None /\ alive[w]
                    THEN [frame EXCEPT ![w] =
                            [res |-> "OK", from |-> None, bits |-> nt[n].pending \cup {b}]]
                    ELSE frame
        /\ op' = IF w # None THEN [op EXCEPT ![c] = Waking(n, w, None)] ELSE op
    BY DEF Signal
  <1>3. /\ nt'[n].waiter = None
        /\ \A x \in Notifications : x # n => nt'[x] = nt[x]
    BY <1>0, <1>2 DEF TypeOK
  <1>4. \A u \in Threads, x \in Notifications : Wtr(u, x)' <=> Wtr(u, x) /\ x # n
    BY <1>3 DEF Wtr
  <1>5. ASSUME w # None
        PROVE  /\ OpsTrue' /\ OnlyCore(c) /\ op'[c].k = "wake" /\ op'[c].obj = n /\ op'[c].to = w
               /\ op'[c].self = None /\ op'[c].todo = {} /\ op'[c].orphans = {}
               /\ \A u \in Threads : u # w => OpView(u)
               /\ \A u \in Threads : \A x \in Objs : SweepPending(u, x) => SweepPending(u, x)'
    <2>1. None \in Threads \cup {None} /\ w \in Threads BY <1>0, <1>5
    <2>a. op' = [op EXCEPT ![c] = Waking(n, w, None)] BY <1>2, <1>5
    <2>2. /\ OpsTrue' /\ OnlyCore(c) /\ op'[c].k = "wake" /\ op'[c].obj = n /\ op'[c].to = w
          /\ op'[c].self = None /\ op'[c].todo = {} /\ op'[c].orphans = {}
          /\ \A u \in Threads : u # w /\ u # None => OpView(u)
          /\ \A u \in Threads : \A x \in Objs : SweepPending(u, x) => SweepPending(u, x)'
      <3>1. alive' = alive BY <1>2
      <3> HIDE DEF w
      <3> QED BY <1>0, <1>r, <2>1, <2>a, <3>1, WakingBegins
    <2> QED BY <2>2
  <1>6. /\ OpsTrue'
        /\ \A u \in Threads : u # w => OpView(u)
        /\ \A u \in Threads : \A x \in Objs : SweepPending(u, x) => SweepPending(u, x)'
    <2>1. CASE w = None
      <3>1. op' = op /\ alive' = alive BY <1>2, <2>1
      <3> QED BY <3>1, OpsSame, OpViewSame
    <2> QED BY <1>5, <2>1
  <1>7. ASSUME NEW u \in Threads, u # w PROVE Untouched(u)
    <2>1. NtView(u) BY <1>4, <1>7 DEF NtView, Wtr
    <2>2. ThreadView(u)
      <3>1. frame'[u] = frame[u] BY <1>0, <1>2, <1>7 DEF TypeOK
      <3> QED BY <1>2, <3>1 DEF ThreadView
    <2> QED BY <1>2, <1>6, <1>7, <2>1, <2>2, EpViewSame DEF Untouched
  <1>8. ASSUME NEW u \in Threads, ~alive[u] PROVE DeadStep(u)
    <2>1. \A x \in Notifications : Wtr(u, x)' => Wtr(u, x) BY <1>4
    <2> QED BY <1>2, <1>6, <1>8, <2>1, DeadStepSame
  <1>9. \A u \in Threads : EpView(u) BY <1>2, EpViewSame
  <1>10. w # None /\ alive[w] => frame' = [frame EXCEPT ![w] =
                               [res |-> "OK", from |-> None, bits |-> nt[n].pending \cup {b}]]
    BY <1>2
  <1> QED BY <1>0, <1>1, <1>4, <1>5, <1>6, <1>7, <1>8, <1>9, <1>10

LEMMA ReturnEffect ==
  ASSUME TypeInv, OpsTrue, NEW t \in Threads, Return(t), UNCHANGED world
  PROVE  /\ TypeInv' /\ OpsTrue'
         /\ \A u \in Threads : u # t => Untouched(u) /\ (~alive[u] => DeadStep(u))
         /\ EpView(t) /\ NtView(t) /\ OpView(t)
         /\ alive'[t] /\ ~ipc'[t] /\ wait'[t] = User /\ frame'[t] = NoFrame
PROOF
  <1>0. TypeOK BY DEF TypeInv
  <1>1. TypeInv' BY ReturnStep
  <1>2. /\ ep' = ep /\ nt' = nt /\ alive' = alive /\ ipc' = ipc /\ op' = op
        /\ wait' = [wait EXCEPT ![t] = User] /\ alive[t] /\ ~ipc[t]
    BY DEF Return
  <1>3. \A u \in Threads : EpView(u) /\ NtView(u) /\ OpView(u)
    BY <1>2, EpViewSame, NtViewSame, OpViewSame
  <1>4. OpsTrue' BY <1>2, OpsSame
  <1>5. ASSUME NEW u \in Threads, u # t PROVE Untouched(u)
    <2>1. frame[u] \in Frame /\ None # "stale" /\ NoFrame.from = None
      BY <1>0 DEF TypeOK, None, NoFrame
    <2>2. \/ frame'[u] = frame[u]
          \/ frame[u].from = t /\ frame'[u] = [frame[u] EXCEPT !.from = "stale"]
      BY <1>5 DEF Return
    <2>3. /\ frame'[u].res = frame[u].res /\ frame'[u].bits = frame[u].bits
          /\ frame'[u] = NoFrame <=> frame[u] = NoFrame
          /\ frame'[u].from = None <=> frame[u].from = None
      <3>1. CASE frame'[u] = frame[u] BY <3>1
      <3>2. CASE frame[u].from = t /\ frame'[u] = [frame[u] EXCEPT !.from = "stale"]
        <4>1. frame'[u].from = "stale" /\ frame'[u].res = frame[u].res
              /\ frame'[u].bits = frame[u].bits
          BY <2>1, <3>2 DEF Frame
        <4>2. t # None OBVIOUS
        <4> QED BY <2>1, <3>2, <4>1, <4>2
      <3> QED BY <2>2, <3>1, <3>2
    <2>4. \A e \in Endpoints : serving'[u][e] = None <=> serving[u][e] = None
      <3> TAKE e \in Endpoints
      <3>1. serving'[u][e] = IF serving[u][e] = t /\ wait[t].k = "call" THEN "stale"
                             ELSE serving[u][e]
        BY <1>5 DEF Return
      <3> QED BY <2>1, <3>1
    <2>5. ThreadView(u) BY <1>0, <1>2, <1>5, <2>3, <2>4 DEF ThreadView, TypeOK
    <2> QED BY <1>3, <2>5 DEF Untouched
  <1>6. ASSUME NEW u \in Threads, ~alive[u] PROVE DeadStep(u)
    <2>1. \A o \in Objs : SweepPending(u, o) => SweepPending(u, o)' BY <1>2, OpViewSame
    <2>2. \A x \in Notifications : Wtr(u, x)' => Wtr(u, x) BY <1>3 DEF NtView
    <2>3. wait'[u] = wait[u] BY <1>0, <1>2, <1>6 DEF TypeOK
    <2> QED BY <1>2, <1>6, <2>1, <2>2, <2>3, DeadStepSame
  <1>7. alive'[t] /\ ~ipc'[t] /\ wait'[t] = User BY <1>0, <1>2 DEF TypeOK
  <1>8. frame'[t] = NoFrame BY DEF Return
  <1> QED BY <1>1, <1>3, <1>4, <1>5, <1>6, <1>7, <1>8

LEMMA TickEffect ==
  ASSUME TypeInv, OpsTrue, NEW c \in Cores, NEW D \in SUBSET Armed(c), Tick(c, D), UNCHANGED world
  PROVE  /\ TypeInv' /\ OpsTrue'
         /\ \A u \in Threads : IF u \in D /\ ipc[u]
              THEN /\ alive[u] /\ frist[u] /\ CoreOf[u] = c /\ EpView(u) /\ NtView(u)
                   /\ alive'[u] /\ ~ipc'[u] /\ wait'[u] = wait[u] /\ serving'[u] = serving[u]
                   /\ frame'[u].res = "TIMEOUT" /\ frame'[u].from = frame[u].from
                   /\ frame'[u].bits = frame[u].bits
                   /\ \A d \in Cores : /\ Tgt(u, d)' <=> Tgt(u, d)
                                       /\ Tgt(u, d) => op'[d] = op[d]
                                       /\ Orp(u, d)' <=> Orp(u, d)
                                       /\ \A o \in Objs : OffAt(u, o, d)' <=> d = c \/ OffAt(u, o, d)
                   /\ ~Self(u) /\ ~Self(u)'
              ELSE IF alive[u] THEN Untouched(u) ELSE DeadStep(u)
PROOF
  <1> DEFINE R == {t \in D : Released(t, D)}
             todo == SignOff(R)
  <1>0. TypeOK BY DEF TypeInv
  <1>1. TypeInv' BY TickStep
  <1>r. Free(c) BY DEF Tick
  <1>2. /\ ep' = ep /\ nt' = nt /\ alive' = alive /\ wait' = wait /\ serving' = serving
        /\ ipc' = [t \in Threads |-> ipc[t] /\ ~Released(t, D)]
        /\ frame' = [t \in Threads |-> IF Released(t, D) THEN TimeoutFrame(t) ELSE frame[t]]
        /\ op' = IF todo = {} THEN op ELSE [op EXCEPT ![c] = Purging(todo)]
    BY DEF Tick, Purging
  <1>3. D \subseteq Threads /\ \A u \in D : alive[u] /\ frist[u] /\ CoreOf[u] = c
    BY DEF Armed
  <1>4. \A u \in Threads : u \in R <=> u \in D /\ ipc[u] BY DEF Released
  <1>5. /\ todo \in SUBSET (Threads \X Objs)
        /\ \A u \in Threads : \A o \in Objs : <<u, o>> \in todo <=> u \in R
    BY <1>3 DEF SignOff
  <1> HIDE DEF R, todo
  <1>6. /\ OpsTrue' /\ OnlyCore(c) /\ op'[c].obj = None /\ op'[c].to = None
        /\ op'[c].self = None /\ op'[c].orphans = {} /\ op'[c].todo = todo
        /\ todo # {} => op'[c].k = "purge"
        /\ todo = {} => op'[c].k = "idle"
    <2>1. CASE todo = {}
      <3>1. op' = op BY <1>2, <2>1
      <3> QED BY <1>r, <1>2, <2>1, <3>1, FreeFields, OpsSame DEF OnlyCore
    <2>2. CASE todo # {}
      <3>1. op' = [op EXCEPT ![c] = Purging(todo)] BY <1>2, <2>2
      <3>2. /\ OpOK(c)' /\ OnlyCore(c) /\ op'[c].k = "purge" /\ op'[c].obj = None
            /\ op'[c].to = None /\ op'[c].self = None /\ op'[c].todo = todo /\ op'[c].orphans = {}
        BY <1>0, <1>5, <3>1, PurgingOK
      <3> QED BY <1>2, <2>2, <3>2, OpsOne
    <2> QED BY <2>1, <2>2
  <1>7. ASSUME NEW u \in Threads, ~(u \in D /\ ipc[u]) PROVE Untouched(u)
    <2>1. Absent(u, c) BY <1>r, FreeAbsent
    <2>2. u \notin R BY <1>4, <1>7
    <2>3. Absent(u, c)'
      <3>1. \A o \in Objs : <<u, o>> \notin op'[c].todo BY <1>5, <1>6, <2>2
      <3>2. op'[c].k # "wake" BY <1>6
      <3> QED BY <1>6, <3>1, <3>2 DEF Absent, Tgt, Orp
    <2>4. ThreadView(u) BY <1>0, <1>2, <1>7 DEF ThreadView, TypeOK, Released
    <2> QED BY <1>2, <1>6, <2>1, <2>3, <2>4, OpViewAbsent, EpViewSame, NtViewSame DEF Untouched
  <1>8. ASSUME NEW u \in Threads, ~alive[u] PROVE DeadStep(u)
    <2>0. op[c].k = "idle" /\ op[c].todo = {} BY <1>r, FreeFields
    <2>1. ASSUME NEW o \in Objs, SweepPending(u, o) PROVE SweepPending(u, o)'
      BY <1>6, <2>0, <2>1, PendingOne
    <2>2. \A x \in Notifications : Wtr(u, x)' => Wtr(u, x) BY <1>2 DEF Wtr
    <2>3. ipc'[u] => ipc[u] BY <1>2
    <2> QED BY <1>2, <1>8, <2>1, <2>2, <2>3, DeadStepSame
  <1>9. ASSUME NEW u \in Threads, u \in D, ipc[u]
        PROVE  /\ alive[u] /\ frist[u] /\ CoreOf[u] = c /\ EpView(u) /\ NtView(u)
               /\ alive'[u] /\ ~ipc'[u] /\ wait'[u] = wait[u] /\ serving'[u] = serving[u]
               /\ frame'[u].res = "TIMEOUT" /\ frame'[u].from = frame[u].from
               /\ frame'[u].bits = frame[u].bits
               /\ \A d \in Cores : /\ Tgt(u, d)' <=> Tgt(u, d)
                                   /\ Tgt(u, d) => op'[d] = op[d]
                                   /\ Orp(u, d)' <=> Orp(u, d)
                                   /\ \A o \in Objs : OffAt(u, o, d)' <=> d = c \/ OffAt(u, o, d)
               /\ ~Self(u) /\ ~Self(u)'
    <2>1. alive[u] /\ frist[u] /\ CoreOf[u] = c BY <1>3, <1>9
    <2>2. EpView(u) /\ NtView(u) BY <1>2, EpViewSame, NtViewSame
    <2>3. Released(u, D) BY <1>9 DEF Released
    <2>4. ~ipc'[u] /\ frame'[u] = TimeoutFrame(u) BY <1>2, <2>3
    <2>5. /\ frame'[u].res = "TIMEOUT" /\ frame'[u].from = frame[u].from
          /\ frame'[u].bits = frame[u].bits
      <3>1. frame[u] \in Frame BY <1>0 DEF TypeOK
      <3> QED BY <2>4, <3>1 DEF TimeoutFrame, Frame
    <2>6. /\ op[c].k = "idle" /\ op[c].self = None /\ op[c].orphans = {} BY <1>r, FreeFields
    <2>7. ~Self(u) /\ ~Self(u)' BY <1>6, <2>1, <2>6 DEF Self
    <2>8. ASSUME NEW d \in Cores
          PROVE  /\ Tgt(u, d)' <=> Tgt(u, d)
                 /\ Tgt(u, d) => op'[d] = op[d]
                 /\ Orp(u, d)' <=> Orp(u, d)
                 /\ \A o \in Objs : OffAt(u, o, d)' <=> d = c \/ OffAt(u, o, d)
      <3>1. CASE d = c
        <4>1. ~Tgt(u, d) /\ ~Tgt(u, d)' /\ ~Orp(u, d) /\ ~Orp(u, d)'
          BY <1>6, <2>6, <3>1 DEF Tgt, Orp
        <4>2. \A o \in Objs : OffAt(u, o, d)'
          BY <1>4, <1>5, <1>6, <1>9, <3>1 DEF OffAt
        <4> QED BY <3>1, <4>1, <4>2
      <3>2. CASE d # c
        <4>1. op'[d] = op[d] BY <1>6, <3>2 DEF OnlyCore
        <4> QED BY <3>2, <4>1 DEF Tgt, Orp, OffAt
      <3> QED BY <3>1, <3>2
    <2> QED BY <1>2, <2>1, <2>2, <2>4, <2>5, <2>7, <2>8
  <1> QED BY <1>1, <1>6, <1>7, <1>8, <1>9

\* What purge_thread does to the entries at one endpoint.
LEMMA PurgedEntries ==
  ASSUME TypeInv, NEW e \in Endpoints, NEW t \in Threads,
         ep'[e].senders = PurgedEp(ep[e], t).senders,
         ep'[e].receivers = PurgedEp(ep[e], t).receivers
  PROVE  /\ \A u \in Threads : /\ Snd(u, e)' <=> Snd(u, e) /\ u # t
                               /\ Rcv(u, e)' <=> Rcv(u, e) /\ u # t
         /\ SingleIn(ep[e].senders) => SingleIn(ep'[e].senders)
         /\ SingleIn(ep[e].receivers) => SingleIn(ep'[e].receivers)
PROOF
  <1>0. TypeOK BY DEF TypeInv
  <1>1. ep[e].senders \in Seq(Threads) /\ ep[e].receivers \in Seq(Threads) BY <1>0, EpFields
  <1>2. /\ ep'[e].senders = Without(ep[e].senders, t)
        /\ ep'[e].receivers = Without(ep[e].receivers, t)
    BY PurgedTyped
  <1>3. /\ ToSet(ep'[e].senders) = ToSet(ep[e].senders) \ {t}
        /\ ToSet(ep'[e].receivers) = ToSet(ep[e].receivers) \ {t}
    BY <1>1, <1>2, WithoutLeaves
  <1>4. /\ SingleIn(ep[e].senders) => SingleIn(ep'[e].senders)
        /\ SingleIn(ep[e].receivers) => SingleIn(ep'[e].receivers)
    BY <1>1, <1>2, WithoutSingle
  <1> QED BY <1>3, <1>4 DEF Snd, Rcv

LEMMA PurgeEffect ==
  ASSUME TypeInv, OpsTrue, NEW c \in Cores, NEW t \in Threads, NEW o \in Objs, Purge(c, t, o),
         UNCHANGED world
  PROVE  /\ TypeInv' /\ OpsTrue' /\ (Single => Single') /\ OffAt(t, o, c) /\ Unlocked(o)
         /\ \A u \in Threads : alive[u] /\ u # t => Untouched(u)
         /\ \A u \in Threads : ~alive[u] => DeadStep(u)
         /\ ThreadView(t)
         /\ \A x \in Endpoints : /\ Snd(t, x)' <=> Snd(t, x) /\ x # o
                                 /\ Rcv(t, x)' <=> Rcv(t, x) /\ x # o
                                 /\ Clr(t, x)' <=> Clr(t, x) /\ x # o
         /\ \A x \in Notifications : Wtr(t, x)' <=> Wtr(t, x) /\ x # o
         /\ \A d \in Cores : /\ Tgt(t, d)' <=> Tgt(t, d)
                             /\ Tgt(t, d) => op'[d].obj = op[d].obj /\ op'[d].self = op[d].self
                             /\ Orp(t, d)' <=> Orp(t, d)
                             /\ \A x \in Objs :
                                  OffAt(t, x, d)' <=> OffAt(t, x, d) /\ ~(x = o /\ d = c)
         /\ (Self(t)' <=> Self(t))
         /\ Self(t) => op'[CoreOf[t]].obj = op[CoreOf[t]].obj
PROOF
  <1>0. TypeOK BY DEF TypeInv
  <1>1. /\ TypeInv'
        /\ o \in Endpoints => OnlyEp(o) /\ ep'[o] = PurgedEp(ep[o], t)
        /\ o \notin Endpoints => ep' = ep
    BY PurgeStep
  <1>2. /\ alive' = alive /\ ipc' = ipc /\ wait' = wait /\ serving' = serving /\ frame' = frame
        /\ op[c].k = "purge" /\ <<t, o>> \in op[c].todo /\ Unlocked(o)
        /\ nt' = IF o \in Notifications /\ nt[o].waiter = t
                 THEN [nt EXCEPT ![o].waiter = None] ELSE nt
    BY DEF Purge, threadVars
  <1>3. /\ OnlyCore(c)
        /\ \/ op[c].todo = {<<t, o>>} /\ op'[c] = Idle
           \/ /\ op'[c].k = op[c].k /\ op'[c].obj = op[c].obj
              /\ op'[c].self = op[c].self /\ op'[c].to = op[c].to
              /\ op'[c].todo = op[c].todo \ {<<t, o>>} /\ op'[c].orphans = op[c].orphans
    <2>1. op' = [op EXCEPT ![c] = IF op[c].todo = {<<t, o>>} THEN Idle
                                  ELSE [op[c] EXCEPT !.todo = op[c].todo \ {<<t, o>>}]]
      BY DEF Purge
    <2> QED BY <1>0, <2>1, PurgeLeft DEF OnlyCore
  <1>4. /\ OpOK(c) /\ op[c].orphans = {} /\ op[c].obj = None /\ op[c].self = None
        /\ op[c].to = None
    BY <1>2 DEF OpsTrue, OpOK
  <1>5. /\ OpOK(c)' /\ op'[c].obj = None /\ op'[c].self = None /\ op'[c].orphans = {}
        /\ op'[c].k # "wake" /\ op'[c].todo = op[c].todo \ {<<t, o>>}
        /\ op'[c].todo # {} => op'[c].k = "purge"
        /\ op'[c].k \notin {"death", "sweep"}
    <2>1. CASE op[c].todo = {<<t, o>>} /\ op'[c] = Idle BY <2>1, IdleOK
    <2>2. CASE /\ op'[c].k = op[c].k /\ op'[c].obj = op[c].obj
               /\ op'[c].self = op[c].self /\ op'[c].to = op[c].to
               /\ op'[c].todo = op[c].todo \ {<<t, o>>} /\ op'[c].orphans = op[c].orphans
      BY <1>2, <1>4, <2>2 DEF OpOK
    <2> QED BY <1>3, <2>1, <2>2
  <1>6. OpsTrue' BY <1>2, <1>3, <1>5, OpsOne
  <1>7. ASSUME NEW u \in Threads, NEW d \in Cores
        PROVE  /\ Tgt(u, d)' <=> Tgt(u, d)
               /\ Tgt(u, d) => op'[d].obj = op[d].obj /\ op'[d].self = op[d].self
               /\ Orp(u, d)' <=> Orp(u, d)
               /\ \A x \in Objs : OffAt(u, x, d)' <=> OffAt(u, x, d) /\ ~(u = t /\ x = o /\ d = c)
               /\ op'[d].self = u <=> op[d].self = u
               /\ op[d].self = u => op'[d].obj = op[d].obj
    <2>1. CASE d # c
      <3>1. op'[d] = op[d] BY <1>3, <2>1 DEF OnlyCore
      <3> QED BY <2>1, <3>1 DEF Tgt, Orp, OffAt
    <2>2. CASE d = c
      <3>1. /\ ~Tgt(u, d)' /\ ~Tgt(u, d) /\ ~Orp(u, d)' /\ ~Orp(u, d)
            /\ op'[d].self = None /\ op[d].self = None
        BY <1>2, <1>4, <1>5, <2>2 DEF Tgt, Orp
      <3>2. \A x \in Objs : OffAt(u, x, d)' <=> OffAt(u, x, d) /\ ~(u = t /\ x = o /\ d = c)
        <4> TAKE x \in Objs
        <4>1. <<u, x>> \in op'[c].todo <=> <<u, x>> \in op[c].todo /\ <<u, x>> # <<t, o>> BY <1>5
        <4>2. <<u, x>> = <<t, o>> <=> u = t /\ x = o OBVIOUS
        <4>3. <<u, x>> \in op'[c].todo => op'[c].k = "purge" BY <1>5
        <4> QED BY <1>2, <2>2, <4>1, <4>2, <4>3 DEF OffAt
      <3>3. u # None OBVIOUS
      <3> QED BY <3>1, <3>2, <3>3
    <2> QED BY <2>1, <2>2
  <1>8. \A u \in Threads : /\ Self(u)' <=> Self(u)
                           /\ Self(u) => op'[CoreOf[u]].obj = op[CoreOf[u]].obj
    <2>1. \A u \in Threads : CoreOf[u] \in Cores OBVIOUS
    <2> QED BY <1>7, <2>1 DEF Self
  <1>9. ASSUME NEW u \in Threads
        PROVE  /\ \A x \in Endpoints : /\ Snd(u, x)' <=> Snd(u, x) /\ ~(u = t /\ x = o)
                                       /\ Rcv(u, x)' <=> Rcv(u, x) /\ ~(u = t /\ x = o)
                                       /\ Clr(u, x)' <=> Clr(u, x) /\ ~(u = t /\ x = o)
               /\ \A x \in Notifications : Wtr(u, x)' <=> Wtr(u, x) /\ ~(u = t /\ x = o)
    <2>1. ASSUME NEW x \in Endpoints
          PROVE  /\ Snd(u, x)' <=> Snd(u, x) /\ ~(u = t /\ x = o)
                 /\ Rcv(u, x)' <=> Rcv(u, x) /\ ~(u = t /\ x = o)
                 /\ Clr(u, x)' <=> Clr(u, x) /\ ~(u = t /\ x = o)
      <3>1. CASE x = o
        <4>1. ep'[x] = PurgedEp(ep[x], t) BY <1>1, <3>1
        <4>2. /\ Snd(u, x)' <=> Snd(u, x) /\ u # t
              /\ Rcv(u, x)' <=> Rcv(u, x) /\ u # t
          BY <4>1, PurgedEntries
        <4>3. ep'[x].caller = IF ep[x].caller = t THEN None ELSE ep[x].caller
          BY <4>1, PurgedTyped
        <4>4. Clr(u, x)' <=> Clr(u, x) /\ u # t BY <4>3 DEF Clr
        <4> QED BY <3>1, <4>2, <4>4
      <3>2. CASE x # o
        <4>1. ep'[x] = ep[x] BY <1>1, <3>2 DEF OnlyEp
        <4> QED BY <3>2, <4>1 DEF Snd, Rcv, Clr
      <3> QED BY <3>1, <3>2
    <2>2. ASSUME NEW x \in Notifications PROVE Wtr(u, x)' <=> Wtr(u, x) /\ ~(u = t /\ x = o)
      <3>1. CASE x = o /\ nt[o].waiter = t
        <4>1. nt'[x].waiter = None BY <1>0, <1>2, <3>1 DEF TypeOK, Notification
        <4> QED BY <3>1, <4>1 DEF Wtr
      <3>2. CASE ~(x = o /\ nt[o].waiter = t)
        <4>1. nt'[x].waiter = nt[x].waiter BY <1>0, <1>2, <3>2 DEF TypeOK, Notification
        <4> QED BY <3>2, <4>1 DEF Wtr
      <3> QED BY <3>1, <3>2
    <2> QED BY <2>1, <2>2
  <1>10. \A u \in Threads : ThreadView(u) BY <1>2, ThreadViewSame
  <1>11. ASSUME NEW u \in Threads, u # t PROVE Untouched(u)
    <2>1. EpView(u) /\ NtView(u) BY <1>9, <1>11 DEF EpView, NtView
    <2>2. OpView(u) BY <1>7, <1>8, <1>11 DEF OpView
    <2> QED BY <1>10, <2>1, <2>2 DEF Untouched
  <1>12. ASSUME NEW u \in Threads, ~alive[u] PROVE DeadStep(u)
    <2>1. ASSUME NEW x \in Objs, ~(u = t /\ x = o), SweepPending(u, x) PROVE SweepPending(u, x)'
      <3>1. <<u, x>> # <<t, o>> BY <2>1
      <3>2. <<u, x>> \notin op[c].todo \/ <<u, x>> \in op'[c].todo BY <1>5, <3>1
      <3> QED BY <1>2, <1>3, <2>1, <3>2, PendingOne
    <2>2. \A x \in Endpoints \cup Notifications : x \in Objs BY DEF Objs
    <2> QED BY <1>2, <1>9, <1>12, <2>1, <2>2 DEF DeadStep
  <1>13. Single => Single'
    <2>1. CASE o \in Endpoints
      <3>1. OnlyEp(o) /\ ep'[o] = PurgedEp(ep[o], t) BY <1>1, <2>1
      <3>2. /\ SingleIn(ep[o].senders) => SingleIn(ep'[o].senders)
            /\ SingleIn(ep[o].receivers) => SingleIn(ep'[o].receivers)
        BY <2>1, <3>1, PurgedEntries
      <3>3. Single => SingleIn(ep'[o].senders) /\ SingleIn(ep'[o].receivers)
        BY <2>1, <3>2 DEF Single
      <3> QED BY <2>1, <3>1, <3>3, SingleOne
    <2>2. CASE o \notin Endpoints BY <1>1, <2>2, SingleSame
    <2> QED BY <2>1, <2>2
  <1>14. OffAt(t, o, c) BY <1>2 DEF OffAt
  <1> QED BY <1>1, <1>2, <1>6, <1>7, <1>8, <1>9, <1>10, <1>11, <1>12, <1>13, <1>14

LEMMA DieEffect ==
  ASSUME TypeInv, OpsTrue, NEW c \in Cores, NEW t \in Threads, Die(c, t), UNCHANGED world
  PROVE  /\ TypeInv' /\ OpsTrue' /\ ep' = ep /\ nt' = nt
         /\ OnlyCore(c) /\ op'[c].orphans = {} /\ op'[c].k = "death"
         /\ \A u \in Threads : u # t => IF alive[u] THEN Untouched(u) ELSE DeadStep(u)
         /\ ~alive'[t] /\ ~ipc'[t] /\ wait'[t] = User
         /\ \A o \in Objs : SweepPending(t, o)'
PROOF
  <1>0. TypeOK BY DEF TypeInv
  <1>1. TypeInv' /\ op' = [op EXCEPT ![c] = Dying(t)] BY DieStep
  <1>2. /\ ep' = ep /\ nt' = nt /\ Free(c) /\ \A d \in Cores : op[d].self # t
        /\ alive' = [alive EXCEPT ![t] = FALSE] /\ ipc' = [ipc EXCEPT ![t] = FALSE]
        /\ frame' = [frame EXCEPT ![t] = NoFrame] /\ wait' = [wait EXCEPT ![t] = User]
        /\ serving' = [serving EXCEPT ![t] = NoDebt]
    BY DEF Die
  <1>3. /\ ~alive'[t] /\ ~ipc'[t] /\ wait'[t] = User
        /\ \A u \in Threads : u # t => /\ alive'[u] = alive[u] /\ ipc'[u] = ipc[u]
                                       /\ wait'[u] = wait[u] /\ frame'[u] = frame[u]
                                       /\ serving'[u] = serving[u]
    BY <1>0, <1>2 DEF TypeOK
  <1>4. /\ OpOK(c)' /\ OnlyCore(c) /\ op'[c].k = "death" /\ op'[c].obj = None /\ op'[c].to = t
        /\ op'[c].self = None /\ op'[c].todo = {t} \X Endpoints /\ op'[c].orphans = {}
    BY <1>0, <1>1, <1>3, DyingOK
  <1>5. OpsTrue'
    <2>1. \A u \in Threads : alive'[u] # alive[u] =>
            ~alive'[u] /\ \A d \in Cores : op[d].self # u
      BY <1>2, <1>3
    <2> QED BY <1>4, <2>1, OpsOne
  <1>6. ASSUME NEW u \in Threads, u # t PROVE Untouched(u)
    <2>1. Absent(u, c) BY <1>2, FreeAbsent
    <2>2. Absent(u, c)' BY <1>4, <1>6 DEF Absent, Tgt, Orp
    <2>3. ThreadView(u) BY <1>3, <1>6 DEF ThreadView
    <2> QED BY <1>2, <1>4, <2>1, <2>2, <2>3, OpViewAbsent, EpViewSame, NtViewSame DEF Untouched
  <1>7. ASSUME NEW u \in Threads, u # t, ~alive[u] PROVE DeadStep(u)
    <2>0. op[c].k = "idle" /\ op[c].todo = {} BY <1>2, FreeFields
    <2>1. ASSUME NEW o \in Objs, SweepPending(u, o) PROVE SweepPending(u, o)'
      BY <1>4, <2>0, <2>1, PendingOne
    <2>2. \A x \in Notifications : Wtr(u, x)' => Wtr(u, x) BY <1>2 DEF Wtr
    <2> QED BY <1>2, <1>3, <1>7, <2>1, <2>2, DeadStepSame
  <1>8. ASSUME NEW o \in Objs PROVE SweepPending(t, o)'
    <2>1. o \in Endpoints \/ o \in Notifications BY DEF Objs
    <2>2. o \in Endpoints => <<t, o>> \in op'[c].todo BY <1>4
    <2> QED BY <1>4, <2>1, <2>2 DEF SweepPending
  <1> QED BY <1>1, <1>2, <1>3, <1>4, <1>5, <1>6, <1>7, <1>8

LEMMA SweepBeginEffect ==
  ASSUME TypeInv, OpsTrue, NEW c \in Cores, SweepBegin(c), UNCHANGED world
  PROVE  /\ TypeInv' /\ OpsTrue' /\ ep' = ep /\ OnlyCore(c) /\ op'[c].orphans = op[c].orphans
         /\ \A u \in Threads : Untouched(u) /\ (~alive[u] => DeadStep(u))
PROOF
  <1>1. /\ TypeInv'
        /\ op'[c].k = "sweep" /\ op'[c].obj = op[c].obj /\ op'[c].self = op[c].self
        /\ op'[c].to = op[c].to /\ op'[c].todo = op[c].todo /\ op'[c].orphans = op[c].orphans
        /\ OnlyCore(c)
    BY SweepBeginStep DEF OnlyCore
  <1>2. /\ ep' = ep /\ nt' = nt /\ alive' = alive /\ frame' = frame /\ wait' = wait
        /\ serving' = serving /\ ipc' = ipc /\ op[c].k = "death"
    BY DEF SweepBegin, threadVars
  <1>3. OpOK(c)' BY <1>1, <1>2 DEF OpsTrue, OpOK
  <1>4. OpsTrue' BY <1>1, <1>2, <1>3, OpsOne
  <1>5. ASSUME NEW u \in Threads PROVE Untouched(u)
    <2>1. /\ Tgt(u, c)' <=> Tgt(u, c)
          /\ Orp(u, c)' <=> Orp(u, c)
          /\ Tgt(u, c) => op'[c].obj = op[c].obj /\ op'[c].self = op[c].self
          /\ \A o \in Objs : OffAt(u, o, c)' <=> OffAt(u, o, c)
          /\ op'[c].self = u <=> op[c].self = u
          /\ op[c].self = u => op'[c].obj = op[c].obj
      BY <1>1, <1>2 DEF Tgt, Orp, OffAt
    <2>2. OpView(u) BY <1>1, <2>1, OpViewOne
    <2> QED BY <1>2, <2>2, EpViewSame, NtViewSame, ThreadViewSame DEF Untouched
  <1>6. ASSUME NEW u \in Threads, ~alive[u] PROVE DeadStep(u)
    <2>1. ASSUME NEW o \in Objs, SweepPending(u, o) PROVE SweepPending(u, o)'
      BY <1>1, <1>2, <2>1, PendingOne
    <2>2. \A x \in Notifications : Wtr(u, x)' => Wtr(u, x) BY <1>2 DEF Wtr
    <2> QED BY <1>2, <1>6, <2>1, <2>2, DeadStepSame
  <1> QED BY <1>1, <1>2, <1>4, <1>5, <1>6

LEMMA SweepEndEffect ==
  ASSUME TypeInv, OpsTrue, NEW c \in Cores, SweepEnd(c), UNCHANGED world
  PROVE  /\ TypeInv' /\ OpsTrue' /\ ep' = ep /\ OnlyCore(c) /\ op'[c].orphans = {}
         /\ \A u \in Threads : IF alive[u] THEN Untouched(u) ELSE DeadStep(u)
PROOF
  <1> DEFINE t == op[c].to
             todo == {t} \X Notifications
  <1>0. TypeOK BY DEF TypeInv
  <1>1. /\ op[c].k = "sweep" /\ op[c].todo = {} /\ op[c].orphans = {}
        /\ ep' = ep /\ nt' = nt /\ alive' = alive /\ frame' = frame /\ wait' = wait
        /\ serving' = serving /\ ipc' = ipc
    BY DEF SweepEnd, threadVars
  <1>2. t \in Threads /\ ~alive[t] /\ op[c].self = None BY <1>1 DEF OpsTrue, OpOK
  <1>3. /\ TypeInv'
        /\ \/ op' = [op EXCEPT ![c] = Idle] /\ Notifications = {}
           \/ op' = [op EXCEPT ![c] = Purging(todo)] /\ Notifications # {}
    BY <1>2, SweepEndStep
  <1>4. todo \in SUBSET (Threads \X Objs) BY <1>2 DEF Objs
  <1>5. Notifications = {} => todo = {} OBVIOUS
  <1>d. \A u \in Threads, n \in Notifications : <<u, n>> \in todo <=> u = t OBVIOUS
  <1>e. \A u \in Threads, o \in Objs : <<u, o>> \in todo => u = t OBVIOUS
  <1> HIDE DEF todo
  <1>6. /\ OpOK(c)' /\ OnlyCore(c) /\ op'[c].k # "wake" /\ op'[c].obj = None /\ op'[c].self = None
        /\ op'[c].orphans = {} /\ op'[c].todo = todo
    <2>1. CASE op' = [op EXCEPT ![c] = Idle] /\ Notifications = {}
      <3>1. op'[c] = Idle /\ OnlyCore(c) BY <1>0, <2>1, IdleTyped, OpTyped DEF OnlyCore
      <3> QED BY <1>5, <2>1, <3>1, IdleOK
    <2>2. CASE op' = [op EXCEPT ![c] = Purging(todo)]
      <3>1. /\ OpOK(c)' /\ OnlyCore(c) /\ op'[c].k = "purge" /\ op'[c].obj = None
            /\ op'[c].to = None /\ op'[c].self = None /\ op'[c].todo = todo /\ op'[c].orphans = {}
        BY <1>0, <1>4, <2>2, PurgingOK
      <3> QED BY <3>1
    <2> QED BY <1>3, <2>1, <2>2
  <1>7. OpsTrue' BY <1>1, <1>6, OpsOne
  <1>8. ASSUME NEW u \in Threads, alive[u] PROVE Untouched(u)
    <2>1. Absent(u, c) BY <1>1, <1>2 DEF Absent, Tgt, Orp
    <2>2. u # t BY <1>2, <1>8
    <2>3. Absent(u, c)' BY <1>6, <1>e, <2>2 DEF Absent, Tgt, Orp
    <2>4. OpView(u) BY <1>6, <2>1, <2>3, OpViewAbsent
    <2> QED BY <1>1, <2>4, EpViewSame, NtViewSame, ThreadViewSame DEF Untouched
  <1>9. ASSUME NEW u \in Threads, ~alive[u] PROVE DeadStep(u)
    <2>1. ASSUME NEW o \in Objs, SweepPending(u, o) PROVE SweepPending(u, o)'
      <3>1. u = t /\ o \in Notifications => <<u, o>> \in op'[c].todo BY <1>6, <1>d
      <3> QED BY <1>1, <1>6, <2>1, <3>1, PendingOne
    <2>2. \A x \in Notifications : Wtr(u, x)' => Wtr(u, x) BY <1>1 DEF Wtr
    <2> QED BY <1>1, <1>9, <2>1, <2>2, DeadStepSame
  <1> QED BY <1>1, <1>3, <1>6, <1>7, <1>8, <1>9

\* The caller of a token that is given up becomes an orphan of core c.
Orphaned(w, e, c) ==
  /\ EpLess(w, e) /\ ~Clr(w, e)' /\ NtView(w) /\ ThreadView(w)
  /\ Snd(w, e)' <=> Snd(w, e)
  /\ Rcv(w, e)' <=> Rcv(w, e)
  /\ \A d \in Cores : /\ Tgt(w, d)' <=> Tgt(w, d)
                      /\ Tgt(w, d) => op'[d].obj = op[d].obj /\ op'[d].self = op[d].self
                      /\ Orp(w, d)' <=> Orp(w, d) \/ d = c
                      /\ \A o \in Objs : OffAt(w, o, d)' <=> OffAt(w, o, d)
  /\ Self(w)' <=> Self(w)
  /\ Self(w) => op'[CoreOf[w]].obj = op[CoreOf[w]].obj

LEMMA OrphanedOne ==
  ASSUME NEW c \in Cores, OnlyCore(c), NEW e \in Endpoints, OnlyEp(e), NEW w \in Threads,
         ep'[e].caller = None,
         Snd(w, e)' <=> Snd(w, e), Rcv(w, e)' <=> Rcv(w, e), nt' = nt, ThreadView(w),
         ~Tgt(w, c), ~Tgt(w, c)', Orp(w, c)', op[c].self = None, op'[c].self = None,
         \A o \in Objs : ~OffAt(w, o, c) /\ ~OffAt(w, o, c)'
  PROVE  Orphaned(w, e, c)
PROOF
  <1>1. ~Clr(w, e)' BY DEF Clr
  <1>2. EpLess(w, e) /\ NtView(w) BY <1>1, EpLessOne, NtViewSame
  <1>3. ASSUME NEW d \in Cores
        PROVE  /\ Tgt(w, d)' <=> Tgt(w, d)
               /\ Tgt(w, d) => op'[d].obj = op[d].obj /\ op'[d].self = op[d].self
               /\ Orp(w, d)' <=> Orp(w, d) \/ d = c
               /\ \A o \in Objs : OffAt(w, o, d)' <=> OffAt(w, o, d)
               /\ op'[d].self = w <=> op[d].self = w
               /\ op[d].self = w => op'[d].obj = op[d].obj
    <2>1. CASE d = c BY <2>1
    <2>2. CASE d # c
      <3>1. op'[d] = op[d] BY <2>2 DEF OnlyCore
      <3> QED BY <2>2, <3>1 DEF Tgt, Orp, OffAt
    <2> QED BY <2>1, <2>2
  <1>4. CoreOf[w] \in Cores OBVIOUS
  <1> QED BY <1>1, <1>2, <1>3, <1>4 DEF Orphaned, Self

LEMMA SweepEpEffect ==
  ASSUME TypeInv, OpsTrue, NEW c \in Cores, NEW e \in Endpoints, SweepEp(c, e), UNCHANGED world
  PROVE  /\ TypeInv' /\ OpsTrue' /\ (Single => Single') /\ OnlyEp(e) /\ OnlyCore(c)
         /\ op[c].to \in Threads /\ ~alive[op[c].to]
         /\ ToSet(ep'[e].senders) \subseteq ToSet(ep[e].senders)
         /\ ToSet(ep'[e].receivers) \subseteq ToSet(ep[e].receivers)
         /\ ep'[e].caller = None => ep'[e].owner = None
         /\ ep'[e].caller # None => ep'[e].caller = ep[e].caller /\ ep'[e].owner = ep[e].owner
         /\ \A u \in Threads :
              IF alive[u] THEN IF ep[e].owner = op[c].to /\ u = ep[e].caller
                               THEN Orphaned(u, e, c) ELSE Untouched(u)
                          ELSE DeadStep(u)
         /\ ep[e].owner # op[c].to => op'[c].orphans = op[c].orphans
PROOF
  <1> DEFINE t == op[c].to
             p == PurgedEp(ep[e], t)
  <1>0. TypeOK BY DEF TypeInv
  <1>1. /\ op[c].k = "sweep" /\ nt' = nt /\ Unlocked(e)
        /\ alive' = alive /\ frame' = frame /\ wait' = wait /\ serving' = serving /\ ipc' = ipc
    BY DEF SweepEp, threadVars
  <1>2. /\ t \in Threads /\ ~alive[t] /\ op[c].self = None /\ op[c].obj = None
        /\ op[c].todo \subseteq {t} \X Endpoints
    BY <1>1 DEF OpsTrue, OpOK
  <1>3. /\ TypeInv' /\ OnlyEp(e) /\ OnlyCore(c)
        /\ ep'[e].senders = p.senders /\ ep'[e].receivers = p.receivers
        /\ op'[c].k = op[c].k /\ op'[c].obj = op[c].obj /\ op'[c].self = op[c].self
        /\ op'[c].to = op[c].to /\ op'[c].todo = op[c].todo \ {<<t, e>>}
        /\ \/ /\ p.owner # t
              /\ ep'[e] = p /\ op'[c].orphans = op[c].orphans
           \/ /\ p.owner = t /\ p.caller \in Threads
              /\ ep'[e].caller = None /\ ep'[e].owner = None
              /\ op'[c].orphans = op[c].orphans \cup {p.caller}
    BY <1>2, SweepEpStep DEF OnlyCore
  <1>4. /\ p.caller = IF ep[e].caller = t THEN None ELSE ep[e].caller
        /\ p.owner = IF ep[e].caller = t THEN None ELSE ep[e].owner
        /\ p.caller = None => p.owner = None
    BY <1>2, PurgedTyped
  <1>5. /\ \A u \in Threads : /\ Snd(u, e)' <=> Snd(u, e) /\ u # t
                              /\ Rcv(u, e)' <=> Rcv(u, e) /\ u # t
        /\ SingleIn(ep[e].senders) => SingleIn(ep'[e].senders)
        /\ SingleIn(ep[e].receivers) => SingleIn(ep'[e].receivers)
    BY <1>2, <1>3, PurgedEntries
  <1> HIDE DEF p
  <1>6. Single => Single' BY <1>3, <1>5, SingleOne DEF Single
  <1>7. /\ ep'[e].caller = None => ep'[e].owner = None
        /\ ep'[e].caller # None => ep'[e].caller = ep[e].caller /\ ep'[e].owner = ep[e].owner
        /\ \A u \in Threads : Clr(u, e)' => Clr(u, e) /\ u # t
    BY <1>2, <1>3, <1>4 DEF Clr
  <1>8. /\ ToSet(ep'[e].senders) \subseteq ToSet(ep[e].senders)
        /\ ToSet(ep'[e].receivers) \subseteq ToSet(ep[e].receivers)
    <2>1. TypeOK' BY <1>3 DEF TypeInv
    <2>2. ep'[e].senders \in Seq(Threads) /\ ep'[e].receivers \in Seq(Threads)
      BY <2>1 DEF TypeOK, Endpoint
    <2>3. ToSet(ep'[e].senders) \subseteq Threads /\ ToSet(ep'[e].receivers) \subseteq Threads
      BY <2>2, SeqSet
    <2> QED BY <1>5, <2>3 DEF Snd, Rcv
  <1>9. OpOK(c)'
    <2>1. op'[c].k = "sweep" /\ ~alive'[op'[c].to] /\ op'[c].to \in Threads BY <1>1, <1>2, <1>3
    <2>2. op'[c].todo \subseteq {op'[c].to} \X Endpoints BY <1>2, <1>3
    <2> QED BY <1>2, <1>3, <2>1, <2>2 DEF OpOK
  <1>10. OpsTrue' BY <1>1, <1>3, <1>9, OpsOne
  <1>11. ASSUME NEW u \in Threads, alive[u]
         PROVE  IF ep[e].owner = t /\ u = ep[e].caller THEN Orphaned(u, e, c) ELSE Untouched(u)
    <2>1. u # t BY <1>2, <1>11
    <2>2. /\ Snd(u, e)' <=> Snd(u, e)
          /\ Rcv(u, e)' <=> Rcv(u, e)
      BY <1>5, <2>1
    <2>3. ThreadView(u) BY <1>1, ThreadViewSame
    <2>4. /\ ~Tgt(u, c) /\ ~Tgt(u, c)' /\ op[c].self = None /\ op'[c].self = None
          /\ \A o \in Objs : ~OffAt(u, o, c) /\ ~OffAt(u, o, c)'
      BY <1>1, <1>2, <1>3 DEF Tgt, OffAt
    <2>5. CASE ep[e].owner = t /\ u = ep[e].caller
      <3>1. p.owner = t /\ p.caller = u BY <1>4, <2>1, <2>5
      <3>2. Orp(u, c)' /\ ep'[e].caller = None BY <1>3, <3>1 DEF Orp
      <3>3. Orphaned(u, e, c) BY <1>1, <1>3, <2>2, <2>3, <2>4, <3>2, OrphanedOne
      <3> QED BY <2>5, <3>3
    <2>6. CASE ~(ep[e].owner = t /\ u = ep[e].caller)
      <3>1. Clr(u, e)' <=> Clr(u, e)
        <4>1. CASE p.owner = t
          <5>1. ep[e].owner = t /\ ep'[e].caller = None BY <1>2, <1>3, <1>4, <4>1
          <5> QED BY <2>6, <5>1 DEF Clr
        <4>2. CASE p.owner # t
          <5>1. ep'[e] = p BY <1>3, <4>2
          <5> QED BY <1>4, <2>1, <5>1 DEF Clr
        <4> QED BY <4>1, <4>2
      <3>2. EpView(u) BY <1>3, <2>2, <3>1, EpViewOne
      <3>3. Orp(u, c)' <=> Orp(u, c)
        <4>1. CASE p.owner = t
          <5>1. ep[e].owner = t /\ p.caller = ep[e].caller BY <1>2, <1>4, <4>1
          <5>2. op'[c].orphans = op[c].orphans \cup {p.caller} /\ u # p.caller
            BY <1>3, <2>6, <4>1, <5>1
          <5> QED BY <5>2 DEF Orp
        <4>2. CASE p.owner # t
          <5>1. op'[c].orphans = op[c].orphans BY <1>3, <4>2
          <5> QED BY <5>1 DEF Orp
        <4> QED BY <4>1, <4>2
      <3>4. OpView(u) BY <1>3, <2>4, <3>3, OpViewOne
      <3>5. NtView(u) BY <1>1, NtViewSame
      <3>6. Untouched(u) BY <2>3, <3>2, <3>4, <3>5 DEF Untouched
      <3> QED BY <2>6, <3>6
    <2> QED BY <2>5, <2>6
  <1>12. ASSUME NEW u \in Threads, ~alive[u] PROVE DeadStep(u)
    <2>1. ASSUME NEW x \in Objs, ~(u = t /\ x = e), SweepPending(u, x) PROVE SweepPending(u, x)'
      <3>1. <<u, x>> # <<t, e>> BY <2>1
      <3>2. <<u, x>> \notin op[c].todo \/ <<u, x>> \in op'[c].todo BY <1>3, <3>1
      <3> QED BY <1>1, <1>3, <2>1, <3>2, PendingOne
    <2>2. ASSUME NEW x \in Endpoints, Snd(u, x)' \/ Rcv(u, x)' \/ Clr(u, x)'
          PROVE  (Snd(u, x) \/ Rcv(u, x) \/ Clr(u, x)) /\ ~(u = t /\ x = e)
      <3>1. CASE x = e BY <1>5, <1>7, <2>2, <3>1
      <3>2. CASE x # e
        <4>1. ep'[x] = ep[x] BY <1>3, <3>2 DEF OnlyEp
        <4> QED BY <2>2, <3>2, <4>1 DEF Snd, Rcv, Clr
      <3> QED BY <3>1, <3>2
    <2>3. ASSUME NEW x \in Notifications, Wtr(u, x)' PROVE Wtr(u, x) /\ x # e
      BY <1>1, <2>3 DEF Wtr
    <2>4. \A x \in Endpoints \cup Notifications : x \in Objs BY DEF Objs
    <2> QED BY <1>1, <1>12, <2>1, <2>2, <2>3, <2>4 DEF DeadStep
  <1>13. ep[e].owner # t => op'[c].orphans = op[c].orphans
    <2>1. ep[e].owner # t => p.owner # t BY <1>2, <1>4
    <2> QED BY <1>3, <2>1
  <1> QED BY <1>2, <1>3, <1>6, <1>7, <1>8, <1>10, <1>11, <1>12, <1>13

LEMMA OrphanEffect ==
  ASSUME TypeInv, OpsTrue, NEW c \in Cores, NEW t \in Threads, Orphan(c, t), UNCHANGED world
  PROVE  /\ TypeInv' /\ OpsTrue' /\ ep' = ep /\ OnlyCore(c) /\ Orp(t, c)
         /\ op'[c].orphans \subseteq op[c].orphans
         /\ \A u \in Threads : IF alive[u] THEN u # t => Untouched(u) ELSE DeadStep(u)
         /\ EpView(t) /\ NtView(t) /\ ~ipc'[t] /\ alive'[t] = alive[t] /\ wait'[t] = wait[t]
         /\ serving'[t] = serving[t]
         /\ alive[t] => frame'[t] = [res |-> "GONE", from |-> None, bits |-> {}]
         /\ \A d \in Cores : /\ Tgt(t, d)' <=> Tgt(t, d)
                             /\ Tgt(t, d) => op'[d].obj = op[d].obj /\ op'[d].self = op[d].self
                             /\ Orp(t, d)' <=> Orp(t, d) /\ d # c
                             /\ \A o \in Objs : OffAt(t, o, d)' <=> OffAt(t, o, d)
         /\ (Self(t)' <=> Self(t))
         /\ Self(t) => op'[CoreOf[t]].obj = op[CoreOf[t]].obj
PROOF
  <1>0. TypeOK BY DEF TypeInv
  <1>1. /\ ep' = ep /\ nt' = nt /\ alive' = alive /\ wait' = wait /\ serving' = serving
        /\ ipc' = [ipc EXCEPT ![t] = FALSE] /\ t \in op[c].orphans
        /\ frame' = IF alive[t]
                    THEN [frame EXCEPT ![t] = [res |-> "GONE", from |-> None, bits |-> {}]]
                    ELSE frame
        /\ op[c].k \in {"gone", "sweep"}
    BY DEF Orphan
  <1>2. /\ TypeInv' /\ OnlyCore(c)
        /\ \/ op[c].k = "gone" /\ op'[c] = Idle
           \/ /\ op[c].k = "sweep" /\ op'[c].k = op[c].k /\ op'[c].obj = op[c].obj
              /\ op'[c].self = op[c].self /\ op'[c].to = op[c].to
              /\ op'[c].todo = op[c].todo /\ op'[c].orphans = op[c].orphans \ {t}
    BY OrphanStep DEF OnlyCore
  <1>3. /\ OpOK(c) /\ op[c].self = None /\ op[c].obj = None
        /\ op[c].k = "gone" => op[c].orphans = {t}
    BY <1>1 DEF OpsTrue, OpOK
  <1>4. /\ OpOK(c)' /\ op'[c].k \notin {"wake", "purge"} /\ op'[c].obj = None
        /\ op'[c].self = None /\ op'[c].orphans = op[c].orphans \ {t}
    <2>1. CASE op[c].k = "gone" /\ op'[c] = Idle
      <3>1. op[c].orphans \ {t} = {} BY <1>3, <2>1
      <3> QED BY <2>1, <3>1, IdleOK
    <2>2. CASE /\ op[c].k = "sweep" /\ op'[c].k = op[c].k /\ op'[c].obj = op[c].obj
               /\ op'[c].self = op[c].self /\ op'[c].to = op[c].to
               /\ op'[c].todo = op[c].todo /\ op'[c].orphans = op[c].orphans \ {t}
      BY <1>1, <1>3, <2>2 DEF OpOK
    <2> QED BY <1>2, <2>1, <2>2
  <1>5. OpsTrue' BY <1>1, <1>2, <1>4, OpsOne
  <1>6. ASSUME NEW u \in Threads
        PROVE  /\ ~Tgt(u, c) /\ ~Tgt(u, c)'
               /\ \A o \in Objs : ~OffAt(u, o, c) /\ ~OffAt(u, o, c)'
               /\ Orp(u, c)' <=> Orp(u, c) /\ u # t
    BY <1>1, <1>4 DEF Tgt, OffAt, Orp
  <1>7. ASSUME NEW u \in Threads, u # t PROVE Untouched(u)
    <2>1. OpView(u)
      <3>1. /\ Tgt(u, c)' <=> Tgt(u, c)
            /\ Orp(u, c)' <=> Orp(u, c)
            /\ Tgt(u, c) => op'[c].obj = op[c].obj /\ op'[c].self = op[c].self
            /\ \A o \in Objs : OffAt(u, o, c)' <=> OffAt(u, o, c)
            /\ op'[c].self = u <=> op[c].self = u
            /\ op[c].self = u => op'[c].obj = op[c].obj
        BY <1>3, <1>4, <1>6, <1>7
      <3> QED BY <1>2, <3>1, OpViewOne
    <2>2. ThreadView(u) BY <1>0, <1>1, <1>7 DEF ThreadView, TypeOK
    <2> QED BY <1>1, <2>1, <2>2, EpViewSame, NtViewSame DEF Untouched
  <1>8. ASSUME NEW u \in Threads, ~alive[u] PROVE DeadStep(u)
    <2>1. ASSUME NEW o \in Objs, SweepPending(u, o) PROVE SweepPending(u, o)'
      <3>1. CASE op[c].k = "gone"
        <4>1. op[c].todo = {} BY <1>3, <3>1 DEF OpOK
        <4> QED BY <1>2, <2>1, <3>1, <4>1, PendingOne
      <3>2. CASE op[c].k = "sweep"
        <4>1. op'[c].k = op[c].k /\ op'[c].to = op[c].to /\ op'[c].todo = op[c].todo
          BY <1>2, <3>2
        <4> QED BY <1>2, <2>1, <4>1, PendingOne
      <3> QED BY <1>1, <3>1, <3>2
    <2>2. \A x \in Notifications : Wtr(u, x)' => Wtr(u, x) BY <1>1 DEF Wtr
    <2>3. ipc'[u] => ipc[u] BY <1>0, <1>1 DEF TypeOK
    <2> QED BY <1>1, <1>8, <2>1, <2>2, <2>3, DeadStepSame
  <1>9. ASSUME NEW d \in Cores
        PROVE  /\ Tgt(t, d)' <=> Tgt(t, d)
               /\ Tgt(t, d) => op'[d].obj = op[d].obj /\ op'[d].self = op[d].self
               /\ Orp(t, d)' <=> Orp(t, d) /\ d # c
               /\ \A o \in Objs : OffAt(t, o, d)' <=> OffAt(t, o, d)
               /\ op'[d].self = t <=> op[d].self = t
               /\ op[d].self = t => op'[d].obj = op[d].obj
    <2>1. CASE d = c BY <1>3, <1>4, <1>6, <2>1
    <2>2. CASE d # c
      <3>1. op'[d] = op[d] BY <1>2, <2>2 DEF OnlyCore
      <3> QED BY <2>2, <3>1 DEF Tgt, Orp, OffAt
    <2> QED BY <2>1, <2>2
  <1>10. /\ (Self(t)' <=> Self(t))
         /\ Self(t) => op'[CoreOf[t]].obj = op[CoreOf[t]].obj
    <2>1. CoreOf[t] \in Cores OBVIOUS
    <2> QED BY <1>9, <2>1 DEF Self
  <1>11. EpView(t) /\ NtView(t) /\ Orp(t, c) BY <1>1, EpViewSame, NtViewSame DEF Orp
  <1>12. ~ipc'[t] /\ (alive[t] => frame'[t] = [res |-> "GONE", from |-> None, bits |-> {}])
    BY <1>0, <1>1 DEF TypeOK
  <1>13. op'[c].orphans \subseteq op[c].orphans BY <1>4
  <1> QED BY <1>1, <1>2, <1>5, <1>7, <1>8, <1>9, <1>10, <1>11, <1>12, <1>13

LEMMA SetQuiescingEffect ==
  ASSUME TypeInv, OpsTrue, NEW c \in Cores, NEW e \in Endpoints, NEW q \in BOOLEAN,
         SetQuiescing(c, e, q), UNCHANGED world
  PROVE  /\ TypeInv' /\ OpsTrue' /\ (Single => Single')
         /\ \A u \in Threads : Untouched(u) /\ (~alive[u] => DeadStep(u))
PROOF
  <1>1. /\ TypeInv' /\ OnlyEp(e)
        /\ ep'[e].senders = ep[e].senders /\ ep'[e].receivers = ep[e].receivers
        /\ ep'[e].caller = ep[e].caller
    BY SetQuiescingStep
  <1>2. /\ nt' = nt /\ alive' = alive /\ frame' = frame /\ wait' = wait
        /\ serving' = serving /\ ipc' = ipc /\ op' = op
    BY DEF SetQuiescing, threadVars
  <1>3. OpsTrue' BY <1>2, OpsSame
  <1>4. Single => Single' BY <1>1, SingleOne DEF Single
  <1>5. ASSUME NEW u \in Threads PROVE Untouched(u)
    <2>1. /\ Snd(u, e)' <=> Snd(u, e)
          /\ Rcv(u, e)' <=> Rcv(u, e)
          /\ Clr(u, e)' <=> Clr(u, e)
      BY <1>1 DEF Snd, Rcv, Clr
    <2> QED BY <1>1, <1>2, <2>1, EpViewOne, NtViewSame, OpViewSame, ThreadViewSame DEF Untouched
  <1>6. ASSUME NEW u \in Threads, ~alive[u] PROVE DeadStep(u)
    <2>1. EpShrinks(u, e) BY <1>1 DEF EpShrinks, Snd, Rcv, Clr
    <2>2. \A o \in Objs : SweepPending(u, o) => SweepPending(u, o)' BY <1>2, OpViewSame
    <2>3. \A n \in Notifications : Wtr(u, n)' => Wtr(u, n) BY <1>2 DEF Wtr
    <2> QED BY <1>1, <1>2, <1>6, <2>1, <2>2, <2>3, DeadStepOne
  <1> QED BY <1>1, <1>3, <1>4, <1>5, <1>6

LEMMA RetireEffect ==
  ASSUME TypeInv, OpsTrue, NEW c \in Cores, NEW e \in Endpoints, NEW t \in Threads,
         RetireReceiver(c, e, t) \/ \E new \in Threads : RebindServer(c, e, t, new),
         UNCHANGED world
  PROVE  /\ TypeInv' /\ OpsTrue' /\ (Single => Single') /\ OnlyEp(e)
         /\ ep'[e].senders = ep[e].senders /\ ep'[e].caller = ep[e].caller
         /\ ep'[e].owner = ep[e].owner
         /\ ToSet(ep'[e].receivers) \subseteq ToSet(ep[e].receivers)
         /\ \A u \in Threads :
              IF alive[u] THEN /\ EpLess(u, e) /\ NtView(u) /\ OpView(u) /\ ThreadView(u)
                               /\ u # t => Untouched(u)
                          ELSE DeadStep(u)
         /\ retired' = retired \cup {t}
         /\ Rcv(t, e) /\ ~Rcv(t, e)'
PROOF
  <1>0. TypeOK BY DEF TypeInv
  <1>1. /\ ep' = [ep EXCEPT ![e].receivers = Without(@, t)] /\ retired' = retired \cup {t}
        /\ UNCHANGED <<nt, threadVars, op, owed, panic>> /\ Rcv(t, e)
    BY DEF RetireReceiver, RebindServer, Rcv
  <1>2. /\ nt' = nt /\ alive' = alive /\ frame' = frame /\ wait' = wait
        /\ serving' = serving /\ ipc' = ipc /\ op' = op
    BY <1>1 DEF threadVars
  <1>3. TypeInv' BY RetireStep
  <1>4. /\ OnlyEp(e)
        /\ ep'[e].senders = ep[e].senders /\ ep'[e].receivers = Without(ep[e].receivers, t)
        /\ ep'[e].caller = ep[e].caller /\ ep'[e].owner = ep[e].owner
    BY <1>1, ReceiverGone
  <1>5. /\ ToSet(ep'[e].receivers) = ToSet(ep[e].receivers) \ {t}
        /\ SingleIn(ep[e].receivers) => SingleIn(ep'[e].receivers)
    <2>1. ep[e].receivers \in Seq(Threads) BY <1>0, EpFields
    <2> QED BY <1>4, <2>1, WithoutLeaves, WithoutSingle
  <1>6. OpsTrue' BY <1>2, OpsSame
  <1>7. Single => Single' BY <1>4, <1>5, SingleOne DEF Single
  <1>8. ASSUME NEW u \in Threads
        PROVE  /\ EpLess(u, e) /\ NtView(u) /\ OpView(u) /\ ThreadView(u)
               /\ u # t => Untouched(u)
    <2>1. /\ Snd(u, e)' <=> Snd(u, e)
          /\ Rcv(u, e)' => Rcv(u, e)
          /\ u # t => (Rcv(u, e)' <=> Rcv(u, e))
          /\ Clr(u, e)' <=> Clr(u, e)
      BY <1>4, <1>5 DEF Snd, Rcv, Clr
    <2>2. EpLess(u, e) BY <1>4, <2>1, EpLessOne
    <2>3. u # t => EpView(u) BY <1>4, <2>1, EpViewOne
    <2> QED BY <1>2, <2>2, <2>3, NtViewSame, OpViewSame, ThreadViewSame DEF Untouched
  <1>9. ASSUME NEW u \in Threads, ~alive[u] PROVE DeadStep(u)
    <2>1. EpShrinks(u, e) BY <1>4, <1>5 DEF EpShrinks, Snd, Rcv, Clr
    <2>2. \A o \in Objs : SweepPending(u, o) => SweepPending(u, o)' BY <1>2, OpViewSame
    <2>3. \A n \in Notifications : Wtr(u, n)' => Wtr(u, n) BY <1>2 DEF Wtr
    <2> QED BY <1>2, <1>4, <1>9, <2>1, <2>2, <2>3, DeadStepOne
  <1>10. ~Rcv(t, e)' BY <1>5 DEF Rcv
  <1> QED BY <1>1, <1>3, <1>4, <1>5, <1>6, <1>7, <1>8, <1>9, <1>10

LEMMA MigrateOwnerEffect ==
  ASSUME TypeInv, OpsTrue, NEW c \in Cores, NEW e \in Endpoints, NEW s \in Threads,
         MigrateOwner(c, e, s), UNCHANGED world
  PROVE  LET w == ep[e].caller IN
         /\ TypeInv' /\ OpsTrue' /\ OnlyEp(e) /\ w \in Threads
         /\ Single /\ ~Snd(w, e) => Single'
         /\ ep'[e].receivers = ep[e].receivers /\ ep'[e].caller = None /\ ep'[e].owner = None
         /\ ToSet(ep'[e].senders) = ToSet(ep[e].senders) \cup {w}
         /\ \A u \in Threads :
              IF alive[u] THEN /\ NtView(u) /\ OpView(u) /\ ThreadView(u)
                               /\ u # w => Untouched(u)
                          ELSE DeadStep(u)
PROOF
  <1> DEFINE w == ep[e].caller
  <1>0. TypeOK BY DEF TypeInv
  <1>1. /\ TypeInv' /\ OnlyEp(e) /\ w \in Threads
        /\ ep'[e].senders = Append(ep[e].senders, w)
        /\ ep'[e].receivers = ep[e].receivers
        /\ ep'[e].caller = None /\ ep'[e].owner = None
    BY MigrateOwnerStep
  <1>2. /\ nt' = nt /\ alive' = alive /\ frame' = frame /\ wait' = wait
        /\ serving' = serving /\ ipc' = ipc /\ op' = op
    BY DEF MigrateOwner, threadVars
  <1>3. /\ ToSet(ep'[e].senders) = ToSet(ep[e].senders) \cup {w}
        /\ SingleIn(ep[e].senders) /\ ~Snd(w, e) => SingleIn(ep'[e].senders)
    <2>1. ep[e].senders \in Seq(Threads) BY <1>0, EpFields
    <2> QED BY <1>1, <2>1, AppendSet, AppendSingle DEF Snd
  <1>4. OpsTrue' BY <1>2, OpsSame
  <1>5. Single /\ ~Snd(w, e) => Single' BY <1>1, <1>3, SingleOne DEF Single
  <1>6. ASSUME NEW u \in Threads
        PROVE  NtView(u) /\ OpView(u) /\ ThreadView(u) /\ (u # w => Untouched(u))
    <2>1. NtView(u) /\ OpView(u) /\ ThreadView(u)
      BY <1>2, NtViewSame, OpViewSame, ThreadViewSame
    <2>2. ASSUME u # w PROVE EpView(u)
      <3>1. /\ Snd(u, e)' <=> Snd(u, e)
            /\ Rcv(u, e)' <=> Rcv(u, e)
            /\ Clr(u, e)' <=> Clr(u, e)
        BY <1>1, <1>3, <2>2 DEF Snd, Rcv, Clr
      <3> QED BY <1>1, <3>1, EpViewOne
    <2> QED BY <2>1, <2>2 DEF Untouched
  <1>7. ASSUME NEW u \in Threads, ~alive[u] PROVE DeadStep(u)
    <2>1. EpShrinks(u, e) BY <1>1, <1>3 DEF EpShrinks, Snd, Rcv, Clr
    <2>2. \A o \in Objs : SweepPending(u, o) => SweepPending(u, o)' BY <1>2, OpViewSame
    <2>3. \A n \in Notifications : Wtr(u, n)' => Wtr(u, n) BY <1>2 DEF Wtr
    <2> QED BY <1>1, <1>2, <1>7, <2>1, <2>2, <2>3, DeadStepOne
  <1> QED BY <1>1, <1>3, <1>4, <1>5, <1>6, <1>7

LEMMA AbortCallEffect ==
  ASSUME TypeInv, OpsTrue, NEW c \in Cores, NEW e \in Endpoints, AbortCall(c, e), UNCHANGED world
  PROVE  LET w == ep[e].caller IN
         /\ TypeInv' /\ OpsTrue' /\ (Single => Single') /\ OnlyEp(e) /\ w \in Threads
         /\ ep'[e].senders = ep[e].senders /\ ep'[e].receivers = ep[e].receivers
         /\ ep'[e].caller = None /\ ep'[e].owner = None
         /\ Unlocked(e)
         /\ \A u \in Threads :
              IF alive[u] THEN IF u = w THEN Orphaned(u, e, c) ELSE Untouched(u)
                          ELSE DeadStep(u)
PROOF
  <1> DEFINE w == ep[e].caller
  <1>0. TypeOK BY DEF TypeInv
  <1>1. /\ TypeInv' /\ OnlyEp(e) /\ w \in Threads
        /\ ep'[e].senders = ep[e].senders /\ ep'[e].receivers = ep[e].receivers
        /\ ep'[e].caller = None /\ ep'[e].owner = None
        /\ op' = [op EXCEPT ![c] = Gone(w)]
    BY AbortCallStep
  <1>2. /\ nt' = nt /\ alive' = alive /\ frame' = frame /\ wait' = wait
        /\ serving' = serving /\ ipc' = ipc /\ Free(c) /\ Unlocked(e)
    BY DEF AbortCall, Managing, threadVars
  <1>3. /\ OpOK(c)' /\ OnlyCore(c) /\ op'[c].k = "gone" /\ op'[c].obj = None /\ op'[c].to = None
        /\ op'[c].self = None /\ op'[c].todo = {} /\ op'[c].orphans = {w}
    <2> HIDE DEF w
    <2> QED BY <1>0, <1>1, GoneOK
  <1>4. OpsTrue' BY <1>2, <1>3, OpsOne
  <1>5. Single => Single' BY <1>1, SingleOne DEF Single
  <1>6. ASSUME NEW u \in Threads, alive[u]
        PROVE  IF u = w THEN Orphaned(u, e, c) ELSE Untouched(u)
    <2>1. /\ Snd(u, e)' <=> Snd(u, e)
          /\ Rcv(u, e)' <=> Rcv(u, e)
      BY <1>1 DEF Snd, Rcv
    <2>2. ThreadView(u) BY <1>2, ThreadViewSame
    <2>3. Absent(u, c) /\ op[c].self = None BY <1>2, FreeAbsent, FreeFields
    <2>4. CASE u = w
      <3>1. /\ ~Tgt(u, c) /\ ~Tgt(u, c)' /\ Orp(u, c)' /\ op[c].self = None /\ op'[c].self = None
            /\ \A o \in Objs : ~OffAt(u, o, c) /\ ~OffAt(u, o, c)'
        BY <1>3, <2>3, <2>4 DEF Absent, Tgt, Orp, OffAt
      <3>2. Orphaned(u, e, c) BY <1>1, <1>2, <1>3, <2>1, <2>2, <3>1, OrphanedOne
      <3> QED BY <2>4, <3>2
    <2>5. CASE u # w
      <3>1. Absent(u, c)' BY <1>3, <2>5 DEF Absent, Tgt, Orp
      <3>2. Clr(u, e)' <=> Clr(u, e) BY <1>1, <2>5 DEF Clr
      <3>3. Untouched(u)
        BY <1>1, <1>2, <1>3, <2>1, <2>2, <2>3, <3>1, <3>2, EpViewOne, NtViewSame, OpViewAbsent
           DEF Untouched
      <3> QED BY <2>5, <3>3
    <2> QED BY <2>4, <2>5
  <1>7. ASSUME NEW u \in Threads, ~alive[u] PROVE DeadStep(u)
    <2>0. op[c].k = "idle" /\ op[c].todo = {} BY <1>2, FreeFields
    <2>1. EpShrinks(u, e) BY <1>1 DEF EpShrinks, Snd, Rcv, Clr
    <2>2. ASSUME NEW o \in Objs, SweepPending(u, o) PROVE SweepPending(u, o)'
      BY <1>3, <2>0, <2>2, PendingOne
    <2>3. \A n \in Notifications : Wtr(u, n)' => Wtr(u, n) BY <1>2 DEF Wtr
    <2> QED BY <1>1, <1>2, <1>7, <2>1, <2>2, <2>3, DeadStepOne
  <1> QED BY <1>1, <1>2, <1>4, <1>5, <1>6, <1>7

-----------------------------------------------------------------------------
(* Habits, and the dead                                                    *)

\* Only holders of the right are entered at an endpoint.
EpHabit(e) ==
  /\ ToSet(ep[e].receivers) \subseteq Servers(e)
  /\ ToSet(ep[e].senders) \subseteq Clients(e) \cup {None}
  /\ ep[e].caller \in Clients(e) \cup {None} /\ ep[e].owner \in Servers(e) \cup {None}

Habits ==
  /\ \A t \in Threads : frist[t] => t \in world.timed
  /\ \A t \in Threads : ~alive[t] => t \in world.mortal
  /\ \A e \in Endpoints : EpHabit(e)

\* Whoever is dead and still entered is on the list of a sweep.
DeadOK(t) ==
  /\ ~ipc[t] /\ wait[t] = User
  /\ \A e \in Endpoints : Snd(t, e) \/ Rcv(t, e) \/ Clr(t, e) => SweepPending(t, e)
  /\ \A n \in Notifications : Wtr(t, n) => SweepPending(t, n)
DeadSwept == \A t \in Threads : ~alive[t] => DeadOK(t)

Base == TypeInv /\ OpsTrue /\ Habits /\ DeadSwept

LEMMA SameWorld ==
  ASSUME UNCHANGED world
  PROVE  /\ \A e \in Endpoints : Servers(e)' = Servers(e) /\ Clients(e)' = Clients(e)
         /\ OrphansWait' <=> OrphansWait
         /\ \A e \in Endpoints : (OneServer(e)' <=> OneServer(e)) /\ (OneClient(e)' <=> OneClient(e))
  BY DEF Servers, Clients, Holds, OrphansWait, OneServer, OneClient

LEMMA HabitsOne ==
  ASSUME Habits, UNCHANGED world, alive' = alive,
         \A u \in Threads : frist'[u] => frist[u] \/ u \in world.timed,
         NEW e \in Endpoints, OnlyEp(e),
         ToSet(ep'[e].receivers) \subseteq ToSet(ep[e].receivers) \cup Servers(e),
         ToSet(ep'[e].senders) \subseteq ToSet(ep[e].senders) \cup {ep[e].caller} \cup Clients(e),
         ep'[e].caller \in {None, ep[e].caller} \cup ToSet(ep[e].senders) \cup Clients(e),
         ep'[e].owner \in {None, ep[e].owner} \cup ToSet(ep[e].receivers) \cup Servers(e)
  PROVE  Habits'
PROOF
  <1>1. ASSUME NEW x \in Endpoints PROVE EpHabit(x)'
    <2>0. EpHabit(x) /\ Servers(x)' = Servers(x) /\ Clients(x)' = Clients(x)
      BY SameWorld DEF Habits
    <2>1. CASE x = e BY <2>0, <2>1 DEF EpHabit
    <2>2. CASE x # e
      <3>1. ep'[x] = ep[x] BY <2>2 DEF OnlyEp
      <3> QED BY <2>0, <3>1 DEF EpHabit
    <2> QED BY <2>1, <2>2
  <1> QED BY <1>1 DEF Habits

LEMMA HabitsSame ==
  ASSUME Habits, UNCHANGED world, ep' = ep,
         \A u \in Threads : ~alive'[u] => ~alive[u] \/ u \in world.mortal,
         \A u \in Threads : frist'[u] => frist[u] \/ u \in world.timed
  PROVE  Habits'
PROOF
  <1>1. ASSUME NEW x \in Endpoints PROVE EpHabit(x)'
    <2>0. EpHabit(x) /\ Servers(x)' = Servers(x) /\ Clients(x)' = Clients(x)
      BY SameWorld DEF Habits
    <2> QED BY <2>0 DEF EpHabit
  <1> QED BY <1>1 DEF Habits

LEMMA DeadKept ==
  ASSUME DeadSwept, \A u \in Threads : ~alive'[u] => ~alive[u] /\ DeadStep(u)
  PROVE  DeadSwept'
PROOF
  <1> SUFFICES ASSUME NEW u \in Threads, ~alive'[u] PROVE DeadOK(u)' BY DEF DeadSwept
  <1>1. DeadOK(u) /\ DeadStep(u) BY DEF DeadSwept
  <1> QED BY <1>1 DEF DeadOK, DeadStep

LEMMA HoldsRight ==
  ASSUME NEW t \in Threads, NEW e \in Endpoints
  PROVE  (Holds(t, e, "WRITE") => t \in Clients(e)) /\ (Holds(t, e, "READ") => t \in Servers(e))
  BY DEF Clients, Servers

LEMMA CallBase ==
  ASSUME Base, NEW t \in Threads, NEW e \in Endpoints, NEW tm \in BOOLEAN,
         CallRefused(t, e, tm) \/ CallRendezvous(t, e, tm) \/ CallQueued(t, e, tm), UNCHANGED world
  PROVE  Base'
PROOF
  <1>0. TypeInv /\ OpsTrue /\ Habits /\ DeadSwept /\ TypeOK BY DEF Base, TypeInv
  <1>1. /\ alive' = alive /\ t \in Clients(e) /\ alive[t]
    BY HoldsRight, RunningAbsent DEF CallRefused, CallRendezvous, CallQueued, CallEntry
  <1>2. CASE CallRefused(t, e, tm)
    <2>1. /\ TypeInv' /\ OpsTrue' /\ \A u \in Threads : ~alive[u] => DeadStep(u)
      BY <1>0, <1>2, CallRefusedEffect
    <2>2. /\ OnlyEp(e) /\ ep'[e].senders = ep[e].senders /\ ep'[e].caller = ep[e].caller
          /\ ep'[e].owner = ep[e].owner /\ Dropped(ep[e].receivers, ep'[e].receivers)
          /\ \A u \in Threads : frist'[u] => frist[u] \/ u \in world.timed
      BY <1>0, <1>2, CallRefusedStep
    <2>3. ToSet(ep'[e].receivers) \subseteq ToSet(ep[e].receivers)
      BY <1>0, <2>2, EpFields, DroppedSet
    <2>4. Habits' BY <1>0, <1>1, <2>2, <2>3, HabitsOne
    <2>5. DeadSwept' BY <1>0, <1>1, <2>1, DeadKept
    <2> QED BY <2>1, <2>4, <2>5 DEF Base
  <1>3. CASE CallRendezvous(t, e, tm)
    <2>1. TypeInv' /\ OpsTrue' /\ OnlyEp(e) BY <1>0, <1>3, CallRendezvousEffect
    <2>2. PICK s \in Threads :
            /\ Rcv(s, e) /\ alive[s]
            /\ ep'[e].senders = ep[e].senders /\ ep'[e].caller = t /\ ep'[e].owner = s
            /\ ToSet(ep'[e].receivers) \subseteq ToSet(ep[e].receivers)
            /\ \A u \in Threads : u # s /\ u # t /\ ~alive[u] => DeadStep(u)
      BY <1>0, <1>3, CallRendezvousEffect
    <2>3. \A u \in Threads : frist'[u] => frist[u] \/ u \in world.timed
      BY <1>0, <1>3, CallRendezvousStep
    <2>4. Habits' BY <1>0, <1>1, <2>1, <2>2, <2>3, HabitsOne DEF Rcv
    <2>5. DeadSwept' BY <1>0, <1>1, <2>2, DeadKept
    <2> QED BY <2>1, <2>4, <2>5 DEF Base
  <1>4. CASE CallQueued(t, e, tm)
    <2>1. /\ TypeInv' /\ OpsTrue' /\ \A u \in Threads : u # t /\ ~alive[u] => DeadStep(u)
      BY <1>0, <1>4, CallQueuedEffect
    <2>2. /\ OnlyEp(e) /\ ep'[e].senders = Append(ep[e].senders, t) /\ ep'[e].receivers = <<>>
          /\ ep'[e].caller = ep[e].caller /\ ep'[e].owner = ep[e].owner
          /\ \A u \in Threads : frist'[u] => frist[u] \/ u \in world.timed
      BY <1>0, <1>4, CallQueuedStep
    <2>3. ToSet(ep'[e].senders) = ToSet(ep[e].senders) \cup {t} /\ ToSet(ep'[e].receivers) = {}
      <3>1. ep[e].senders \in Seq(Threads) BY <1>0, EpFields
      <3> QED BY <2>2, <3>1, AppendSet, EmptySet
    <2>4. Habits' BY <1>0, <1>1, <2>2, <2>3, HabitsOne
    <2>5. DeadSwept' BY <1>0, <1>1, <2>1, DeadKept
    <2> QED BY <2>1, <2>4, <2>5 DEF Base
  <1> QED BY <1>2, <1>3, <1>4

LEMMA RecvBase ==
  ASSUME Base, NEW t \in Threads, NEW e \in Endpoints,
         RecvRendezvous(t, e) \/ RecvQueued(t, e) \/ RecvRefused(t, e) \/ Reply(t, e),
         UNCHANGED world
  PROVE  Base'
PROOF
  <1>0. TypeInv /\ OpsTrue /\ Habits /\ DeadSwept /\ TypeOK BY DEF Base, TypeInv
  <1>1. /\ alive' = alive /\ frist' = frist /\ t \in Servers(e) /\ alive[t]
    BY HoldsRight, RunningAbsent
       DEF RecvRendezvous, RecvQueued, RecvRefused, Reply, threadVars
  <1>2. CASE RecvRendezvous(t, e)
    <2>1. TypeInv' /\ OpsTrue' /\ OnlyEp(e) BY <1>0, <1>2, RecvRendezvousEffect
    <2>2. PICK c \in Threads :
            /\ Snd(c, e)
            /\ ep'[e].receivers = ep[e].receivers /\ ep'[e].caller = c /\ ep'[e].owner = t
            /\ ToSet(ep'[e].senders) \subseteq ToSet(ep[e].senders)
            /\ \A u \in Threads : ~alive[u] => DeadStep(u)
      BY <1>0, <1>2, RecvRendezvousEffect
    <2>4. Habits' BY <1>0, <1>1, <2>1, <2>2, HabitsOne DEF Snd
    <2>5. DeadSwept' BY <1>0, <1>1, <2>2, DeadKept
    <2> QED BY <2>1, <2>4, <2>5 DEF Base
  <1>3. CASE RecvQueued(t, e)
    <2>1. /\ TypeInv' /\ OpsTrue' /\ \A u \in Threads : u # t /\ ~alive[u] => DeadStep(u)
      BY <1>0, <1>3, RecvQueuedEffect
    <2>2. /\ OnlyEp(e) /\ ep'[e].receivers = Append(ep[e].receivers, t) /\ ep'[e].senders = <<>>
          /\ ep'[e].caller = ep[e].caller /\ ep'[e].owner = ep[e].owner
      BY <1>0, <1>3, RecvQueuedStep
    <2>3. ToSet(ep'[e].receivers) = ToSet(ep[e].receivers) \cup {t} /\ ToSet(ep'[e].senders) = {}
      <3>1. ep[e].receivers \in Seq(Threads) BY <1>0, EpFields
      <3> QED BY <2>2, <3>1, AppendSet, EmptySet
    <2>4. Habits' BY <1>0, <1>1, <2>2, <2>3, HabitsOne
    <2>5. DeadSwept' BY <1>0, <1>1, <2>1, DeadKept
    <2> QED BY <2>1, <2>4, <2>5 DEF Base
  <1>4. CASE RecvRefused(t, e)
    <2>1. /\ TypeInv' /\ OpsTrue' /\ \A u \in Threads : ~alive[u] => DeadStep(u)
      BY <1>0, <1>4, RecvRefusedEffect
    <2>2. /\ OnlyEp(e) /\ ep'[e].receivers = ep[e].receivers /\ ep'[e].caller = ep[e].caller
          /\ ep'[e].owner = ep[e].owner /\ Dropped(ep[e].senders, ep'[e].senders)
      BY <1>0, <1>4, RecvRefusedStep
    <2>3. ToSet(ep'[e].senders) \subseteq ToSet(ep[e].senders)
      BY <1>0, <2>2, EpFields, DroppedSet
    <2>4. Habits' BY <1>0, <1>1, <2>2, <2>3, HabitsOne
    <2>5. DeadSwept' BY <1>0, <1>1, <2>1, DeadKept
    <2> QED BY <2>1, <2>4, <2>5 DEF Base
  <1>5. CASE Reply(t, e)
    <2>1. /\ TypeInv' /\ OpsTrue' /\ OnlyEp(e)
          /\ ep'[e].receivers = ep[e].receivers /\ ep'[e].senders = ep[e].senders
          /\ ep'[e].caller = None /\ ep'[e].owner = None
          /\ \A u \in Threads : ~alive[u] => DeadStep(u)
      BY <1>0, <1>5, ReplyEffect
    <2>4. Habits' BY <1>0, <1>1, <2>1, HabitsOne
    <2>5. DeadSwept' BY <1>0, <1>1, <2>1, DeadKept
    <2> QED BY <2>1, <2>4, <2>5 DEF Base
  <1> QED BY <1>2, <1>3, <1>4, <1>5

LEMMA WaitBase ==
  ASSUME Base, NEW t \in Threads, NEW n \in Notifications, NEW tm \in BOOLEAN,
         WaitReturns(t, n, tm) \/ WaitBlocks(t, n, tm), UNCHANGED world
  PROVE  Base'
PROOF
  <1>0. TypeInv /\ OpsTrue /\ Habits /\ DeadSwept BY DEF Base
  <1>1. ep' = ep /\ alive' = alive /\ alive[t] BY RunningAbsent DEF WaitReturns, WaitBlocks
  <1>2. \A u \in Threads : frist'[u] => frist[u] \/ u \in world.timed
    BY <1>0, WaitReturnsStep, WaitBlocksStep
  <1>3. Habits' BY <1>0, <1>1, <1>2, HabitsSame
  <1>4. /\ TypeInv' /\ OpsTrue' /\ \A u \in Threads : ~alive[u] => DeadStep(u)
    BY <1>0, <1>1, WaitReturnsEffect, WaitBlocksEffect
  <1>5. DeadSwept' BY <1>0, <1>1, <1>4, DeadKept
  <1> QED BY <1>3, <1>4, <1>5 DEF Base

LEMMA ThreadBase ==
  ASSUME Base, NEW t \in Threads, Return(t), UNCHANGED world
  PROVE  Base'
PROOF
  <1>0. TypeInv /\ OpsTrue /\ Habits /\ DeadSwept BY DEF Base
  <1>1. ep' = ep /\ alive' = alive /\ frist' = frist /\ alive[t] BY DEF Return
  <1>3. Habits' BY <1>0, <1>1, HabitsSame
  <1>4. /\ TypeInv' /\ OpsTrue' /\ \A u \in Threads : ~alive[u] => DeadStep(u)
    BY <1>0, <1>1, ReturnEffect
  <1>5. DeadSwept' BY <1>0, <1>1, <1>4, DeadKept
  <1> QED BY <1>3, <1>4, <1>5 DEF Base

LEMMA CoreBase ==
  ASSUME Base, NEW c \in Cores, UNCHANGED world,
         \/ Wake(c) \/ SwitchToDead(c) \/ SweepBegin(c) \/ SweepEnd(c)
         \/ \E n \in Notifications, b \in world.badges : Signal(c, n, b)
         \/ \E D \in SUBSET Armed(c) : Tick(c, D)
         \/ \E t \in Threads : Orphan(c, t)
  PROVE  Base'
PROOF
  <1>0. TypeInv /\ OpsTrue /\ Habits /\ DeadSwept BY DEF Base
  <1>1. ep' = ep /\ alive' = alive
    BY DEF Wake, SwitchToDead, SweepBegin, SweepEnd, Signal, Tick, Orphan, threadVars
  <1>2. \A u \in Threads : frist'[u] => frist[u]
    BY DEF Wake, SwitchToDead, SweepBegin, SweepEnd, Signal, Tick, Orphan, threadVars
  <1>3. Habits' BY <1>0, <1>1, <1>2, HabitsSame
  <1>4. /\ TypeInv' /\ OpsTrue' /\ \A u \in Threads : ~alive[u] => DeadStep(u)
    <2>1. CASE Wake(c) BY <1>0, <2>1, WakeEffect
    <2>2. CASE SwitchToDead(c) BY <1>0, <2>2, SwitchToDeadEffect
    <2>3. CASE SweepBegin(c) BY <1>0, <2>3, SweepBeginEffect
    <2>4. CASE SweepEnd(c) BY <1>0, <2>4, SweepEndEffect
    <2>5. CASE \E n \in Notifications, b \in world.badges : Signal(c, n, b)
      <3>1. PICK n \in Notifications, b \in world.badges : Signal(c, n, b) BY <2>5
      <3> QED BY <1>0, <3>1, SignalEffect
    <2>6. CASE \E D \in SUBSET Armed(c) : Tick(c, D)
      <3>1. PICK D \in SUBSET Armed(c) : Tick(c, D) BY <2>6
      <3>2. \A u \in D : alive[u] BY DEF Armed
      <3> QED BY <1>0, <3>1, <3>2, TickEffect
    <2>7. CASE \E t \in Threads : Orphan(c, t)
      <3>1. PICK t \in Threads : Orphan(c, t) BY <2>7
      <3> QED BY <1>0, <3>1, OrphanEffect
    <2> QED BY <2>1, <2>2, <2>3, <2>4, <2>5, <2>6, <2>7
  <1>5. DeadSwept' BY <1>0, <1>1, <1>4, DeadKept
  <1> QED BY <1>3, <1>4, <1>5 DEF Base

LEMMA DieBase ==
  ASSUME Base, NEW c \in Cores, NEW t \in Threads, Die(c, t), UNCHANGED world
  PROVE  Base'
PROOF
  <1>0. TypeInv /\ OpsTrue /\ Habits /\ DeadSwept /\ TypeOK BY DEF Base, TypeInv
  <1>1. /\ t \in world.mortal /\ alive' = [alive EXCEPT ![t] = FALSE]
        /\ frist' = [frist EXCEPT ![t] = FALSE]
    BY DEF Die
  <1>2. /\ \A u \in Threads : ~alive'[u] => ~alive[u] \/ u \in world.mortal
        /\ \A u \in Threads : frist'[u] => frist[u]
        /\ \A u \in Threads : u # t => alive'[u] = alive[u]
    BY <1>0, <1>1 DEF TypeOK
  <1>3. /\ TypeInv' /\ OpsTrue' /\ ep' = ep
        /\ \A u \in Threads : u # t /\ ~alive[u] => DeadStep(u)
        /\ ~alive'[t] /\ ~ipc'[t] /\ wait'[t] = User
        /\ \A o \in Objs : SweepPending(t, o)'
    BY <1>0, DieEffect
  <1>4. Habits' BY <1>0, <1>2, <1>3, HabitsSame
  <1>5. DeadSwept'
    <2> SUFFICES ASSUME NEW u \in Threads, ~alive'[u] PROVE DeadOK(u)' BY DEF DeadSwept
    <2>1. CASE u = t BY <1>3, <2>1 DEF DeadOK, Objs
    <2>2. CASE u # t
      <3>1. ~alive[u] /\ DeadOK(u) /\ DeadStep(u) BY <1>0, <1>2, <1>3, <2>2 DEF DeadSwept
      <3> QED BY <3>1 DEF DeadOK, DeadStep
    <2> QED BY <2>1, <2>2
  <1> QED BY <1>3, <1>4, <1>5 DEF Base

LEMMA SweepBase ==
  ASSUME Base, NEW c \in Cores, UNCHANGED world,
         \/ \E t \in Threads, o \in Objs : Purge(c, t, o)
         \/ \E e \in Endpoints : SweepEp(c, e)
  PROVE  Base'
PROOF
  <1>0. TypeInv /\ OpsTrue /\ Habits /\ DeadSwept BY DEF Base
  <1>1. alive' = alive /\ frist' = frist BY DEF Purge, SweepEp, threadVars
  <1>2. CASE \E t \in Threads, o \in Objs : Purge(c, t, o)
    <2>1. PICK t \in Threads, o \in Objs : Purge(c, t, o) BY <1>2
    <2>2. /\ TypeInv' /\ OpsTrue' /\ \A u \in Threads : ~alive[u] => DeadStep(u)
      BY <1>0, <2>1, PurgeEffect
    <2>3. /\ o \in Endpoints => OnlyEp(o) /\ ep'[o] = PurgedEp(ep[o], t)
          /\ o \notin Endpoints => ep' = ep
      BY <1>0, <2>1, PurgeStep
    <2>4. CASE o \in Endpoints
      <3>1. /\ ep'[o].senders = Without(ep[o].senders, t)
            /\ ep'[o].receivers = Without(ep[o].receivers, t)
            /\ ep'[o].caller \in {None, ep[o].caller} /\ ep'[o].owner \in {None, ep[o].owner}
        BY <1>0, <2>3, <2>4, PurgedTyped
      <3>2. /\ ToSet(ep'[o].senders) \subseteq ToSet(ep[o].senders)
            /\ ToSet(ep'[o].receivers) \subseteq ToSet(ep[o].receivers)
        <4>1. ep[o].senders \in Seq(Threads) /\ ep[o].receivers \in Seq(Threads)
          BY <1>0, <2>4, EpFields DEF TypeInv
        <4> QED BY <3>1, <4>1, WithoutLeaves
      <3>3. Habits' BY <1>0, <1>1, <2>3, <2>4, <3>1, <3>2, HabitsOne
      <3>4. DeadSwept' BY <1>0, <1>1, <2>2, DeadKept
      <3> QED BY <2>2, <3>3, <3>4 DEF Base
    <2>5. CASE o \notin Endpoints
      <3>3. Habits' BY <1>0, <1>1, <2>3, <2>5, HabitsSame
      <3>4. DeadSwept' BY <1>0, <1>1, <2>2, DeadKept
      <3> QED BY <2>2, <3>3, <3>4 DEF Base
    <2> QED BY <2>4, <2>5
  <1>3. CASE \E e \in Endpoints : SweepEp(c, e)
    <2>1. PICK e \in Endpoints : SweepEp(c, e) BY <1>3
    <2>2. /\ TypeInv' /\ OpsTrue' /\ OnlyEp(e)
          /\ ToSet(ep'[e].senders) \subseteq ToSet(ep[e].senders)
          /\ ToSet(ep'[e].receivers) \subseteq ToSet(ep[e].receivers)
          /\ ep'[e].caller = None => ep'[e].owner = None
          /\ ep'[e].caller # None => ep'[e].caller = ep[e].caller /\ ep'[e].owner = ep[e].owner
          /\ \A u \in Threads : ~alive[u] => DeadStep(u)
      BY <1>0, <2>1, SweepEpEffect
    <2>3. Habits' BY <1>0, <1>1, <2>2, HabitsOne
    <2>4. DeadSwept' BY <1>0, <1>1, <2>2, DeadKept
    <2> QED BY <2>2, <2>3, <2>4 DEF Base
  <1> QED BY <1>2, <1>3

LEMMA ManageBase ==
  ASSUME Base, NEW c \in Cores, NEW e \in Endpoints, UNCHANGED world,
         \/ AbortCall(c, e) \/ \E q \in BOOLEAN : SetQuiescing(c, e, q)
         \/ \E t \in Threads : \/ RetireReceiver(c, e, t) \/ MigrateOwner(c, e, t)
                               \/ \E new \in Threads : RebindServer(c, e, t, new)
  PROVE  Base'
PROOF
  <1>0. TypeInv /\ OpsTrue /\ Habits /\ DeadSwept BY DEF Base
  <1>1. alive' = alive /\ frist' = frist
    BY DEF AbortCall, SetQuiescing, RetireReceiver, MigrateOwner, RebindServer, threadVars
  <1>2. /\ TypeInv' /\ OpsTrue' /\ Habits' /\ \A u \in Threads : ~alive[u] => DeadStep(u)
    <2>1. CASE AbortCall(c, e)
      <3>1. /\ TypeInv' /\ OpsTrue' /\ OnlyEp(e)
            /\ ep'[e].senders = ep[e].senders /\ ep'[e].receivers = ep[e].receivers
            /\ ep'[e].caller = None /\ ep'[e].owner = None
            /\ \A u \in Threads : ~alive[u] => DeadStep(u)
        BY <1>0, <2>1, AbortCallEffect
      <3> QED BY <1>0, <1>1, <3>1, HabitsOne
    <2>2. CASE \E q \in BOOLEAN : SetQuiescing(c, e, q)
      <3>0. PICK q \in BOOLEAN : SetQuiescing(c, e, q) BY <2>2
      <3>1. /\ TypeInv' /\ OpsTrue' /\ \A u \in Threads : ~alive[u] => DeadStep(u)
        BY <1>0, <3>0, SetQuiescingEffect
      <3>2. /\ OnlyEp(e)
            /\ ep'[e].senders = ep[e].senders /\ ep'[e].receivers = ep[e].receivers
            /\ ep'[e].caller = ep[e].caller /\ ep'[e].owner = ep[e].owner
        BY <1>0, <3>0, SetQuiescingStep
      <3> QED BY <1>0, <1>1, <3>1, <3>2, HabitsOne
    <2>3. CASE \E t \in Threads : RetireReceiver(c, e, t)
                                    \/ \E new \in Threads : RebindServer(c, e, t, new)
      <3>0. PICK t \in Threads : RetireReceiver(c, e, t)
                                    \/ \E new \in Threads : RebindServer(c, e, t, new)
        BY <2>3
      <3>1. /\ TypeInv' /\ OpsTrue' /\ OnlyEp(e)
            /\ ep'[e].senders = ep[e].senders /\ ep'[e].caller = ep[e].caller
            /\ ep'[e].owner = ep[e].owner
            /\ ToSet(ep'[e].receivers) \subseteq ToSet(ep[e].receivers)
            /\ \A u \in Threads : ~alive[u] => DeadStep(u)
        BY <1>0, <3>0, RetireEffect
      <3> QED BY <1>0, <1>1, <3>1, HabitsOne
    <2>4. CASE \E t \in Threads : MigrateOwner(c, e, t)
      <3>0. PICK t \in Threads : MigrateOwner(c, e, t) BY <2>4
      <3>1. /\ TypeInv' /\ OpsTrue' /\ OnlyEp(e)
            /\ ep'[e].receivers = ep[e].receivers /\ ep'[e].caller = None /\ ep'[e].owner = None
            /\ ToSet(ep'[e].senders) = ToSet(ep[e].senders) \cup {ep[e].caller}
            /\ \A u \in Threads : ~alive[u] => DeadStep(u)
        BY <1>0, <3>0, MigrateOwnerEffect
      <3> QED BY <1>0, <1>1, <3>1, HabitsOne
    <2> QED BY <2>1, <2>2, <2>3, <2>4
  <1>3. DeadSwept' BY <1>0, <1>1, <1>2, DeadKept
  <1> QED BY <1>2, <1>3 DEF Base

LEMMA BaseInit == ASSUME Init PROVE Base
PROOF
  <1>1. /\ ep = [e \in Endpoints |-> [quiescing |-> FALSE, senders |-> EmptyQueue,
                   receivers |-> EmptyQueue, caller |-> None, owner |-> None]]
        /\ nt = [n \in Notifications |-> [pending |-> {}, waiter |-> None]]
        /\ alive = [t \in Threads |-> TRUE] /\ ipc = [t \in Threads |-> FALSE]
        /\ frist = [t \in Threads |-> FALSE] /\ frame = [t \in Threads |-> NoFrame]
        /\ wait = [t \in Threads |-> User] /\ serving = [t \in Threads |-> NoDebt]
        /\ op = [c \in Cores |-> Idle] /\ retired = {} /\ owed = {} /\ panic = FALSE
        /\ world \in World
    BY IpcAssumption DEF Init, EmptyQueue
  <1>2. \A e \in Endpoints : ep[e].senders = EmptyQueue /\ ep[e].receivers = EmptyQueue
                             /\ ep[e].caller = None /\ ep[e].owner = None
    BY <1>1
  <1>3. TypeOK
    <2>1. ep \in [Endpoints -> Endpoint] /\ AllLengths
      BY <1>1, <1>2, EmptyTyped DEF Endpoint, AllLengths, Lengths
    <2>2. nt \in [Notifications -> Notification] BY <1>1 DEF Notification
    <2>3. frame \in [Threads -> Frame] /\ wait \in [Threads -> Syscall] BY <1>1, NoFrameTyped
    <2>4. op \in [Cores -> Operation] BY <1>1, IdleTyped
    <2>5. serving \in [Threads -> [Endpoints -> Threads \cup {None, "stale"}]]
      BY <1>1 DEF NoDebt
    <2> QED BY <1>1, <2>1, <2>2, <2>3, <2>4, <2>5 DEF TypeOK, AllLengths, Lengths
  <1>4. TokenWhole BY <1>2 DEF TokenWhole
  <1>5. \A c \in Cores : op[c] = Idle /\ op[c].k = "idle" /\ op[c].obj = None
    BY <1>1 DEF Idle
  <1>6. OpsTrue
    <2>1. \A c \in Cores : OpOK(c) BY <1>5 DEF OpOK, Idle
    <2> QED BY <1>5, <2>1 DEF OpsTrue, LocksExclusive
  <1>7. Habits
    <2>1. \A e \in Endpoints : EpHabit(e)
      BY <1>2, EmptySet DEF EpHabit, EmptyQueue
    <2> QED BY <1>1, <2>1 DEF Habits
  <1>8. DeadSwept BY <1>1 DEF DeadSwept
  <1> QED BY <1>3, <1>4, <1>6, <1>7, <1>8 DEF Base, TypeInv

LEMMA BaseStutters == ASSUME Base, UNCHANGED vars PROVE Base'
PROOF
  <1> USE DEF vars, moving
  <1>1. TypeInv' BY DEF Base, TypeInv, TypeOK, TokenWhole
  <1>2. OpsTrue' BY OpsSame DEF Base
  <1>3. Habits' BY HabitsSame DEF Base
  <1>4. DeadSwept'
    <2>1. \A u \in Threads : DeadOK(u) <=> DeadOK(u)'
      BY DEF DeadOK, Snd, Rcv, Clr, Wtr, SweepPending
    <2> QED BY <2>1 DEF Base, DeadSwept
  <1> QED BY <1>1, <1>2, <1>3, <1>4 DEF Base

\* A step of the specification is one of the groups below.
LEMMA Steps ==
  ASSUME Next
  PROVE  /\ UNCHANGED world
         /\ \/ \E t \in Threads, e \in Endpoints, tm \in BOOLEAN :
                 CallRefused(t, e, tm) \/ CallRendezvous(t, e, tm) \/ CallQueued(t, e, tm)
            \/ \E t \in Threads, e \in Endpoints :
                 RecvRendezvous(t, e) \/ RecvQueued(t, e) \/ RecvRefused(t, e) \/ Reply(t, e)
            \/ \E t \in Threads, n \in Notifications, tm \in BOOLEAN :
                 WaitReturns(t, n, tm) \/ WaitBlocks(t, n, tm)
            \/ \E t \in Threads : Return(t)
            \/ \E c \in Cores :
                 \/ Wake(c) \/ SwitchToDead(c) \/ SweepBegin(c) \/ SweepEnd(c)
                 \/ \E n \in Notifications, b \in world.badges : Signal(c, n, b)
                 \/ \E D \in SUBSET Armed(c) : Tick(c, D)
                 \/ \E t \in Threads : Orphan(c, t)
            \/ \E c \in Cores, t \in Threads : Die(c, t)
            \/ \E c \in Cores : \/ \E t \in Threads, o \in Objs : Purge(c, t, o)
                                \/ \E e \in Endpoints : SweepEp(c, e)
            \/ \E c \in Cores, e \in Endpoints :
                 \/ AbortCall(c, e) \/ \E q \in BOOLEAN : SetQuiescing(c, e, q)
                 \/ \E t \in Threads : \/ RetireReceiver(c, e, t) \/ MigrateOwner(c, e, t)
                                       \/ \E new \in Threads : RebindServer(c, e, t, new)
  BY DEF Next, Step

LEMMA BaseStep == ASSUME Base, [Next]_vars PROVE Base'
PROOF
  <1>1. CASE UNCHANGED vars BY <1>1, BaseStutters
  <1>2. CASE Next
    BY <1>2, Steps, CallBase, RecvBase, WaitBase, ThreadBase, CoreBase, DieBase, SweepBase,
       ManageBase
  <1> QED BY <1>1, <1>2

\* Every endpoint, notification, saved frame and kernel operation keeps its type whatever the
\* threads do, and no queue of an endpoint exceeds QUEUE_CAP.
THEOREM IpcTypes == Spec => []TypeOK
PROOF
  <1>1. Base => TypeOK BY DEF Base, TypeInv
  <1> QED BY <1>1, BaseInit, BaseStep, PTL DEF Spec

-----------------------------------------------------------------------------
(* A live thread: entered where it waits, and only there                   *)

\* Thread t is in system call k on object o; whoever takes it off its place finds it blocked with
\* nothing written yet, unless its deadline was first and the sweep is on its way.
In(t, k, o) == wait[t].k = k /\ wait[t].obj = o
Still(t, o) == (ipc[t] /\ frame[t] = NoFrame) \/ Off(t, o)
Unwoken(t) == \A c \in Cores : ~Tgt(t, c) /\ ~Orp(t, c)

SndOK(t) == \A e \in Endpoints : Snd(t, e) => In(t, "call", e) /\ Still(t, e) /\ Unwoken(t)
ClrOK(t) == \A e \in Endpoints : Clr(t, e) =>
  /\ In(t, "call", e) /\ Unwoken(t)
  /\ Still(t, e) \/ (Self(t) /\ op[CoreOf[t]].obj = e)
RcvOK(t) == \A e \in Endpoints : Rcv(t, e) => In(t, "recv", e) /\ Still(t, e) /\ Unwoken(t)
WtrOK(t) == \A n \in Notifications : Wtr(t, n) => In(t, "wait", n) /\ Still(t, n) /\ Unwoken(t)

\* Who is about to be woken waits for the object whose lock is held, its result written.
TgtOK(t) == \A c \in Cores : Tgt(t, c) =>
  /\ wait[t].k # "user" /\ wait[t].obj = op[c].obj /\ frame[t].res # None
  /\ op[c].self # None => wait[t].k = "recv"
  /\ ipc[t] \/ Off(t, op[c].obj)
OrpOK(t) == \A c \in Cores : Orp(t, c) =>
  /\ wait[t].k = "call" /\ ipc[t] /\ frame[t] = NoFrame
  /\ \A d \in Cores : ~Tgt(t, d) /\ (Orp(t, d) => d = c)
OffOK(t) == \A c \in Cores, o \in Objs : OffAt(t, o, c) =>
  /\ c = CoreOf[t] /\ ~ipc[t] /\ wait[t].k # "user" /\ frame[t].res # None /\ t \in world.timed

ThreadOK(t) ==
  /\ wait[t].k = "user" <=> wait[t] = User
  /\ wait[t].k = "user" => ~ipc[t] /\ frame[t] = NoFrame
  /\ wait[t].k # "user" /\ ~ipc[t] => frame[t].res # None \/ Self(t)
  /\ wait[t].k = "recv" => /\ wait[t].timed = FALSE
                           /\ \A e \in Endpoints : wait[t].obj = e => serving[t][e] = None
                           /\ frame[t].res = "OK" => frame[t].from # None
SelfOK(t) == Self(t) =>
  /\ ~ipc[t] /\ frame[t] = NoFrame /\ wait[t].k = "call"
  /\ \E e \in Endpoints : wait[t].obj = e /\ op[CoreOf[t]].obj = e /\ Clr(t, e)

LiveOK(t) ==
  /\ SndOK(t) /\ ClrOK(t) /\ RcvOK(t) /\ WtrOK(t) /\ TgtOK(t) /\ OrpOK(t) /\ OffOK(t)
  /\ ThreadOK(t) /\ SelfOK(t)

\* A caller is not among the senders; nobody with a deadline becomes an orphan.
Apart == \A e \in Endpoints : ep[e].caller \notin ToSet(ep[e].senders)
NoTimedOrphan == world.timed # {} => \A c \in Cores : op[c].orphans = {}
Live == Single /\ Apart /\ NoTimedOrphan /\ \A t \in Threads : alive[t] => LiveOK(t)

LEMMA NoFrameFields == NoFrame.res = None /\ NoFrame.from = None /\ NoFrame.bits = {}
  BY DEF NoFrame

LEMMA UserFields == User.k = "user" /\ User.obj = None /\ User.timed = FALSE
  BY DEF User

\* The operations on t are the ones before the step.
LEMMA OpViewFacts ==
  ASSUME NEW t \in Threads, OpView(t)
  PROVE  /\ CoreOf[t] \in Cores
         /\ Unwoken(t)' <=> Unwoken(t)
         /\ \A o \in Objs : Off(t, o)' <=> Off(t, o)
         /\ Self(t)' <=> Self(t)
         /\ Self(t) => op'[CoreOf[t]].obj = op[CoreOf[t]].obj
         /\ \A c \in Cores : Tgt(t, c) => op'[c].obj = op[c].obj /\ op'[c].self = op[c].self
  BY DEF OpView, Unwoken, Off

\* Who at most loses entries, save the one its own rendezvous just made, and is left alone
\* otherwise stays as it has to be.
EpKept(t) == \A e \in Endpoints :
  /\ (Snd(t, e)' => Snd(t, e)) /\ (Rcv(t, e)' => Rcv(t, e)) /\ (Clr(t, e)' => Clr(t, e))
  /\ op[CoreOf[t]].obj = e /\ Clr(t, e) => Clr(t, e)'

LEMMA LiveStays ==
  ASSUME OpsTrue, UNCHANGED world, NEW t \in Threads, LiveOK(t),
         EpKept(t), NtView(t), OpView(t), ThreadView(t)
  PROVE  LiveOK(t)'
PROOF
  <1>0. Endpoints \subseteq Objs /\ Notifications \subseteq Objs BY DEF Objs
  <1>1. /\ CoreOf[t] \in Cores
        /\ Unwoken(t)' <=> Unwoken(t)
        /\ \A o \in Objs : Off(t, o)' <=> Off(t, o)
        /\ Self(t)' <=> Self(t)
        /\ Self(t) => op'[CoreOf[t]].obj = op[CoreOf[t]].obj
        /\ \A c \in Cores : Tgt(t, c) => op'[c].obj = op[c].obj /\ op'[c].self = op[c].self
    BY OpViewFacts
  <1>2. /\ alive'[t] = alive[t] /\ ipc'[t] = ipc[t] /\ wait'[t] = wait[t]
        /\ frame'[t].res = frame[t].res
        /\ frame'[t] = NoFrame <=> frame[t] = NoFrame
        /\ frame'[t].from = None <=> frame[t].from = None
        /\ wait[t].k = "recv" => \A x \in Endpoints : serving'[t][x] = None <=> serving[t][x] = None
    BY DEF ThreadView
  <1>3. \A o \in Objs : Still(t, o)' <=> Still(t, o) BY <1>1, <1>2 DEF Still
  <1>4. \A k, o : In(t, k, o)' <=> In(t, k, o) BY <1>2 DEF In
  <1>5. SndOK(t)' BY <1>0, <1>1, <1>3, <1>4 DEF SndOK, LiveOK, EpKept
  <1>6. ClrOK(t)' BY <1>0, <1>1, <1>3, <1>4 DEF ClrOK, LiveOK, EpKept
  <1>7. RcvOK(t)' BY <1>0, <1>1, <1>3, <1>4 DEF RcvOK, LiveOK, EpKept
  <1>8. WtrOK(t)' BY <1>0, <1>1, <1>3, <1>4 DEF WtrOK, LiveOK, NtView
  <1>9. TgtOK(t)'
    <2> SUFFICES ASSUME NEW c \in Cores, Tgt(t, c)'
                 PROVE  /\ wait'[t].k # "user" /\ wait'[t].obj = op'[c].obj /\ frame'[t].res # None
                        /\ op'[c].self # None => wait'[t].k = "recv"
                        /\ ipc'[t] \/ Off(t, op[c].obj)'
                        /\ op'[c].obj = op[c].obj
      BY DEF TgtOK
    <2>1. Tgt(t, c) BY DEF OpView
    <2>2. op[c].obj \in Objs BY <2>1 DEF OpsTrue, OpOK, Tgt
    <2> QED BY <1>1, <1>2, <2>1, <2>2 DEF TgtOK, LiveOK
  <1>10. OrpOK(t)' BY <1>2 DEF OrpOK, LiveOK, OpView
  <1>11. OffOK(t)' BY <1>2 DEF OffOK, LiveOK, OpView
  <1>12. ThreadOK(t)' BY <1>1, <1>2 DEF ThreadOK, LiveOK
  <1>13. SelfOK(t)' BY <1>1, <1>2 DEF SelfOK, LiveOK, EpKept
  <1> QED BY <1>5, <1>6, <1>7, <1>8, <1>9, <1>10, <1>11, <1>12, <1>13 DEF LiveOK

LEMMA LiveLess ==
  ASSUME OpsTrue, UNCHANGED world, NEW t \in Threads, LiveOK(t), NEW e \in Endpoints, Unlocked(e),
         EpLess(t, e), NtView(t), OpView(t), ThreadView(t)
  PROVE  LiveOK(t)'
PROOF
  <1>1. EpKept(t) BY DEF EpKept, EpLess, Unlocked
  <1> QED BY <1>1, LiveStays

LEMMA LiveKept ==
  ASSUME OpsTrue, UNCHANGED world, NEW t \in Threads, LiveOK(t), Untouched(t)
  PROVE  LiveOK(t)'
PROOF
  <1>1. EpKept(t) BY DEF EpKept, Untouched, EpView
  <1> QED BY <1>1, LiveStays DEF Untouched

\* A thread that runs is entered nowhere, and no operation is about it.
Clear(t) ==
  /\ \A e \in Endpoints : ~Snd(t, e) /\ ~Rcv(t, e) /\ ~Clr(t, e)
  /\ \A n \in Notifications : ~Wtr(t, n)
  /\ Unwoken(t) /\ (\A c \in Cores, o \in Objs : ~OffAt(t, o, c)) /\ ~Self(t)
  /\ frame[t] = NoFrame

LEMMA RunningClear ==
  ASSUME NEW t \in Threads, Running(t), LiveOK(t)
  PROVE  Clear(t)
PROOF
  <1>1. wait[t].k = "user" /\ ~Self(t) BY RunningAbsent, UserFields
  <1> QED BY <1>1 DEF Clear, LiveOK, SndOK, ClrOK, RcvOK, WtrOK, TgtOK, OrpOK, OffOK, ThreadOK,
                      In, Unwoken

\* Entered at one place, a thread is entered nowhere else.
LEMMA OnePlace ==
  ASSUME NEW t \in Threads, LiveOK(t)
  PROVE  /\ \A e, x \in Endpoints : /\ Rcv(t, e) => ~Snd(t, x) /\ ~Clr(t, x) /\ (Rcv(t, x) => x = e)
                                    /\ Snd(t, e) => ~Rcv(t, x) /\ (Snd(t, x) \/ Clr(t, x) => x = e)
                                    /\ Clr(t, e) => ~Rcv(t, x) /\ (Snd(t, x) \/ Clr(t, x) => x = e)
         /\ \A e \in Endpoints, n \in Notifications : Wtr(t, n) => ~Snd(t, e) /\ ~Rcv(t, e) /\ ~Clr(t, e)
         /\ \A m, n \in Notifications : Wtr(t, n) /\ Wtr(t, m) => m = n
  BY DEF LiveOK, SndOK, ClrOK, RcvOK, WtrOK, In

LEMMA SndFacts ==
  ASSUME NEW t \in Threads, LiveOK(t), NEW e \in Endpoints, Snd(t, e)
  PROVE  /\ wait[t].k = "call" /\ wait[t].obj = e /\ Still(t, e) /\ Unwoken(t)
         /\ \A x \in Endpoints : ~Rcv(t, x) /\ (Snd(t, x) \/ Clr(t, x) => x = e)
         /\ \A n \in Notifications : ~Wtr(t, n)
PROOF
  <1>1. In(t, "call", e) /\ Still(t, e) /\ Unwoken(t) BY DEF LiveOK, SndOK
  <1> QED BY <1>1, OnePlace DEF In

LEMMA ClrFacts ==
  ASSUME NEW t \in Threads, LiveOK(t), NEW e \in Endpoints, Clr(t, e)
  PROVE  /\ wait[t].k = "call" /\ wait[t].obj = e /\ Unwoken(t)
         /\ Still(t, e) \/ (Self(t) /\ op[CoreOf[t]].obj = e)
         /\ \A x \in Endpoints : ~Rcv(t, x) /\ (Snd(t, x) \/ Clr(t, x) => x = e)
         /\ \A n \in Notifications : ~Wtr(t, n)
PROOF
  <1>1. /\ In(t, "call", e) /\ Unwoken(t) /\ (Still(t, e) \/ (Self(t) /\ op[CoreOf[t]].obj = e))
    BY DEF LiveOK, ClrOK
  <1> QED BY <1>1, OnePlace DEF In

LEMMA RcvFacts ==
  ASSUME NEW t \in Threads, LiveOK(t), NEW e \in Endpoints, Rcv(t, e)
  PROVE  /\ wait[t].k = "recv" /\ wait[t].obj = e /\ Still(t, e) /\ Unwoken(t) /\ ~Self(t)
         /\ serving[t][e] = None /\ wait[t].timed = FALSE
         /\ \A x \in Endpoints : ~Snd(t, x) /\ ~Clr(t, x) /\ (Rcv(t, x) => x = e)
         /\ \A n \in Notifications : ~Wtr(t, n)
PROOF
  <1>1. In(t, "recv", e) /\ Still(t, e) /\ Unwoken(t) BY DEF LiveOK, RcvOK
  <1> QED BY <1>1, OnePlace DEF In, LiveOK, SelfOK, ThreadOK

LEMMA WtrFacts ==
  ASSUME NEW t \in Threads, LiveOK(t), NEW n \in Notifications, Wtr(t, n)
  PROVE  /\ wait[t].k = "wait" /\ wait[t].obj = n /\ Still(t, n) /\ Unwoken(t) /\ ~Self(t)
         /\ \A x \in Endpoints : ~Snd(t, x) /\ ~Clr(t, x) /\ ~Rcv(t, x)
         /\ \A m \in Notifications : Wtr(t, m) => m = n
PROOF
  <1>1. In(t, "wait", n) /\ Still(t, n) /\ Unwoken(t) BY DEF LiveOK, WtrOK
  <1> QED BY <1>1, OnePlace DEF In, LiveOK, SelfOK

LEMMA ApartOne ==
  ASSUME Apart, NEW e \in Endpoints, OnlyEp(e), ep'[e].caller \notin ToSet(ep'[e].senders)
  PROVE  Apart'
  BY DEF Apart, OnlyEp

LEMMA OrphansOne ==
  ASSUME NoTimedOrphan, UNCHANGED world, NEW c \in Cores, OnlyCore(c),
         op'[c].orphans \subseteq op[c].orphans
  PROVE  NoTimedOrphan'
  BY DEF NoTimedOrphan, OnlyCore

LEMMA QueueNone ==
  ASSUME TypeInv, NEW e \in Endpoints
  PROVE  None \notin ToSet(ep[e].senders) /\ None \notin ToSet(ep[e].receivers)
PROOF
  <1>1. ep[e].senders \in Seq(Threads) /\ ep[e].receivers \in Seq(Threads)
    BY EpFields DEF TypeInv
  <1> QED BY <1>1, SeqSet

LEMMA CallRefusedLive ==
  ASSUME Base, Live, NEW t \in Threads, NEW e \in Endpoints, NEW tm \in BOOLEAN,
         CallRefused(t, e, tm), UNCHANGED world
  PROVE  Live'
PROOF
  <1>0. TypeInv /\ OpsTrue BY DEF Base
  <1>1. Single' /\ \A u \in Threads : alive[u] => Untouched(u) BY <1>0, CallRefusedEffect DEF Live
  <1>2. /\ OnlyEp(e) /\ ep'[e].senders = ep[e].senders /\ ep'[e].caller = ep[e].caller
    BY <1>0, CallRefusedStep
  <1>3. Apart' BY <1>2, ApartOne DEF Live, Apart
  <1>4. op' = op /\ alive' = alive BY DEF CallRefused
  <1>5. NoTimedOrphan' BY <1>4 DEF Live, NoTimedOrphan
  <1> QED BY <1>0, <1>1, <1>3, <1>4, <1>5, LiveKept DEF Live

LEMMA CallQueuedLive ==
  ASSUME Base, Live, NEW t \in Threads, NEW e \in Endpoints, NEW tm \in BOOLEAN,
         CallQueued(t, e, tm), UNCHANGED world
  PROVE  Live'
PROOF
  <1>0. TypeInv /\ OpsTrue /\ TypeOK BY DEF Base, TypeInv
  <1>1. /\ Running(t) /\ op' = op /\ alive' = alive /\ frame' = frame /\ serving' = serving
        /\ wait' = [wait EXCEPT ![t] = [k |-> "call", obj |-> e, timed |-> tm]]
        /\ ipc' = [ipc EXCEPT ![t] = TRUE]
    BY DEF CallQueued, CallEntry
  <1>2. alive[t] /\ LiveOK(t) /\ Clear(t) BY <1>1, RunningAbsent, RunningClear DEF Live
  <1>3. /\ Single /\ ~Snd(t, e) => Single'
        /\ OnlyEp(e)
        /\ \A u \in Threads : u # t /\ alive[u] => Untouched(u)
        /\ NtView(t) /\ OpView(t)
        /\ \A x \in Endpoints : /\ Snd(t, x)' <=> Snd(t, x) \/ x = e
                                /\ Rcv(t, x)' <=> Rcv(t, x)
                                /\ Clr(t, x)' <=> Clr(t, x)
    BY <1>0, CallQueuedEffect
  <1>4. Single' BY <1>2, <1>3 DEF Live, Clear
  <1>5. Apart'
    <2>1. /\ ep'[e].senders = Append(ep[e].senders, t) /\ ep'[e].caller = ep[e].caller
      BY <1>0, CallQueuedStep
    <2>2. ep[e].senders \in Seq(Threads) BY <1>0, EpFields
    <2>3. ToSet(ep'[e].senders) = ToSet(ep[e].senders) \cup {t} BY <2>1, <2>2, AppendSet
    <2>4. ep[e].caller # t BY <1>2 DEF Clear, Clr
    <2> QED BY <1>3, <2>1, <2>3, <2>4, ApartOne DEF Live, Apart
  <1>6. NoTimedOrphan' BY <1>1 DEF Live, NoTimedOrphan
  <1>7. LiveOK(t)'
    <2>1. /\ wait'[t].k = "call" /\ wait'[t].obj = e /\ ipc'[t] /\ frame'[t] = NoFrame
      BY <1>0, <1>1, <1>2 DEF TypeOK, Clear
    <2>2. Unwoken(t)' /\ ~Self(t)' /\ Still(t, e)' /\ In(t, "call", e)'
      BY <1>2, <1>3, <2>1, OpViewFacts DEF Clear, Still, In
    <2>3. /\ SndOK(t)' /\ ClrOK(t)' /\ RcvOK(t)' /\ WtrOK(t)'
      BY <1>2, <1>3, <2>2 DEF Clear, SndOK, ClrOK, RcvOK, WtrOK, NtView
    <2>4. TgtOK(t)' /\ OrpOK(t)' BY <2>2 DEF TgtOK, OrpOK, Unwoken
    <2>5. OffOK(t)' BY <1>2, <1>3 DEF OffOK, Clear, OpView
    <2>6. ThreadOK(t)' /\ SelfOK(t)' BY <2>1, <2>2, UserFields DEF ThreadOK, SelfOK
    <2> QED BY <2>3, <2>4, <2>5, <2>6 DEF LiveOK
  <1> QED BY <1>0, <1>1, <1>3, <1>4, <1>5, <1>6, <1>7, LiveKept DEF Live

LEMMA CallRendezvousLive ==
  ASSUME Base, Live, NEW t \in Threads, NEW e \in Endpoints, NEW tm \in BOOLEAN,
         CallRendezvous(t, e, tm), UNCHANGED world
  PROVE  Live'
PROOF
  <1>0. TypeInv /\ OpsTrue /\ TypeOK /\ Single /\ e \in Objs BY DEF Base, TypeInv, Live, Objs
  <1>1. /\ Running(t) /\ Unlocked(e) /\ alive' = alive /\ ipc' = ipc /\ serving' = serving /\ nt' = nt
        /\ wait' = [wait EXCEPT ![t] = [k |-> "call", obj |-> e, timed |-> tm]]
    BY DEF CallRendezvous, CallEntry
  <1>2. /\ alive[t] /\ LiveOK(t) /\ Clear(t) /\ CoreOf[t] \in Cores /\ wait[t] = User /\ ~ipc[t]
        /\ Free(CoreOf[t])
    BY <1>1, RunningAbsent, RunningClear DEF Live
  <1>3. Single' /\ OnlyEp(e) BY <1>0, CallRendezvousEffect
  <1>4. PICK s \in Threads :
              /\ Rcv(s, e) /\ alive[s] /\ (Single => ~Rcv(s, e)')
              /\ ep'[e].senders = ep[e].senders /\ ep'[e].caller = t /\ ep'[e].owner = s
              /\ ToSet(ep'[e].receivers) \subseteq ToSet(ep[e].receivers)
              /\ frame' = [frame EXCEPT ![s] = [res |-> "OK", from |-> t, bits |-> {}]]
              /\ OnlyCore(CoreOf[t]) /\ op'[CoreOf[t]].k = "wake" /\ op'[CoreOf[t]].obj = e
              /\ op'[CoreOf[t]].to = s /\ op'[CoreOf[t]].self = t
              /\ op'[CoreOf[t]].todo = {} /\ op'[CoreOf[t]].orphans = {}
              /\ \A u \in Threads : u # s /\ u # t /\ alive[u] =>
                   EpLess(u, e) /\ NtView(u) /\ OpView(u) /\ ThreadView(u)
    BY <1>0, CallRendezvousEffect
  <1>5. LiveOK(s) /\ s # t BY <1>2, <1>4 DEF Live, Clear
  <1>6. /\ wait[s].k = "recv" /\ wait[s].obj = e /\ Still(s, e) /\ Unwoken(s) /\ ~Self(s)
        /\ serving[s][e] = None /\ wait[s].timed = FALSE
        /\ \A x \in Endpoints : ~Snd(s, x) /\ ~Clr(s, x) /\ (Rcv(s, x) => x = e)
        /\ \A n \in Notifications : ~Wtr(s, n)
    BY <1>4, <1>5, RcvFacts
  <1>7. Apart'
    <2>1. t \notin ToSet(ep[e].senders) BY <1>2 DEF Clear, Snd
    <2> QED BY <1>3, <1>4, <2>1, ApartOne DEF Live
  <1>8. NoTimedOrphan' BY <1>2, <1>4, OrphansOne DEF Live
  <1>9. \A x \in Endpoints : x # e => \A u \in Threads :
           /\ Snd(u, x)' <=> Snd(u, x)
           /\ Rcv(u, x)' <=> Rcv(u, x)
           /\ Clr(u, x)' <=> Clr(u, x)
    BY <1>3 DEF OnlyEp, Snd, Rcv, Clr
  <1>10. /\ \A u \in Threads : (Snd(u, e)' <=> Snd(u, e)) /\ (Rcv(u, e)' => Rcv(u, e)) /\ (Clr(u, e)' <=> u = t)
         /\ \A u \in Threads, n \in Notifications : Wtr(u, n)' <=> Wtr(u, n)
    BY <1>1, <1>4 DEF Snd, Rcv, Clr, Wtr
  <1>11. \A d \in Cores : d # CoreOf[t] => op'[d] = op[d] BY <1>4 DEF OnlyCore
  <1>12. \A d \in Cores, u \in Threads :
           /\ Tgt(u, d)' <=> (IF d = CoreOf[t] THEN u = s ELSE Tgt(u, d))
           /\ Orp(u, d)' => Orp(u, d)
           /\ \A o \in Objs : OffAt(u, o, d)' <=> OffAt(u, o, d)
    <2> SUFFICES ASSUME NEW d \in Cores, NEW u \in Threads
                 PROVE  /\ Tgt(u, d)' <=> (IF d = CoreOf[t] THEN u = s ELSE Tgt(u, d))
                        /\ Orp(u, d)' => Orp(u, d)
                        /\ \A o \in Objs : OffAt(u, o, d)' <=> OffAt(u, o, d)
      OBVIOUS
    <2>1. CASE d = CoreOf[t]
      <3>1. op[d].k = "idle" BY <1>2, <2>1, FreeFields
      <3> QED BY <1>4, <2>1, <3>1 DEF Tgt, Orp, OffAt
    <2>2. CASE d # CoreOf[t] BY <1>11, <2>2 DEF Tgt, Orp, OffAt
    <2> QED BY <2>1, <2>2
  <1>13. Self(t)' /\ ~Self(s)'
    <2>1. CASE CoreOf[s] = CoreOf[t] BY <1>4, <1>5, <2>1 DEF Self
    <2>2. CASE CoreOf[s] # CoreOf[t]
      <3>1. op'[CoreOf[s]] = op[CoreOf[s]] BY <1>11, <2>2
      <3> QED BY <1>4, <1>6, <3>1 DEF Self
    <2> QED BY <2>1, <2>2
  <1>14. LiveOK(t)'
    <2>1. /\ wait'[t].k = "call" /\ wait'[t].obj = e /\ ~ipc'[t] /\ frame'[t] = NoFrame
      BY <1>0, <1>1, <1>2, <1>4, <1>5 DEF TypeOK, Clear
    <2>2. Unwoken(t)' BY <1>2, <1>5, <1>12 DEF Clear, Unwoken
    <2>3. /\ SndOK(t)' /\ ClrOK(t)' /\ RcvOK(t)' /\ WtrOK(t)'
      BY <1>2, <1>4, <1>9, <1>10, <1>13, <2>1, <2>2 DEF Clear, SndOK, ClrOK, RcvOK, WtrOK, In
    <2>4. TgtOK(t)' /\ OrpOK(t)' BY <2>2 DEF TgtOK, OrpOK, Unwoken
    <2>5. OffOK(t)' BY <1>2, <1>12 DEF OffOK, Clear
    <2>6. ThreadOK(t)' /\ SelfOK(t)'
      BY <1>4, <1>10, <1>13, <2>1, UserFields DEF ThreadOK, SelfOK
    <2> QED BY <2>3, <2>4, <2>5, <2>6 DEF LiveOK
  <1>15. LiveOK(s)'
    <2>1. /\ wait'[s] = wait[s] /\ ipc'[s] = ipc[s] /\ frame'[s].res = "OK" /\ frame'[s].from = t
          /\ serving'[s] = serving[s]
      BY <1>0, <1>1, <1>4, <1>5 DEF TypeOK
    <2>2. \A o \in Objs : Off(s, o)' <=> Off(s, o) BY <1>12 DEF Off
    <2>3. /\ SndOK(s)' /\ ClrOK(s)' /\ RcvOK(s)' /\ WtrOK(s)'
      BY <1>0, <1>4, <1>5, <1>6, <1>9, <1>10 DEF SndOK, ClrOK, RcvOK, WtrOK
    <2>4. TgtOK(s)'
      <3>1. ipc[s] \/ Off(s, e) BY <1>6 DEF Still
      <3>2. Off(s, e)' <=> Off(s, e) BY <1>0, <2>2
      <3>3. ASSUME NEW d \in Cores, Tgt(s, d)' PROVE d = CoreOf[t]
        BY <1>6, <1>12, <3>3 DEF Unwoken
      <3>4. op'[CoreOf[t]].obj = e BY <1>4
      <3> QED BY <1>6, <2>1, <3>1, <3>2, <3>3, <3>4 DEF TgtOK, None
    <2>5. OrpOK(s)' BY <1>6, <1>12 DEF OrpOK, Unwoken
    <2>6. OffOK(s)' BY <1>5, <1>12, <2>1 DEF OffOK, LiveOK, None
    <2>7. ThreadOK(s)' /\ SelfOK(s)'
      BY <1>6, <1>13, <2>1, UserFields, NoneApart DEF ThreadOK, SelfOK, None
    <2> QED BY <2>3, <2>4, <2>5, <2>6, <2>7 DEF LiveOK
  <1>16. ASSUME NEW u \in Threads, u # s, u # t, alive[u] PROVE LiveOK(u)'
    BY <1>0, <1>1, <1>4, <1>16, LiveLess DEF Live
  <1> QED BY <1>1, <1>3, <1>7, <1>8, <1>14, <1>15, <1>16 DEF Live

LEMMA RecvRefusedLive ==
  ASSUME Base, Live, NEW t \in Threads, NEW e \in Endpoints, RecvRefused(t, e), UNCHANGED world
  PROVE  Live'
PROOF
  <1>0. TypeInv /\ OpsTrue /\ TypeOK BY DEF Base, TypeInv
  <1>1. Single' /\ \A u \in Threads : alive[u] => Untouched(u) BY <1>0, RecvRefusedEffect DEF Live
  <1>2. /\ OnlyEp(e) /\ Dropped(ep[e].senders, ep'[e].senders) /\ ep'[e].caller = ep[e].caller
    BY <1>0, RecvRefusedStep
  <1>3. ToSet(ep'[e].senders) \subseteq ToSet(ep[e].senders)
    BY <1>0, <1>2, EpFields, DroppedSet
  <1>4. Apart' BY <1>2, <1>3, ApartOne DEF Live, Apart
  <1>5. op' = op /\ alive' = alive BY DEF RecvRefused, threadVars
  <1>6. NoTimedOrphan' BY <1>5 DEF Live, NoTimedOrphan
  <1> QED BY <1>0, <1>1, <1>4, <1>5, <1>6, LiveKept DEF Live

LEMMA RecvQueuedLive ==
  ASSUME Base, Live, NEW t \in Threads, NEW e \in Endpoints, RecvQueued(t, e), UNCHANGED world
  PROVE  Live'
PROOF
  <1>0. TypeInv /\ OpsTrue /\ TypeOK BY DEF Base, TypeInv
  <1>1. /\ Running(t) /\ op' = op /\ alive' = alive /\ frame' = frame /\ serving' = serving
        /\ wait' = [wait EXCEPT ![t] = [k |-> "recv", obj |-> e, timed |-> FALSE]]
        /\ ipc' = [ipc EXCEPT ![t] = TRUE] /\ serving[t][e] = None
    BY DEF RecvQueued
  <1>2. alive[t] /\ LiveOK(t) /\ Clear(t) BY <1>1, RunningAbsent, RunningClear DEF Live
  <1>3. /\ Single /\ ~Rcv(t, e) => Single'
        /\ OnlyEp(e)
        /\ \A u \in Threads : u # t /\ alive[u] => Untouched(u)
        /\ NtView(t) /\ OpView(t)
        /\ \A x \in Endpoints : /\ Snd(t, x)' <=> Snd(t, x)
                                /\ Rcv(t, x)' <=> Rcv(t, x) \/ x = e
                                /\ Clr(t, x)' <=> Clr(t, x)
    BY <1>0, RecvQueuedEffect
  <1>4. Single' BY <1>2, <1>3 DEF Live, Clear
  <1>5. Apart'
    <2>1. ep'[e].senders = <<>> BY <1>0, RecvQueuedStep
    <2> QED BY <1>3, <2>1, EmptySet, ApartOne DEF Live
  <1>6. NoTimedOrphan' BY <1>1 DEF Live, NoTimedOrphan
  <1>7. LiveOK(t)'
    <2>1. /\ wait'[t].k = "recv" /\ wait'[t].obj = e /\ wait'[t].timed = FALSE
          /\ ipc'[t] /\ frame'[t] = NoFrame
      BY <1>0, <1>1, <1>2 DEF TypeOK, Clear
    <2>2. Unwoken(t)' /\ ~Self(t)' /\ Still(t, e)' /\ In(t, "recv", e)'
      BY <1>2, <1>3, <2>1, OpViewFacts DEF Clear, Still, In
    <2>3. /\ SndOK(t)' /\ ClrOK(t)' /\ RcvOK(t)' /\ WtrOK(t)'
      BY <1>2, <1>3, <2>2 DEF Clear, SndOK, ClrOK, RcvOK, WtrOK, NtView
    <2>4. TgtOK(t)' /\ OrpOK(t)' BY <2>2 DEF TgtOK, OrpOK, Unwoken
    <2>5. OffOK(t)' BY <1>2, <1>3 DEF OffOK, Clear, OpView
    <2>6. ThreadOK(t)' /\ SelfOK(t)'
      BY <1>1, <2>1, <2>2, UserFields, NoFrameFields DEF ThreadOK, SelfOK, None
    <2> QED BY <2>3, <2>4, <2>5, <2>6 DEF LiveOK
  <1> QED BY <1>0, <1>1, <1>3, <1>4, <1>5, <1>6, <1>7, LiveKept DEF Live

LEMMA RecvRendezvousLive ==
  ASSUME Base, Live, NEW t \in Threads, NEW e \in Endpoints, RecvRendezvous(t, e), UNCHANGED world
  PROVE  Live'
PROOF
  <1>0. TypeInv /\ OpsTrue /\ TypeOK /\ Single /\ e \in Objs BY DEF Base, TypeInv, Live, Objs
  <1>1. /\ Running(t) /\ op' = op /\ alive' = alive /\ Unlocked(e) BY DEF RecvRendezvous
  <1>2. alive[t] /\ LiveOK(t) /\ Clear(t) BY <1>1, RunningAbsent, RunningClear DEF Live
  <1>3. Single' /\ OnlyEp(e) BY <1>0, RecvRendezvousEffect
  <1>4. PICK w \in Threads :
              /\ Snd(w, e) /\ alive[w] /\ (Single => ~Snd(w, e)')
              /\ ep'[e].receivers = ep[e].receivers /\ ep'[e].caller = w /\ ep'[e].owner = t
              /\ ToSet(ep'[e].senders) \subseteq ToSet(ep[e].senders)
              /\ \A u \in Threads : alive[u] => NtView(u) /\ OpView(u) /\ ThreadView(u)
                                                /\ (u # w => EpLess(u, e))
    BY <1>0, RecvRendezvousEffect
  <1>5. LiveOK(w) BY <1>4 DEF Live
  <1>6. /\ wait[w].k = "call" /\ wait[w].obj = e /\ Still(w, e) /\ Unwoken(w)
        /\ \A x \in Endpoints : ~Rcv(w, x) /\ (Snd(w, x) \/ Clr(w, x) => x = e)
        /\ \A n \in Notifications : ~Wtr(w, n)
    BY <1>4, <1>5, SndFacts
  <1>7. Apart' BY <1>0, <1>3, <1>4, ApartOne DEF Live, Snd
  <1>8. NoTimedOrphan' BY <1>1 DEF Live, NoTimedOrphan
  <1>9. LiveOK(w)'
    <2>1. NtView(w) /\ OpView(w) /\ ThreadView(w) BY <1>4
    <2>2. /\ \A o \in Objs : Off(w, o)' <=> Off(w, o)
          /\ Unwoken(w)' /\ (Self(w)' <=> Self(w)) /\ (Self(w) => op'[CoreOf[w]].obj = op[CoreOf[w]].obj)
      BY <1>6, <2>1, OpViewFacts
    <2>3. /\ ipc'[w] = ipc[w] /\ wait'[w] = wait[w] /\ frame'[w].res = frame[w].res
          /\ frame'[w] = NoFrame <=> frame[w] = NoFrame
      BY <2>1 DEF ThreadView
    <2>4. Still(w, e)' /\ In(w, "call", e)' BY <1>0, <1>6, <2>2, <2>3 DEF Still, In
    <2>5. /\ ~Snd(w, e)' /\ Clr(w, e)' /\ (Rcv(w, e)' <=> Rcv(w, e)) BY <1>0, <1>4 DEF Clr, Rcv
    <2>6. \A x \in Endpoints : x # e => ~Snd(w, x)' /\ ~Rcv(w, x)' /\ ~Clr(w, x)'
      BY <1>3, <1>6 DEF OnlyEp, Snd, Rcv, Clr
    <2>7. /\ SndOK(w)' /\ ClrOK(w)' /\ RcvOK(w)' /\ WtrOK(w)'
      BY <1>6, <2>1, <2>2, <2>4, <2>5, <2>6 DEF SndOK, ClrOK, RcvOK, WtrOK, NtView
    <2>8. TgtOK(w)' /\ OrpOK(w)' BY <2>2 DEF TgtOK, OrpOK, Unwoken
    <2>9. OffOK(w)' BY <1>5, <2>1, <2>3 DEF OffOK, LiveOK, OpView
    <2>10. ThreadOK(w)' BY <1>5, <1>6, <2>2, <2>3 DEF LiveOK, ThreadOK
    <2>11. SelfOK(w)' BY <1>5, <1>6, <2>2, <2>3, <2>5 DEF LiveOK, SelfOK
    <2> QED BY <2>7, <2>8, <2>9, <2>10, <2>11 DEF LiveOK
  <1>10. ASSUME NEW u \in Threads, u # w, alive[u] PROVE LiveOK(u)'
    BY <1>0, <1>1, <1>4, <1>10, LiveLess DEF Live
  <1> QED BY <1>1, <1>3, <1>7, <1>8, <1>9, <1>10 DEF Live

\* A waiter whose result is being written: it is off its place, and core c will wake it.
LEMMA TargetLive ==
  ASSUME OpsTrue, UNCHANGED world, NEW w \in Threads, LiveOK(w), NEW c \in Cores, Free(c), OnlyCore(c),
         op'[c].k = "wake", op'[c].to = w, op'[c].self = None, op'[c].todo = {}, op'[c].orphans = {},
         NEW o \in Objs, op'[c].obj = o,
         \A e \in Endpoints : ~Snd(w, e)' /\ ~Rcv(w, e)' /\ ~Clr(w, e)',
         \A n \in Notifications : ~Wtr(w, n)',
         wait[w].k \in {"call", "wait"}, wait[w].obj = o, Unwoken(w), ~Self(w),
         ipc[w] \/ Off(w, o), wait'[w] = wait[w], ipc'[w] = ipc[w], frame'[w].res = "OK"
  PROVE  LiveOK(w)'
PROOF
  <1>1. op[c].k = "idle" /\ op[c].self = None BY FreeFields
  <1>2. \A d \in Cores :
          /\ Tgt(w, d)' <=> d = c
          /\ ~Orp(w, d)'
          /\ \A x \in Objs : OffAt(w, x, d)' <=> OffAt(w, x, d)
    <2> SUFFICES ASSUME NEW d \in Cores
                 PROVE  /\ Tgt(w, d)' <=> d = c
                        /\ ~Orp(w, d)'
                        /\ \A x \in Objs : OffAt(w, x, d)' <=> OffAt(w, x, d)
      OBVIOUS
    <2>1. CASE d = c BY <1>1, <2>1 DEF Tgt, Orp, OffAt
    <2>2. CASE d # c
      <3>1. op'[d] = op[d] BY <2>2 DEF OnlyCore
      <3> QED BY <2>2, <3>1 DEF Tgt, Orp, OffAt, Unwoken
    <2> QED BY <2>1, <2>2
  <1>3. ~Self(w)'
    <2>1. CASE CoreOf[w] = c BY <2>1, NoneApart DEF Self
    <2>2. CASE CoreOf[w] # c
      <3>1. op'[CoreOf[w]] = op[CoreOf[w]] BY <2>2 DEF OnlyCore
      <3> QED BY <3>1 DEF Self
    <2> QED BY <2>1, <2>2
  <1>4. SndOK(w)' /\ ClrOK(w)' /\ RcvOK(w)' /\ WtrOK(w)' BY DEF SndOK, ClrOK, RcvOK, WtrOK
  <1>5. Off(w, o)' <=> Off(w, o) BY <1>2 DEF Off
  <1>6. TgtOK(w)' BY <1>2, <1>5 DEF TgtOK, None
  <1>7. OrpOK(w)' BY <1>2 DEF OrpOK
  <1>8. OffOK(w)' BY <1>2 DEF OffOK, LiveOK, None
  <1>9. ThreadOK(w)' /\ SelfOK(w)' BY <1>3, UserFields DEF ThreadOK, SelfOK, None
  <1> QED BY <1>4, <1>6, <1>7, <1>8, <1>9 DEF LiveOK

LEMMA ReplyLive ==
  ASSUME Base, Live, NEW t \in Threads, NEW e \in Endpoints, Reply(t, e), UNCHANGED world
  PROVE  Live'
PROOF
  <1>w. PICK w : w = ep[e].caller OBVIOUS
  <1>0. TypeInv /\ OpsTrue /\ TypeOK /\ Single /\ e \in Objs BY DEF Base, TypeInv, Live, Objs
  <1>1. /\ Running(t) /\ alive' = alive /\ Unlocked(e) /\ ipc' = ipc /\ wait' = wait BY DEF Reply
  <1>2. Free(CoreOf[t]) /\ CoreOf[t] \in Cores BY <1>1, RunningAbsent
  <1>3. /\ TypeInv' /\ Single' /\ OnlyEp(e) /\ ep'[e].senders = ep[e].senders /\ ep'[e].caller = None
    BY <1>0, ReplyEffect
  <1>4. \A u \in Threads : alive[u] => /\ EpLess(u, e) /\ NtView(u) /\ (u # w => Untouched(u))
                                       /\ Snd(u, e)' <=> Snd(u, e)
                                       /\ Rcv(u, e)' <=> Rcv(u, e)
    BY <1>w, <1>0, ReplyEffect
  <1>5. Apart' BY <1>0, <1>3, ApartOne, QueueNone DEF Live
  <1>6. CASE /\ w \in Threads /\ alive[w] /\ ipc[w]
             /\ frame' = [frame EXCEPT ![w] = [res |-> "OK", from |-> serving[t][e], bits |-> {}]]
             /\ OnlyCore(CoreOf[t]) /\ op'[CoreOf[t]].k = "wake" /\ op'[CoreOf[t]].obj = e
             /\ op'[CoreOf[t]].to = w /\ op'[CoreOf[t]].self = None
             /\ op'[CoreOf[t]].todo = {} /\ op'[CoreOf[t]].orphans = {}
    <2>1. NoTimedOrphan' BY <1>2, <1>6, OrphansOne DEF Live
    <2>2. LiveOK(w) /\ Clr(w, e) BY <1>w, <1>6 DEF Live, Clr
    <2>3. /\ wait[w].k = "call" /\ wait[w].obj = e /\ Unwoken(w)
          /\ \A x \in Endpoints : ~Rcv(w, x) /\ (Snd(w, x) \/ Clr(w, x) => x = e)
          /\ \A n \in Notifications : ~Wtr(w, n)
      BY <1>6, <2>2, ClrFacts
    <2>4. ~Self(w) BY <1>6, <2>2 DEF LiveOK, SelfOK
    <2>5. ~Snd(w, e) BY <2>2 DEF Live, Apart, Snd, Clr
    <2>6. ~Clr(w, e)' BY <1>3, <1>6, NoneApart DEF Clr
    <2>7. \A x \in Endpoints : ~Snd(w, x)' /\ ~Rcv(w, x)' /\ ~Clr(w, x)'
      BY <1>4, <1>6, <2>3, <2>5, <2>6 DEF EpLess
    <2>8. \A n \in Notifications : ~Wtr(w, n)' BY <1>4, <1>6, <2>3 DEF NtView
    <2>9. frame'[w].res = "OK" /\ wait'[w] = wait[w] /\ ipc'[w] = ipc[w]
      BY <1>0, <1>1, <1>6 DEF TypeOK
    <2>10. LiveOK(w)'
      BY <1>0, <1>2, <1>6, <2>2, <2>3, <2>4, <2>7, <2>8, <2>9, TargetLive
    <2>11. ASSUME NEW u \in Threads, alive[u], u # w PROVE LiveOK(u)'
      BY <1>0, <1>4, <2>11, LiveKept DEF Live
    <2> QED BY <1>1, <1>3, <1>5, <2>1, <2>10, <2>11 DEF Live
  <1>7. CASE op' = op /\ \A u \in Threads : OpView(u) /\ ThreadView(u)
    <2>1. NoTimedOrphan' BY <1>7 DEF Live, NoTimedOrphan
    <2>2. ASSUME NEW u \in Threads, alive[u] PROVE LiveOK(u)'
      BY <1>0, <1>1, <1>4, <1>7, <2>2, LiveLess DEF Live
    <2> QED BY <1>1, <1>3, <1>5, <2>1, <2>2 DEF Live
  <1> QED BY <1>w, <1>0, <1>6, <1>7, ReplyEffect

LEMMA WakeLive ==
  ASSUME Base, Live, NEW c \in Cores, Wake(c), UNCHANGED world
  PROVE  Live'
PROOF
  <1>0. TypeInv /\ OpsTrue /\ TypeOK BY DEF Base, TypeInv
  <1>1. /\ op[c].k = "wake" /\ ep' = ep /\ nt' = nt /\ alive' = alive /\ frame' = frame
        /\ wait' = wait /\ serving' = serving
        /\ \A u \in Threads : ipc'[u] = ((u = op[c].self) \/ (ipc[u] /\ u # op[c].to))
    BY DEF Wake
  <1>2. /\ OnlyCore(c) /\ op'[c] = Idle
        /\ \A u \in Threads : Absent(u, c)' /\ EpView(u) /\ NtView(u)
        /\ \A u \in Threads : alive[u] /\ u # op[c].to /\ u # op[c].self => Untouched(u)
    BY <1>0, WakeEffect
  <1>3. op'[c].orphans = {} /\ op'[c].self = None BY <1>2, IdleOK
  <1>4. Single' /\ Apart' /\ NoTimedOrphan'
    BY <1>1, <1>2, <1>3, SingleSame, OrphansOne DEF Live, Apart
  <1>5. PICK w, v : w = op[c].to /\ v = op[c].self OBVIOUS
  <1>6. /\ w \in Threads /\ Tgt(w, c) /\ op[c].obj \in Objs
        /\ v # None => v \in Threads /\ CoreOf[v] = c /\ alive[v] /\ op[c].obj \in Endpoints /\ Self(v)
    BY <1>0, <1>1, <1>5 DEF OpsTrue, OpOK, Tgt, Self
  <1>7. \A d \in Cores : d # c => op'[d] = op[d] /\ op[d].obj # op[c].obj
    BY <1>0, <1>2, <1>6, NoneApart DEF OnlyCore, OpsTrue, LocksExclusive
  <1>8. \A u \in Threads :
          /\ \A d \in Cores : /\ Tgt(u, d)' <=> Tgt(u, d) /\ d # c
                              /\ Orp(u, d)' <=> Orp(u, d) /\ d # c
                              /\ \A o \in Objs : OffAt(u, o, d)' <=> OffAt(u, o, d)
          /\ Self(u)' <=> Self(u) /\ CoreOf[u] # c
    <2> SUFFICES ASSUME NEW u \in Threads
                 PROVE  /\ \A d \in Cores : /\ Tgt(u, d)' <=> Tgt(u, d) /\ d # c
                                            /\ Orp(u, d)' <=> Orp(u, d) /\ d # c
                                            /\ \A o \in Objs : OffAt(u, o, d)' <=> OffAt(u, o, d)
                        /\ Self(u)' <=> Self(u) /\ CoreOf[u] # c
      OBVIOUS
    <2>1. ASSUME NEW d \in Cores
          PROVE  /\ Tgt(u, d)' <=> Tgt(u, d) /\ d # c
                 /\ Orp(u, d)' <=> Orp(u, d) /\ d # c
                 /\ \A o \in Objs : OffAt(u, o, d)' <=> OffAt(u, o, d)
      <3>1. CASE d = c BY <1>1, <1>2, <3>1 DEF Absent, OffAt
      <3>2. CASE d # c
        <4>1. op'[d] = op[d] BY <1>7, <3>2
        <4> QED BY <3>2, <4>1 DEF Tgt, Orp, OffAt
      <3> QED BY <3>1, <3>2
    <2>2. Self(u)' <=> Self(u) /\ CoreOf[u] # c
      <3>1. CASE CoreOf[u] = c BY <1>3, <3>1, NoneApart DEF Self
      <3>2. CASE CoreOf[u] # c
        <4>1. op'[CoreOf[u]] = op[CoreOf[u]] BY <1>7, <3>2
        <4> QED BY <3>2, <4>1 DEF Self
      <3> QED BY <3>1, <3>2
    <2> QED BY <2>1, <2>2
  <1>9. ASSUME alive[w] PROVE LiveOK(w)'
    <2>0. LiveOK(w) BY <1>6, <1>9 DEF Live
    <2>1. /\ wait[w].k # "user" /\ wait[w].obj = op[c].obj /\ frame[w].res # None
          /\ v # None => wait[w].k = "recv"
      BY <1>5, <1>6, <2>0 DEF LiveOK, TgtOK
    <2>2. ~Unwoken(w) BY <1>6 DEF Unwoken
    <2>3. /\ \A e \in Endpoints : ~Snd(w, e) /\ ~Rcv(w, e) /\ ~Clr(w, e)
          /\ \A n \in Notifications : ~Wtr(w, n)
      BY <2>0, <2>2 DEF LiveOK, SndOK, ClrOK, RcvOK, WtrOK
    <2>4. ~Self(w) BY <2>0, <2>3 DEF LiveOK, SelfOK
    <2>5. w # v
      <3>1. CASE v = None BY <1>6, <3>1, NoneApart
      <3>2. CASE v # None BY <1>6, <2>4, <3>2
      <3> QED BY <3>1, <3>2
    <2>6. ~ipc'[w] /\ wait'[w] = wait[w] /\ frame'[w] = frame[w] /\ serving'[w] = serving[w]
      BY <1>1, <1>5, <1>6, <2>5
    <2>7. SndOK(w)' /\ ClrOK(w)' /\ RcvOK(w)' /\ WtrOK(w)'
      BY <1>2, <1>6, <2>3 DEF SndOK, ClrOK, RcvOK, WtrOK, EpView, NtView
    <2>8. ASSUME NEW d \in Cores, d # c PROVE ~Tgt(w, d)
      BY <1>7, <2>0, <2>1, <2>8 DEF LiveOK, TgtOK
    <2>9. \A d \in Cores : ~Orp(w, d) BY <1>6, <2>0 DEF LiveOK, OrpOK
    <2>10. TgtOK(w)' /\ OrpOK(w)' BY <1>6, <1>8, <2>8, <2>9 DEF TgtOK, OrpOK
    <2>11. OffOK(w)' BY <1>6, <1>8, <2>0, <2>6 DEF OffOK, LiveOK
    <2>12. ThreadOK(w)' BY <2>0, <2>1, <2>6 DEF ThreadOK, LiveOK
    <2>13. SelfOK(w)' BY <1>6, <1>8, <2>4 DEF SelfOK
    <2> QED BY <2>7, <2>10, <2>11, <2>12, <2>13 DEF LiveOK
  <1>10. ASSUME v # None PROVE LiveOK(v)'
    <2>0. LiveOK(v) /\ Self(v) /\ v \in Threads /\ CoreOf[v] = c BY <1>6, <1>10 DEF Live
    <2>1. /\ ~ipc[v] /\ frame[v] = NoFrame /\ wait[v].k = "call" BY <2>0 DEF LiveOK, SelfOK
    <2>2. PICK e \in Endpoints : wait[v].obj = e /\ op[c].obj = e /\ Clr(v, e)
      BY <2>0 DEF LiveOK, SelfOK
    <2>3. /\ Unwoken(v)
          /\ \A x \in Endpoints : ~Rcv(v, x) /\ (Snd(v, x) \/ Clr(v, x) => x = e)
          /\ \A n \in Notifications : ~Wtr(v, n)
      BY <2>0, <2>2, ClrFacts
    <2>4. ~Snd(v, e) BY <2>2 DEF Live, Apart, Snd, Clr
    <2>5. ipc'[v] /\ frame'[v] = NoFrame /\ wait'[v] = wait[v] BY <1>1, <1>5, <2>0, <2>1
    <2>6. Unwoken(v)' BY <1>8, <2>0, <2>3 DEF Unwoken
    <2>7. \A d \in Cores, o \in Objs : ~OffAt(v, o, d)
      BY <2>0, <2>1, NoFrameFields DEF LiveOK, OffOK
    <2>8. SndOK(v)' /\ ClrOK(v)' /\ RcvOK(v)' /\ WtrOK(v)'
      BY <1>2, <2>0, <2>1, <2>2, <2>3, <2>4, <2>5, <2>6
         DEF SndOK, ClrOK, RcvOK, WtrOK, EpView, NtView, Still, In
    <2>9. TgtOK(v)' /\ OrpOK(v)' BY <2>6 DEF TgtOK, OrpOK, Unwoken
    <2>10. OffOK(v)' BY <1>8, <2>0, <2>7 DEF OffOK
    <2>11. ThreadOK(v)' /\ SelfOK(v)' BY <1>8, <2>0, <2>1, <2>5, UserFields DEF ThreadOK, SelfOK
    <2> QED BY <2>8, <2>9, <2>10, <2>11 DEF LiveOK
  <1>11. ASSUME NEW u \in Threads, alive[u], u # w, u # v PROVE LiveOK(u)'
    BY <1>0, <1>2, <1>5, <1>11, LiveKept DEF Live
  <1>12. ASSUME NEW u \in Threads, alive'[u] PROVE LiveOK(u)'
    <2>1. CASE u = w BY <1>1, <1>9, <1>12, <2>1
    <2>2. CASE u = v BY <1>10, <1>12, <2>2, NoneApart
    <2>3. CASE u # w /\ u # v BY <1>1, <1>11, <1>12, <2>3
    <2> QED BY <2>1, <2>2, <2>3
  <1> QED BY <1>4, <1>12 DEF Live

LEMMA AllKeptLive ==
  ASSUME OpsTrue, Live, UNCHANGED world, ep' = ep, alive' = alive,
         \A c \in Cores : op'[c].orphans = op[c].orphans,
         \A u \in Threads : alive[u] => Untouched(u)
  PROVE  Live'
PROOF
  <1>1. Single' /\ Apart' /\ NoTimedOrphan' BY SingleSame DEF Live, Apart, NoTimedOrphan
  <1> QED BY <1>1, LiveKept DEF Live

LEMMA WaitLive ==
  ASSUME Base, Live, NEW t \in Threads, NEW n \in Notifications, NEW tm \in BOOLEAN,
         WaitReturns(t, n, tm) \/ WaitBlocks(t, n, tm), UNCHANGED world
  PROVE  Live'
PROOF
  <1>0. TypeInv /\ OpsTrue /\ TypeOK BY DEF Base, TypeInv
  <1>1. CASE WaitReturns(t, n, tm)
    <2>1. ep' = ep /\ alive' = alive /\ op' = op BY <1>1 DEF WaitReturns
    <2> QED BY <1>0, <1>1, <2>1, WaitReturnsEffect, AllKeptLive
  <1>2. CASE WaitBlocks(t, n, tm)
    <2>1. /\ Running(t) /\ ep' = ep /\ op' = op /\ alive' = alive /\ frame' = frame
          /\ wait' = [wait EXCEPT ![t] = [k |-> "wait", obj |-> n, timed |-> tm]]
          /\ ipc' = [ipc EXCEPT ![t] = TRUE]
      BY <1>2 DEF WaitBlocks
    <2>2. alive[t] /\ LiveOK(t) /\ Clear(t) BY <2>1, RunningAbsent, RunningClear DEF Live
    <2>3. /\ \A u \in Threads : u # t /\ alive[u] => Untouched(u)
          /\ EpView(t) /\ OpView(t)
          /\ \A x \in Notifications : Wtr(t, x)' <=> Wtr(t, x) \/ x = n
      BY <1>0, <1>2, WaitBlocksEffect
    <2>4. LiveOK(t)'
      <3>1. /\ wait'[t].k = "wait" /\ wait'[t].obj = n /\ ipc'[t] /\ frame'[t] = NoFrame
        BY <1>0, <2>1, <2>2 DEF TypeOK, Clear
      <3>2. Unwoken(t)' /\ ~Self(t)' /\ Still(t, n)' /\ In(t, "wait", n)'
        BY <2>2, <2>3, <3>1, OpViewFacts DEF Clear, Still, In
      <3>3. /\ SndOK(t)' /\ ClrOK(t)' /\ RcvOK(t)' /\ WtrOK(t)'
        BY <2>2, <2>3, <3>2 DEF Clear, SndOK, ClrOK, RcvOK, WtrOK, EpView
      <3>4. TgtOK(t)' /\ OrpOK(t)' BY <3>2 DEF TgtOK, OrpOK, Unwoken
      <3>5. OffOK(t)' BY <2>2, <2>3 DEF OffOK, Clear, OpView
      <3>6. ThreadOK(t)' /\ SelfOK(t)' BY <3>1, <3>2, UserFields DEF ThreadOK, SelfOK
      <3> QED BY <3>3, <3>4, <3>5, <3>6 DEF LiveOK
    <2>5. Single' /\ Apart' /\ NoTimedOrphan' BY <2>1, SingleSame DEF Live, Apart, NoTimedOrphan
    <2> QED BY <1>0, <2>1, <2>3, <2>4, <2>5, LiveKept DEF Live
  <1> QED BY <1>1, <1>2

LEMMA SignalLive ==
  ASSUME Base, Live, NEW c \in Cores, NEW n \in Notifications, NEW b \in world.badges,
         Signal(c, n, b), UNCHANGED world
  PROVE  Live'
PROOF
  <1>w. PICK w : w = nt[n].waiter OBVIOUS
  <1>0. TypeInv /\ OpsTrue /\ TypeOK /\ n \in Objs BY DEF Base, TypeInv, Objs
  <1>1. /\ Free(c) /\ ep' = ep /\ alive' = alive /\ ipc' = ipc /\ wait' = wait
        /\ w = None => op' = op
    BY <1>w DEF Signal
  <1>2. /\ \A u \in Threads : alive[u] => EpView(u) /\ (u # w => Untouched(u))
        /\ \A u \in Threads, x \in Notifications : Wtr(u, x)' <=> Wtr(u, x) /\ x # n
        /\ w # None =>
              /\ w \in Threads /\ OnlyCore(c) /\ op'[c].k = "wake" /\ op'[c].obj = n
              /\ op'[c].to = w /\ op'[c].self = None /\ op'[c].todo = {} /\ op'[c].orphans = {}
              /\ alive[w] => frame' = [frame EXCEPT ![w] =
                               [res |-> "OK", from |-> None, bits |-> nt[n].pending \cup {b}]]
    BY <1>0, <1>w, SignalEffect
  <1>3. CASE w = None BY <1>0, <1>1, <1>2, <1>3, AllKeptLive, NoneApart
  <1>4. CASE w # None
    <2>1. Single' /\ Apart' /\ NoTimedOrphan'
      BY <1>1, <1>2, <1>4, SingleSame, OrphansOne DEF Live, Apart
    <2>2. ASSUME alive[w] PROVE LiveOK(w)'
      <3>0. w \in Threads /\ LiveOK(w) /\ Wtr(w, n) BY <1>w, <1>2, <1>4, <2>2 DEF Live, Wtr
      <3>1. /\ wait[w].k = "wait" /\ wait[w].obj = n /\ Still(w, n) /\ Unwoken(w) /\ ~Self(w)
            /\ \A x \in Endpoints : ~Snd(w, x) /\ ~Clr(w, x) /\ ~Rcv(w, x)
            /\ \A m \in Notifications : Wtr(w, m) => m = n
        BY <3>0, WtrFacts
      <3>2. frame'[w].res = "OK" /\ wait'[w] = wait[w] /\ ipc'[w] = ipc[w]
        BY <1>0, <1>1, <1>2, <1>4, <2>2 DEF TypeOK
      <3>3. /\ \A e \in Endpoints : ~Snd(w, e)' /\ ~Rcv(w, e)' /\ ~Clr(w, e)'
            /\ \A m \in Notifications : ~Wtr(w, m)'
        BY <1>2, <2>2, <3>0, <3>1 DEF EpView
      <3>4. ipc[w] \/ Off(w, n) BY <3>1 DEF Still
      <3> QED BY <1>0, <1>1, <1>2, <1>4, <3>0, <3>1, <3>2, <3>3, <3>4, TargetLive
    <2>3. ASSUME NEW u \in Threads, alive[u], u # w PROVE LiveOK(u)'
      BY <1>0, <1>2, <2>3, LiveKept DEF Live
    <2> QED BY <1>1, <2>1, <2>2, <2>3 DEF Live
  <1> QED BY <1>3, <1>4

\* A thread that was woken and whose core is free is entered nowhere.
LEMMA ReturningClear ==
  ASSUME OpsTrue, NEW t \in Threads, Free(CoreOf[t]), CoreOf[t] \in Cores, ~ipc[t], LiveOK(t)
  PROVE  /\ \A e \in Endpoints : ~Snd(t, e) /\ ~Rcv(t, e) /\ ~Clr(t, e)
         /\ \A n \in Notifications : ~Wtr(t, n)
         /\ Unwoken(t) /\ ~Self(t) /\ \A c \in Cores, o \in Objs : ~OffAt(t, o, c)
PROOF
  <1>1. Absent(t, CoreOf[t]) BY FreeAbsent
  <1>4. (\A o \in Objs : ~Off(t, o)) /\ ~Self(t) BY <1>1 DEF Absent, Off, OffAt, Self
  <1>5. (\A c \in Cores, o \in Objs : ~OffAt(t, o, c))
    BY <1>4 DEF LiveOK, OffOK, Off
  <1>6. \A o \in Objs : ~Still(t, o) BY <1>4 DEF Still
  <1>7. /\ \A e \in Endpoints : ~Snd(t, e) /\ ~Rcv(t, e) /\ ~Clr(t, e)
        /\ \A n \in Notifications : ~Wtr(t, n)
    BY <1>4, <1>6 DEF LiveOK, SndOK, RcvOK, ClrOK, WtrOK, Objs
  <1>8. Unwoken(t)
    <2> SUFFICES ASSUME NEW c \in Cores PROVE ~Tgt(t, c) /\ ~Orp(t, c) BY DEF Unwoken
    <2>1. ~Orp(t, c) BY DEF LiveOK, OrpOK
    <2>2. ASSUME Tgt(t, c) PROVE FALSE
      <3>1. op[c].obj \in Objs BY <2>2 DEF OpsTrue, OpOK, Tgt
      <3> QED BY <1>4, <2>2, <3>1 DEF LiveOK, TgtOK
    <2> QED BY <2>1, <2>2
  <1> QED BY <1>4, <1>5, <1>7, <1>8

LEMMA ReturnLive ==
  ASSUME Base, Live, NEW t \in Threads, Return(t), UNCHANGED world
  PROVE  Live'
PROOF
  <1>0. TypeInv /\ OpsTrue /\ TypeOK BY DEF Base, TypeInv
  <1>1. /\ Free(CoreOf[t]) /\ CoreOf[t] \in Cores /\ alive[t] /\ ~ipc[t]
        /\ ep' = ep /\ alive' = alive /\ op' = op
    BY DEF Return
  <1>2. /\ \A u \in Threads : u # t => Untouched(u)
        /\ EpView(t) /\ NtView(t) /\ OpView(t)
        /\ ~ipc'[t] /\ wait'[t] = User /\ frame'[t] = NoFrame
    BY <1>0, ReturnEffect
  <1>3. LiveOK(t) BY <1>1 DEF Live
  <1>4. /\ \A e \in Endpoints : ~Snd(t, e) /\ ~Rcv(t, e) /\ ~Clr(t, e)
        /\ \A n \in Notifications : ~Wtr(t, n)
        /\ Unwoken(t) /\ ~Self(t) /\ \A c \in Cores, o \in Objs : ~OffAt(t, o, c)
    BY <1>0, <1>1, <1>3, ReturningClear
  <1>9. LiveOK(t)'
    <2>1. Unwoken(t)' /\ ~Self(t)' BY <1>2, <1>4, OpViewFacts
    <2>2. SndOK(t)' /\ ClrOK(t)' /\ RcvOK(t)' /\ WtrOK(t)'
      BY <1>2, <1>4 DEF SndOK, ClrOK, RcvOK, WtrOK, EpView, NtView
    <2>3. TgtOK(t)' /\ OrpOK(t)' BY <2>1 DEF TgtOK, OrpOK, Unwoken
    <2>4. OffOK(t)' BY <1>2, <1>4 DEF OffOK, OpView
    <2>5. ThreadOK(t)' /\ SelfOK(t)' BY <1>2, <2>1, UserFields DEF ThreadOK, SelfOK
    <2> QED BY <2>2, <2>3, <2>4, <2>5 DEF LiveOK
  <1>10. Single' /\ Apart' /\ NoTimedOrphan' BY <1>1, SingleSame DEF Live, Apart, NoTimedOrphan
  <1> QED BY <1>0, <1>1, <1>2, <1>9, <1>10, LiveKept DEF Live

LEMMA TickLive ==
  ASSUME Base, Live, NEW c \in Cores, NEW D \in SUBSET Armed(c), Tick(c, D), UNCHANGED world
  PROVE  Live'
PROOF
  <1>0. TypeInv /\ OpsTrue /\ TypeOK /\ Habits BY DEF Base, TypeInv
  <1>1. Free(c) /\ ep' = ep /\ alive' = alive BY DEF Tick
  <1>2. \A u \in Threads : IF u \in D /\ ipc[u]
              THEN /\ alive[u] /\ frist[u] /\ CoreOf[u] = c /\ EpView(u) /\ NtView(u)
                   /\ alive'[u] /\ ~ipc'[u] /\ wait'[u] = wait[u] /\ serving'[u] = serving[u]
                   /\ frame'[u].res = "TIMEOUT"
                   /\ \A d \in Cores : /\ Tgt(u, d)' <=> Tgt(u, d)
                                       /\ Tgt(u, d) => op'[d] = op[d]
                                       /\ Orp(u, d)' <=> Orp(u, d)
                                       /\ \A o \in Objs : OffAt(u, o, d)' <=> d = c \/ OffAt(u, o, d)
                   /\ ~Self(u) /\ ~Self(u)'
              ELSE alive[u] => Untouched(u)
    BY <1>0, TickEffect
  <1>3. NoTimedOrphan'
    <2>1. OnlyCore(c) /\ op'[c].orphans = {}
      <3>1. CASE op' = op BY <1>1, <3>1, FreeFields DEF OnlyCore
      <3>2. CASE op' # op
        <4>1. op' = [op EXCEPT ![c] = Purging(SignOff({t \in D : Released(t, D)}))]
          BY <3>2 DEF Tick, Purging
        <4>2. SignOff({t \in D : Released(t, D)}) \in SUBSET (Threads \X Objs)
          BY DEF SignOff, Armed
        <4>3. /\ Purging(SignOff({t \in D : Released(t, D)})) \in Operation
              /\ Purging(SignOff({t \in D : Released(t, D)})).orphans = {}
          BY <4>2, PurgingTyped
        <4> QED BY <1>0, <4>1, <4>3, OpTyped DEF OnlyCore
      <3> QED BY <3>1, <3>2
    <2> QED BY <2>1, OrphansOne DEF Live
  <1>4. ASSUME NEW u \in D, u \in Threads, ipc[u] PROVE LiveOK(u)'
    <2>0. /\ alive[u] /\ frist[u] /\ CoreOf[u] = c /\ EpView(u) /\ NtView(u)
          /\ alive'[u] /\ ~ipc'[u] /\ wait'[u] = wait[u] /\ serving'[u] = serving[u]
          /\ frame'[u].res = "TIMEOUT" /\ ~Self(u) /\ ~Self(u)'
          /\ \A d \in Cores : /\ Tgt(u, d)' <=> Tgt(u, d)
                              /\ Tgt(u, d) => op'[d] = op[d]
                              /\ Orp(u, d)' <=> Orp(u, d)
                              /\ \A o \in Objs : OffAt(u, o, d)' <=> d = c \/ OffAt(u, o, d)
      BY <1>2, <1>4
    <2>1. LiveOK(u) /\ u \in world.timed BY <1>0, <2>0, <1>4 DEF Live, Habits
    <2>2. \A o \in Objs : Off(u, o)' BY <2>0 DEF Off
    <2>3. \A d \in Cores : ~Orp(u, d) BY <2>1 DEF Live, NoTimedOrphan, Orp
    <2>4. \A d \in Cores, o \in Objs : ~OffAt(u, o, d) BY <1>4, <2>1 DEF LiveOK, OffOK
    <2>5. Unwoken(u)' <=> Unwoken(u) BY <2>0 DEF Unwoken
    <2>6. \A o \in Objs : Still(u, o)' BY <2>2 DEF Still
    <2>7. \A k, o : In(u, k, o)' <=> In(u, k, o) BY <2>0 DEF In
    <2>8. wait[u].k # "user" BY <1>4, <2>1 DEF LiveOK, ThreadOK
    <2>9. SndOK(u)' /\ ClrOK(u)' /\ RcvOK(u)' /\ WtrOK(u)'
      BY <2>0, <2>1, <2>5, <2>6, <2>7
         DEF LiveOK, SndOK, ClrOK, RcvOK, WtrOK, EpView, NtView, Objs
    <2>10. TgtOK(u)'
      <3> SUFFICES ASSUME NEW d \in Cores, Tgt(u, d)'
                   PROVE  /\ wait'[u].k # "user" /\ wait'[u].obj = op'[d].obj /\ frame'[u].res # None
                          /\ op'[d].self # None => wait'[u].k = "recv"
                          /\ Off(u, op[d].obj)'
        BY DEF TgtOK
      <3>1. Tgt(u, d) /\ op'[d] = op[d] BY <2>0
      <3>2. op[d].obj \in Objs BY <1>0, <3>1 DEF OpsTrue, OpOK, Tgt
      <3>3. Off(u, op[d].obj)' BY <2>2, <3>1, <3>2
      <3> QED BY <2>0, <2>1, <2>8, <3>1, <3>3 DEF LiveOK, TgtOK, None
    <2>11. OrpOK(u)' BY <2>0, <2>3 DEF OrpOK
    <2>12. OffOK(u)' BY <2>0, <2>1, <2>4, <2>8 DEF OffOK, None
    <2>13. ThreadOK(u)' /\ SelfOK(u)' BY <2>0, <2>1, <2>8 DEF LiveOK, ThreadOK, SelfOK, None
    <2> QED BY <2>9, <2>10, <2>11, <2>12, <2>13 DEF LiveOK
  <1>5. ASSUME NEW u \in Threads, ~(u \in D /\ ipc[u]), alive[u] PROVE LiveOK(u)'
    BY <1>0, <1>2, <1>5, LiveKept DEF Live
  <1>6. Single' /\ Apart' BY <1>1, SingleSame DEF Live, Apart
  <1> QED BY <1>1, <1>3, <1>4, <1>5, <1>6 DEF Live

LEMMA PurgeLive ==
  ASSUME Base, Live, NEW c \in Cores, NEW t \in Threads, NEW o \in Objs, Purge(c, t, o),
         UNCHANGED world
  PROVE  Live'
PROOF
  <1>0. TypeInv /\ OpsTrue /\ TypeOK BY DEF Base, TypeInv
  <1>1. alive' = alive /\ op[c].k = "purge" BY DEF Purge, threadVars
  <1>2. /\ Single' /\ OffAt(t, o, c) /\ Unlocked(o)
        /\ \A u \in Threads : alive[u] /\ u # t => Untouched(u)
        /\ ThreadView(t)
        /\ \A x \in Endpoints : /\ Snd(t, x)' <=> Snd(t, x) /\ x # o
                                /\ Rcv(t, x)' <=> Rcv(t, x) /\ x # o
                                /\ Clr(t, x)' <=> Clr(t, x) /\ x # o
        /\ \A x \in Notifications : Wtr(t, x)' <=> Wtr(t, x) /\ x # o
        /\ \A d \in Cores : /\ Tgt(t, d)' <=> Tgt(t, d)
                            /\ Tgt(t, d) => op'[d].obj = op[d].obj /\ op'[d].self = op[d].self
                            /\ Orp(t, d)' <=> Orp(t, d)
                            /\ \A x \in Objs :
                                 OffAt(t, x, d)' <=> OffAt(t, x, d) /\ ~(x = o /\ d = c)
        /\ (Self(t)' <=> Self(t))
    BY <1>0, PurgeEffect DEF Live
  <1>3. Apart'
    <2>1. /\ o \in Endpoints => OnlyEp(o) /\ ep'[o] = PurgedEp(ep[o], t)
          /\ o \notin Endpoints => ep' = ep
      BY <1>0, PurgeStep
    <2>2. CASE o \in Endpoints
      <3>1. /\ ep'[o].senders = Without(ep[o].senders, t)
            /\ ep'[o].caller \in {None, ep[o].caller}
        BY <1>0, <2>1, <2>2, PurgedTyped
      <3>2. ep[o].senders \in Seq(Threads) BY <1>0, <2>2, EpFields
      <3>3. ToSet(ep'[o].senders) \subseteq ToSet(ep[o].senders) BY <3>1, <3>2, WithoutLeaves
      <3>4. None \notin ToSet(ep[o].senders) BY <1>0, <2>2, QueueNone
      <3> QED BY <2>1, <2>2, <3>1, <3>3, <3>4, ApartOne DEF Live, Apart
    <2>3. CASE o \notin Endpoints BY <2>1, <2>3 DEF Live, Apart
    <2> QED BY <2>2, <2>3
  <1>4. NoTimedOrphan'
    <2>1. OnlyCore(c) /\ op'[c].orphans \subseteq op[c].orphans
      BY <1>0, PurgeLeft, IdleOK DEF Purge, OnlyCore
    <2> QED BY <2>1, OrphansOne DEF Live
  <1>5. ASSUME alive[t] PROVE LiveOK(t)'
    <2>0. LiveOK(t) BY <1>5 DEF Live
    <2>1. /\ c = CoreOf[t] /\ ~ipc[t] /\ wait[t].k # "user" /\ frame[t].res # None
          /\ t \in world.timed
      BY <1>2, <2>0 DEF LiveOK, OffOK
    <2>2. ~Self(t) /\ frame[t] # NoFrame BY <2>0, <2>1, NoFrameFields DEF LiveOK, SelfOK
    <2>3. /\ ipc'[t] = ipc[t] /\ wait'[t] = wait[t] /\ frame'[t].res = frame[t].res
          /\ frame'[t].from = None <=> frame[t].from = None
          /\ wait[t].k = "recv" => \A x \in Endpoints : serving'[t][x] = None <=> serving[t][x] = None
      BY <1>2 DEF ThreadView
    <2>4. \A x \in Objs : x # o => (Off(t, x)' <=> Off(t, x)) BY <1>2 DEF Off
    <2>5. \A x \in Objs : x # o /\ Still(t, x) => Still(t, x)' BY <2>1, <2>4 DEF Still
    <2>6. \A k, x : In(t, k, x)' <=> In(t, k, x) BY <2>3 DEF In
    <2>7. Unwoken(t)' <=> Unwoken(t) BY <1>2 DEF Unwoken
    <2>8. SndOK(t)' /\ ClrOK(t)' /\ RcvOK(t)' /\ WtrOK(t)'
      BY <1>2, <2>0, <2>2, <2>5, <2>6, <2>7 DEF LiveOK, SndOK, ClrOK, RcvOK, WtrOK, Objs
    <2>9. TgtOK(t)'
      <3> SUFFICES ASSUME NEW d \in Cores, Tgt(t, d)'
                   PROVE  /\ wait'[t].k # "user" /\ wait'[t].obj = op'[d].obj /\ frame'[t].res # None
                          /\ op'[d].self # None => wait'[t].k = "recv"
                          /\ Off(t, op[d].obj)'
        BY DEF TgtOK
      <3>1. Tgt(t, d) /\ op'[d].obj = op[d].obj /\ op'[d].self = op[d].self BY <1>2
      <3>2. op[d].obj \in Objs /\ op[d].obj # o
        BY <1>0, <1>2, <3>1 DEF OpsTrue, OpOK, Tgt, Unlocked
      <3>3. Off(t, op[d].obj) BY <2>0, <2>1, <3>1 DEF LiveOK, TgtOK
      <3>4. Off(t, op[d].obj)' BY <2>4, <3>1, <3>2, <3>3
      <3> QED BY <2>0, <2>1, <2>3, <3>1, <3>4 DEF LiveOK, TgtOK
    <2>10. OrpOK(t)' BY <1>2, <2>0, <2>1 DEF LiveOK, OrpOK
    <2>11. OffOK(t)' BY <1>2, <2>1, <2>3, <2>0 DEF LiveOK, OffOK
    <2>12. ThreadOK(t)' /\ SelfOK(t)' BY <1>2, <2>0, <2>1, <2>2, <2>3 DEF LiveOK, ThreadOK, SelfOK
    <2> QED BY <2>8, <2>9, <2>10, <2>11, <2>12 DEF LiveOK
  <1>6. ASSUME NEW u \in Threads, u # t, alive[u] PROVE LiveOK(u)'
    BY <1>0, <1>2, <1>6, LiveKept DEF Live
  <1> QED BY <1>1, <1>2, <1>3, <1>4, <1>5, <1>6 DEF Live

LEMMA DieLive ==
  ASSUME Base, Live, NEW c \in Cores, NEW t \in Threads, Die(c, t), UNCHANGED world
  PROVE  Live'
PROOF
  <1>0. TypeInv /\ OpsTrue /\ TypeOK BY DEF Base, TypeInv
  <1>1. /\ ep' = ep /\ OnlyCore(c) /\ op'[c].orphans = {} /\ ~alive'[t]
        /\ \A u \in Threads : u # t /\ alive[u] => Untouched(u)
    BY <1>0, DieEffect
  <1>2. \A u \in Threads : u # t => alive'[u] = alive[u] BY <1>0 DEF Die, TypeOK
  <1>3. Single' /\ Apart' /\ NoTimedOrphan' BY <1>1, SingleSame, OrphansOne DEF Live, Apart
  <1> QED BY <1>0, <1>1, <1>2, <1>3, LiveKept DEF Live

LEMMA QuietLive ==
  ASSUME Base, Live, NEW c \in Cores, SwitchToDead(c) \/ SweepBegin(c) \/ SweepEnd(c),
         UNCHANGED world
  PROVE  Live'
PROOF
  <1>0. TypeInv /\ OpsTrue /\ TypeOK BY DEF Base, TypeInv
  <1>1. ep' = ep /\ alive' = alive BY DEF SwitchToDead, SweepBegin, SweepEnd, threadVars
  <1>2. \A u \in Threads : alive[u] => Untouched(u)
    BY <1>0, SwitchToDeadEffect, SweepBeginEffect, SweepEndEffect
  <1>3. \A d \in Cores : op'[d].orphans = op[d].orphans
    <2>1. CASE SwitchToDead(c) BY <2>1 DEF SwitchToDead
    <2>2. CASE SweepBegin(c)
      <3>1. OnlyCore(c) /\ op'[c].orphans = op[c].orphans BY <1>0, <2>2, SweepBeginEffect
      <3> QED BY <3>1 DEF OnlyCore
    <2>3. CASE SweepEnd(c)
      <3>1. OnlyCore(c) /\ op'[c].orphans = {} BY <1>0, <2>3, SweepEndEffect
      <3> QED BY <2>3, <3>1 DEF OnlyCore, SweepEnd
    <2> QED BY <2>1, <2>2, <2>3
  <1> QED BY <1>0, <1>1, <1>2, <1>3, AllKeptLive

LEMMA OrphanLive ==
  ASSUME Base, Live, NEW c \in Cores, NEW t \in Threads, Orphan(c, t), UNCHANGED world
  PROVE  Live'
PROOF
  <1>0. TypeInv /\ OpsTrue /\ TypeOK BY DEF Base, TypeInv
  <1>1. alive' = alive BY DEF Orphan
  <1>2. /\ ep' = ep /\ OnlyCore(c) /\ Orp(t, c) /\ op'[c].orphans \subseteq op[c].orphans
        /\ \A u \in Threads : alive[u] /\ u # t => Untouched(u)
        /\ EpView(t) /\ NtView(t) /\ ~ipc'[t] /\ wait'[t] = wait[t] /\ serving'[t] = serving[t]
        /\ alive[t] => frame'[t] = [res |-> "GONE", from |-> None, bits |-> {}]
        /\ \A d \in Cores : /\ Tgt(t, d)' <=> Tgt(t, d)
                            /\ Orp(t, d)' <=> Orp(t, d) /\ d # c
                            /\ \A o \in Objs : OffAt(t, o, d)' <=> OffAt(t, o, d)
        /\ (Self(t)' <=> Self(t))
    BY <1>0, OrphanEffect
  <1>3. Single' /\ Apart' /\ NoTimedOrphan' BY <1>2, SingleSame, OrphansOne DEF Live, Apart
  <1>4. ASSUME alive[t] PROVE LiveOK(t)'
    <2>0. LiveOK(t) BY <1>4 DEF Live
    <2>1. /\ wait[t].k = "call" /\ ipc[t] /\ frame[t] = NoFrame
          /\ \A d \in Cores : ~Tgt(t, d) /\ (Orp(t, d) => d = c)
      BY <1>2, <2>0 DEF LiveOK, OrpOK
    <2>2. ~Unwoken(t) BY <1>2 DEF Unwoken
    <2>3. frame'[t].res = "GONE" BY <1>2, <1>4
    <2>4. SndOK(t)' /\ ClrOK(t)' /\ RcvOK(t)' /\ WtrOK(t)'
      BY <1>2, <2>0, <2>2 DEF LiveOK, SndOK, ClrOK, RcvOK, WtrOK, EpView, NtView
    <2>5. TgtOK(t)' /\ OrpOK(t)' BY <1>2, <2>1 DEF TgtOK, OrpOK
    <2>6. OffOK(t)' BY <1>2, <2>0, <2>1 DEF LiveOK, OffOK
    <2>7. ~Self(t) BY <2>0, <2>1 DEF LiveOK, SelfOK
    <2>8. ThreadOK(t)' /\ SelfOK(t)'
      BY <1>2, <2>0, <2>1, <2>3, <2>7 DEF LiveOK, ThreadOK, SelfOK, None
    <2> QED BY <2>4, <2>5, <2>6, <2>8 DEF LiveOK
  <1>5. ASSUME NEW u \in Threads, u # t, alive[u] PROVE LiveOK(u)'
    BY <1>0, <1>2, <1>5, LiveKept DEF Live
  <1> QED BY <1>1, <1>3, <1>4, <1>5 DEF Live

\* A caller whose token is given up, where nobody uses deadlines, goes on the orphan list blocked.
LEMMA OrphanedLive ==
  ASSUME Live, UNCHANGED world, world.timed = {}, NEW c \in Cores, NEW e \in Endpoints, Unlocked(e),
         NEW w \in Threads, alive[w], ep[e].caller = w, Orphaned(w, e, c)
  PROVE  LiveOK(w)'
PROOF
  <1>0. LiveOK(w) /\ Clr(w, e) /\ CoreOf[w] \in Cores BY DEF Live, Clr
  <1>1. /\ wait[w].k = "call" /\ wait[w].obj = e /\ Unwoken(w)
        /\ Still(w, e) \/ (Self(w) /\ op[CoreOf[w]].obj = e)
        /\ \A x \in Endpoints : ~Rcv(w, x) /\ (Snd(w, x) \/ Clr(w, x) => x = e)
        /\ \A n \in Notifications : ~Wtr(w, n)
    BY <1>0, ClrFacts
  <1>2. \A d \in Cores, o \in Objs : ~OffAt(w, o, d) BY <1>0 DEF LiveOK, OffOK
  <1>3. ipc[w] /\ frame[w] = NoFrame
    BY <1>0, <1>1, <1>2 DEF Still, Off, Unlocked, Objs
  <1>4. ~Snd(w, e) /\ ~Self(w) BY <1>0, <1>3 DEF Live, Apart, Snd, Clr, LiveOK, SelfOK
  <1>5. /\ EpLess(w, e) /\ ~Clr(w, e)' /\ NtView(w)
        /\ Snd(w, e)' <=> Snd(w, e)
        /\ Rcv(w, e)' <=> Rcv(w, e)
        /\ \A d \in Cores : /\ Tgt(w, d)' <=> Tgt(w, d)
                            /\ Orp(w, d)' <=> Orp(w, d) \/ d = c
                            /\ \A o \in Objs : OffAt(w, o, d)' <=> OffAt(w, o, d)
        /\ Self(w)' <=> Self(w)
    BY DEF Orphaned
  <1>6. /\ ipc'[w] = ipc[w] /\ wait'[w] = wait[w] /\ frame'[w].res = frame[w].res
        /\ frame'[w] = NoFrame <=> frame[w] = NoFrame
    BY DEF Orphaned, ThreadView
  <1>7. SndOK(w)' /\ ClrOK(w)' /\ RcvOK(w)' /\ WtrOK(w)'
    BY <1>1, <1>4, <1>5 DEF SndOK, ClrOK, RcvOK, WtrOK, EpLess, NtView
  <1>8. TgtOK(w)' BY <1>1, <1>5 DEF TgtOK, Unwoken
  <1>9. OrpOK(w)' BY <1>1, <1>3, <1>5, <1>6 DEF OrpOK, Unwoken
  <1>10. OffOK(w)' BY <1>2, <1>5 DEF OffOK
  <1>11. ThreadOK(w)' /\ SelfOK(w)'
    BY <1>0, <1>1, <1>3, <1>4, <1>5, <1>6 DEF LiveOK, ThreadOK, SelfOK
  <1> QED BY <1>7, <1>8, <1>9, <1>10, <1>11 DEF LiveOK

LEMMA SweepEpLive ==
  ASSUME Base, OrphansWait, Live, NEW c \in Cores, NEW e \in Endpoints, SweepEp(c, e), UNCHANGED world
  PROVE  Live'
PROOF
  <1>0. TypeInv /\ OpsTrue /\ TypeOK /\ Habits BY DEF Base, TypeInv
  <1>1. alive' = alive /\ Unlocked(e) BY DEF SweepEp, threadVars
  <1>2. /\ Single' /\ OnlyEp(e) /\ OnlyCore(c)
        /\ op[c].to \in Threads /\ ~alive[op[c].to]
        /\ ToSet(ep'[e].senders) \subseteq ToSet(ep[e].senders)
        /\ ep'[e].caller # None => ep'[e].caller = ep[e].caller
        /\ \A u \in Threads : alive[u] => IF ep[e].owner = op[c].to /\ u = ep[e].caller
                                          THEN Orphaned(u, e, c) ELSE Untouched(u)
        /\ ep[e].owner # op[c].to => op'[c].orphans = op[c].orphans
    BY <1>0, SweepEpEffect DEF Live
  <1>3. Apart'
    <2>1. None \notin ToSet(ep[e].senders) BY <1>0, QueueNone
    <2> QED BY <1>2, <2>1, ApartOne DEF Live, Apart
  <1>4. CASE ep[e].owner # op[c].to
    <2>1. NoTimedOrphan' BY <1>2, <1>4, OrphansOne DEF Live
    <2> QED BY <1>0, <1>1, <1>2, <1>3, <1>4, <2>1, LiveKept DEF Live
  <1>5. CASE ep[e].owner = op[c].to
    <2>1. op[c].to \in Servers(e) \cap world.mortal
      BY <1>0, <1>2, <1>5, NoneApart DEF Habits, EpHabit
    <2>2. world.timed = {} BY <2>1 DEF OrphansWait
    <2>3. NoTimedOrphan' BY <2>2 DEF NoTimedOrphan
    <2>4. ASSUME NEW u \in Threads, alive[u] PROVE LiveOK(u)'
      <3>1. CASE u = ep[e].caller BY <1>1, <1>2, <1>5, <2>2, <2>4, <3>1, OrphanedLive
      <3>2. CASE u # ep[e].caller BY <1>0, <1>2, <2>4, <3>2, LiveKept DEF Live
      <3> QED BY <3>1, <3>2
    <2> QED BY <1>1, <1>2, <1>3, <2>3, <2>4 DEF Live
  <1> QED BY <1>4, <1>5

LEMMA AbortCallLive ==
  ASSUME Base, OrphansWait, Live, NEW c \in Cores, NEW e \in Endpoints, AbortCall(c, e),
         UNCHANGED world
  PROVE  Live'
PROOF
  <1>0. TypeInv /\ OpsTrue /\ TypeOK BY DEF Base, TypeInv
  <1>1. alive' = alive /\ world.reloading BY DEF AbortCall, Managing, threadVars
  <1>2. /\ Single' /\ OnlyEp(e) /\ Unlocked(e)
        /\ ep'[e].senders = ep[e].senders /\ ep'[e].caller = None
        /\ \A u \in Threads : alive[u] => IF u = ep[e].caller THEN Orphaned(u, e, c) ELSE Untouched(u)
    BY <1>0, AbortCallEffect DEF Live
  <1>3. Apart' BY <1>0, <1>2, ApartOne, QueueNone DEF Live
  <1>4. world.timed = {} BY <1>1 DEF OrphansWait
  <1>5. NoTimedOrphan' BY <1>4 DEF NoTimedOrphan
  <1>6. ASSUME NEW u \in Threads, alive[u] PROVE LiveOK(u)'
    <2>1. CASE u = ep[e].caller BY <1>2, <1>4, <1>6, <2>1, OrphanedLive
    <2>2. CASE u # ep[e].caller BY <1>0, <1>2, <1>6, <2>2, LiveKept DEF Live
    <2> QED BY <2>1, <2>2
  <1> QED BY <1>1, <1>2, <1>3, <1>5, <1>6 DEF Live

LEMMA SetQuiescingLive ==
  ASSUME Base, Live, NEW c \in Cores, NEW e \in Endpoints, NEW q \in BOOLEAN,
         SetQuiescing(c, e, q), UNCHANGED world
  PROVE  Live'
PROOF
  <1>0. TypeInv /\ OpsTrue BY DEF Base
  <1>1. alive' = alive /\ op' = op BY DEF SetQuiescing, threadVars
  <1>2. Single' /\ \A u \in Threads : alive[u] => Untouched(u) BY <1>0, SetQuiescingEffect DEF Live
  <1>3. OnlyEp(e) /\ ep'[e].senders = ep[e].senders /\ ep'[e].caller = ep[e].caller
    BY <1>0, SetQuiescingStep
  <1>4. Apart' BY <1>3, ApartOne DEF Live, Apart
  <1>5. NoTimedOrphan' BY <1>1 DEF Live, NoTimedOrphan
  <1> QED BY <1>0, <1>1, <1>2, <1>4, <1>5, LiveKept DEF Live

LEMMA RetireLive ==
  ASSUME Base, Live, NEW c \in Cores, NEW e \in Endpoints, NEW t \in Threads,
         RetireReceiver(c, e, t) \/ \E new \in Threads : RebindServer(c, e, t, new),
         UNCHANGED world
  PROVE  Live'
PROOF
  <1>0. TypeInv /\ OpsTrue BY DEF Base
  <1>1. alive' = alive /\ op' = op /\ Unlocked(e)
    BY DEF RetireReceiver, RebindServer, Managing, threadVars
  <1>2. /\ Single' /\ OnlyEp(e) /\ ep'[e].senders = ep[e].senders /\ ep'[e].caller = ep[e].caller
        /\ \A u \in Threads : alive[u] => EpLess(u, e) /\ NtView(u) /\ OpView(u) /\ ThreadView(u)
    BY <1>0, RetireEffect DEF Live
  <1>3. Apart' BY <1>2, ApartOne DEF Live, Apart
  <1>4. NoTimedOrphan' BY <1>1 DEF Live, NoTimedOrphan
  <1> QED BY <1>0, <1>1, <1>2, <1>3, <1>4, LiveLess DEF Live

LEMMA MigrateOwnerLive ==
  ASSUME Base, Live, NEW c \in Cores, NEW e \in Endpoints, NEW s \in Threads,
         MigrateOwner(c, e, s), UNCHANGED world
  PROVE  Live'
PROOF
  <1>w. PICK w : w = ep[e].caller OBVIOUS
  <1>0. TypeInv /\ OpsTrue /\ e \in Objs BY DEF Base, Objs
  <1>1. alive' = alive /\ op' = op /\ Unlocked(e) BY DEF MigrateOwner, Managing, threadVars
  <1>2. /\ TypeInv' /\ OnlyEp(e) /\ w \in Threads /\ (Single /\ ~Snd(w, e) => Single')
        /\ ep'[e].receivers = ep[e].receivers /\ ep'[e].caller = None
        /\ ToSet(ep'[e].senders) = ToSet(ep[e].senders) \cup {w}
        /\ \A u \in Threads : alive[u] =>
              /\ NtView(u) /\ OpView(u) /\ ThreadView(u)
              /\ u # w => Untouched(u)
    BY <1>0, <1>w, MigrateOwnerEffect
  <1>3. Clr(w, e) /\ ~Snd(w, e) BY <1>w DEF Live, Apart, Snd, Clr
  <1>4. Single' BY <1>2, <1>3 DEF Live
  <1>5. None \notin ToSet(ep[e].senders) /\ w # None BY <1>0, <1>2, QueueNone, NoneApart
  <1>6. Apart' BY <1>2, <1>5, ApartOne DEF Live
  <1>7. NoTimedOrphan' BY <1>1 DEF Live, NoTimedOrphan
  <1>8. ASSUME alive[w] PROVE LiveOK(w)'
    <2>0. LiveOK(w) /\ NtView(w) /\ OpView(w) /\ ThreadView(w) BY <1>2, <1>8 DEF Live
    <2>1. /\ wait[w].k = "call" /\ wait[w].obj = e /\ Unwoken(w)
          /\ Still(w, e) \/ (Self(w) /\ op[CoreOf[w]].obj = e)
          /\ \A x \in Endpoints : ~Rcv(w, x) /\ (Snd(w, x) \/ Clr(w, x) => x = e)
          /\ \A n \in Notifications : ~Wtr(w, n)
      BY <1>2, <1>3, <2>0, ClrFacts
    <2>2. /\ \A o \in Objs : Off(w, o)' <=> Off(w, o)
          /\ Unwoken(w)' /\ (Self(w)' <=> Self(w))
          /\ CoreOf[w] \in Cores
      BY <1>2, <2>0, <2>1, OpViewFacts
    <2>3. ~Self(w) /\ Still(w, e)
      BY <1>1, <2>0, <2>1, <2>2 DEF LiveOK, SelfOK, Unlocked
    <2>4. /\ ipc'[w] = ipc[w] /\ wait'[w] = wait[w] /\ frame'[w].res = frame[w].res
          /\ frame'[w] = NoFrame <=> frame[w] = NoFrame
      BY <2>0 DEF ThreadView
    <2>5. Still(w, e)' /\ In(w, "call", e)' BY <1>0, <2>1, <2>2, <2>3, <2>4 DEF Still, In
    <2>6. ~Clr(w, e)' /\ (Rcv(w, e)' <=> Rcv(w, e)) BY <1>2, <1>5 DEF Clr, Rcv
    <2>7. \A x \in Endpoints : x # e => ~Snd(w, x)' /\ ~Rcv(w, x)' /\ ~Clr(w, x)'
      BY <1>2, <2>1 DEF OnlyEp, Snd, Rcv, Clr
    <2>8. SndOK(w)' /\ ClrOK(w)' /\ RcvOK(w)' /\ WtrOK(w)'
      BY <2>0, <2>1, <2>2, <2>5, <2>6, <2>7 DEF SndOK, ClrOK, RcvOK, WtrOK, NtView
    <2>9. TgtOK(w)' /\ OrpOK(w)' BY <2>2 DEF TgtOK, OrpOK, Unwoken
    <2>10. OffOK(w)' BY <2>0, <2>4 DEF OffOK, LiveOK, OpView
    <2>11. ThreadOK(w)' /\ SelfOK(w)' BY <2>0, <2>1, <2>2, <2>3, <2>4 DEF LiveOK, ThreadOK, SelfOK
    <2> QED BY <2>8, <2>9, <2>10, <2>11 DEF LiveOK
  <1>9. ASSUME NEW u \in Threads, alive[u], u # w PROVE LiveOK(u)'
    BY <1>0, <1>2, <1>9, LiveKept DEF Live
  <1> QED BY <1>1, <1>4, <1>6, <1>7, <1>8, <1>9 DEF Live

LEMMA LiveInit == ASSUME Init PROVE Live
PROOF
  <1>1. \A e \in Endpoints : ep[e].senders = <<>> /\ ep[e].receivers = <<>> /\ ep[e].caller = None
    BY DEF Init
  <1>2. Single /\ Apart BY <1>1, EmptySet DEF Single, Apart
  <1>3. \A c \in Cores : op[c] = Idle /\ op[c].k = "idle" /\ op[c].orphans = {} /\ op[c].self = None
    BY DEF Init, Idle
  <1>4. NoTimedOrphan BY <1>3 DEF NoTimedOrphan
  <1>5. ASSUME NEW t \in Threads PROVE LiveOK(t)
    <2>1. wait[t] = User /\ ~ipc[t] /\ frame[t] = NoFrame /\ CoreOf[t] \in Cores BY DEF Init
    <2>2. /\ \A e \in Endpoints : ~Snd(t, e) /\ ~Rcv(t, e) /\ ~Clr(t, e)
          /\ \A n \in Notifications : ~Wtr(t, n)
      BY <1>1, EmptySet, NoneApart DEF Snd, Rcv, Clr, Wtr, Init
    <2>3. /\ \A c \in Cores : ~Tgt(t, c) /\ ~Orp(t, c) /\ \A o \in Objs : ~OffAt(t, o, c)
          /\ ~Self(t)
      BY <1>3, <2>1, NoneApart DEF Tgt, Orp, OffAt, Self
    <2>4. SndOK(t) /\ ClrOK(t) /\ RcvOK(t) /\ WtrOK(t) BY <2>2 DEF SndOK, ClrOK, RcvOK, WtrOK
    <2>5. TgtOK(t) /\ OrpOK(t) /\ OffOK(t) BY <2>3 DEF TgtOK, OrpOK, OffOK
    <2>6. ThreadOK(t) /\ SelfOK(t) BY <2>1, <2>3, UserFields DEF ThreadOK, SelfOK
    <2> QED BY <2>4, <2>5, <2>6 DEF LiveOK
  <1> QED BY <1>2, <1>4, <1>5 DEF Live

LEMMA LiveStutters == ASSUME OpsTrue, Live, UNCHANGED vars PROVE Live'
PROOF
  <1>1. /\ ep' = ep /\ nt' = nt /\ alive' = alive /\ ipc' = ipc /\ frame' = frame /\ wait' = wait
        /\ serving' = serving /\ op' = op /\ world' = world
    BY DEF vars, moving
  <1>2. \A u \in Threads : Untouched(u)
    BY <1>1, EpViewSame, NtViewSame, OpViewSame, ThreadViewSame DEF Untouched
  <1> QED BY <1>1, <1>2, AllKeptLive

LEMMA LiveStep == ASSUME Base, OrphansWait, Live, [Next]_vars PROVE Live'
PROOF
  <1>1. CASE UNCHANGED vars BY <1>1, LiveStutters DEF Base
  <1>2. CASE Next
    BY <1>2, Steps, CallRefusedLive, CallQueuedLive, CallRendezvousLive, RecvRefusedLive,
       RecvQueuedLive, RecvRendezvousLive, ReplyLive, WaitLive, ReturnLive, WakeLive, QuietLive,
       SignalLive, TickLive, OrphanLive, DieLive, PurgeLive, SweepEpLive, AbortCallLive,
       SetQuiescingLive, RetireLive, MigrateOwnerLive
  <1> QED BY <1>1, <1>2

-----------------------------------------------------------------------------
(* Nobody is overwritten: the request a server holds                       *)

\* The request that server s has received at e and not answered yet.
Got(s, e) == wait[s].k = "recv" /\ wait[s].obj = e /\ frame[s].res = "OK"
Holding(s, e) == IF Got(s, e) THEN frame[s].from ELSE serving[s][e]

\* An endpoint with one server, which uses no deadlines: what it holds is the call of the token.
Serves == \A e \in Endpoints, u \in Threads : OneServer(e) /\ Clr(u, e) /\ alive[u] =>
            \A s \in Servers(e) : alive[s] => Holding(s, e) = u
Answer(t) == wait[t].k = "call" /\ frame[t].res = "OK" => frame[t].from = t
Answers == (\A e \in Endpoints : OneServer(e)) => \A t \in Threads : alive[t] => Answer(t)

\* A blocked thread is entered, retired, or about to be woken.
NotLost(t) == ipc[t] =>
  \/ \E e \in Endpoints : Snd(t, e) \/ Rcv(t, e) \/ Clr(t, e)
  \/ \E n \in Notifications : Wtr(t, n)
  \/ t \in retired \/ ~Unwoken(t)
Exclusive == \A e \in Endpoints : OneServer(e) \/ OneClient(e)
NobodyLost == Exclusive => \A t \in Threads : alive[t] => NotLost(t)

Settled == Serves /\ Answers /\ NobodyLost

LEMMA SettledFrom ==
  ASSUME Settled, UNCHANGED world, \A u \in Threads : alive'[u] => alive[u],
         \A e \in Endpoints, u \in Threads : alive'[u] /\ Clr(u, e)' => Clr(u, e),
         \A e \in Endpoints, u \in Threads, s \in Threads :
           alive'[u] /\ Clr(u, e) /\ s \in Servers(e) /\ alive'[s] /\ OneServer(e) /\ Holding(s, e) = u
             => Holding(s, e)' = u,
         \A u \in Threads : alive'[u] /\ Answer(u) => Answer(u)',
         \A u \in Threads : alive'[u] /\ NotLost(u) => NotLost(u)'
  PROVE  Settled'
PROOF
  <1>0. /\ \A e \in Endpoints : Servers(e)' = Servers(e) /\ (OneServer(e)' <=> OneServer(e))
                                /\ (OneClient(e)' <=> OneClient(e))
    BY SameWorld
  <1>1. Serves'
    <2> SUFFICES ASSUME NEW e \in Endpoints, NEW u \in Threads, OneServer(e), Clr(u, e)', alive'[u],
                        NEW s \in Servers(e), alive'[s]
                 PROVE  Holding(s, e)' = u
      BY <1>0 DEF Serves
    <2>1. Clr(u, e) /\ alive[u] /\ alive[s] /\ s \in Threads BY DEF Servers
    <2>2. Holding(s, e) = u BY <2>1 DEF Settled, Serves
    <2> QED BY <2>1, <2>2
  <1>2. Answers' BY <1>0 DEF Settled, Answers
  <1>3. NobodyLost' BY <1>0 DEF Settled, NobodyLost, Exclusive
  <1> QED BY <1>1, <1>2, <1>3 DEF Settled

\* Steps that neither write a frame nor start or end a system call.
LEMMA SettledCalm ==
  ASSUME Settled, UNCHANGED world, alive' = alive, wait' = wait, frame' = frame, serving' = serving,
         \A e \in Endpoints, u \in Threads : alive[u] /\ Clr(u, e)' => Clr(u, e),
         \A u \in Threads : alive[u] /\ NotLost(u) => NotLost(u)'
  PROVE  Settled'
PROOF
  <1>1. \A s, e : Holding(s, e)' = Holding(s, e) BY DEF Holding, Got
  <1>2. \A u : Answer(u)' <=> Answer(u) BY DEF Answer
  <1> QED BY <1>1, <1>2, SettledFrom

LEMMA NotLostKept ==
  ASSUME NEW t \in Threads, NotLost(t), Untouched(t), t \in retired => t \in retired'
  PROVE  NotLost(t)'
PROOF
  <1>1. EpView(t) /\ NtView(t) /\ OpView(t) /\ ipc'[t] = ipc[t] BY DEF Untouched, ThreadView
  <1>2. Unwoken(t)' <=> Unwoken(t) BY <1>1, OpViewFacts
  <1> QED BY <1>1, <1>2 DEF NotLost, EpView, NtView

\* A thread outside a receive holds what it owes.
LEMMA HoldOwed ==
  ASSUME NEW s, NEW e, wait[s].k # "recv" \/ wait[s].obj # e \/ frame[s].res # "OK"
  PROVE  Holding(s, e) = serving[s][e]
  BY DEF Holding, Got

LEMMA HoldSame ==
  ASSUME NEW s, wait'[s] = wait[s], frame'[s] = frame[s], serving'[s] = serving[s]
  PROVE  \A e : Holding(s, e)' = Holding(s, e)
  BY DEF Holding, Got

\* One thread starts a system call, or gets a result outside a receive.
LEMMA SettledOne ==
  ASSUME Settled, UNCHANGED world, alive' = alive, serving' = serving,
         NEW t \in Threads, \A u \in Threads : u # t => wait'[u] = wait[u] /\ frame'[u] = frame[u],
         wait[t].k # "recv", wait'[t].k # "recv" \/ frame'[t].res # "OK",
         Answer(t)', NotLost(t) => NotLost(t)',
         \A e \in Endpoints, u \in Threads : alive[u] /\ Clr(u, e)' => Clr(u, e),
         \A u \in Threads : alive[u] /\ u # t /\ NotLost(u) => NotLost(u)'
  PROVE  Settled'
PROOF
  <1>1. ASSUME NEW s \in Threads, NEW e PROVE Holding(s, e)' = Holding(s, e)
    <2>1. CASE s = t BY <2>1 DEF Holding, Got
    <2>2. CASE s # t BY <2>2, HoldSame
    <2> QED BY <2>1, <2>2
  <1>2. ASSUME NEW u \in Threads, Answer(u) PROVE Answer(u)'
    <2>1. CASE u = t BY <2>1
    <2>2. CASE u # t BY <1>2, <2>2 DEF Answer
    <2> QED BY <2>1, <2>2
  <1>3. \A u \in Threads : alive[u] /\ NotLost(u) => NotLost(u)' OBVIOUS
  <1> QED BY <1>1, <1>2, <1>3, SettledFrom

LEMMA SameRetired ==
  ASSUME retired' = retired, \A u \in Threads : alive[u] => Untouched(u)
  PROVE  /\ \A u \in Threads : alive[u] /\ NotLost(u) => NotLost(u)'
         /\ \A e \in Endpoints, u \in Threads : alive[u] /\ Clr(u, e)' => Clr(u, e)
  BY NotLostKept DEF Untouched, EpView

LEMMA CallQueuedSettled ==
  ASSUME Base, Live, Settled, NEW t \in Threads, NEW e \in Endpoints, NEW tm \in BOOLEAN,
         CallQueued(t, e, tm), UNCHANGED world
  PROVE  Settled'
PROOF
  <1>0. TypeInv /\ OpsTrue /\ TypeOK BY DEF Base, TypeInv
  <1>1. /\ Running(t) /\ alive' = alive /\ frame' = frame /\ serving' = serving /\ retired' = retired
        /\ wait' = [wait EXCEPT ![t] = [k |-> "call", obj |-> e, timed |-> tm]]
    BY DEF CallQueued, CallEntry
  <1>2. alive[t] /\ LiveOK(t) /\ Clear(t) /\ wait[t].k = "user"
    BY <1>1, RunningAbsent, RunningClear, UserFields DEF Live
  <1>3. /\ \A u \in Threads : u # t /\ alive[u] => Untouched(u)
        /\ \A x \in Endpoints : /\ Snd(t, x)' <=> Snd(t, x) \/ x = e
                                /\ Clr(t, x)' <=> Clr(t, x)
    BY <1>0, CallQueuedEffect
  <1>4. /\ \A u \in Threads : u # t => wait'[u] = wait[u]
        /\ wait'[t].k = "call" /\ frame'[t].res = None
    BY <1>0, <1>1, <1>2, NoFrameFields DEF TypeOK, Clear
  <1>5. Answer(t)' /\ NotLost(t)' BY <1>3, <1>4 DEF Answer, NotLost, None
  <1>6. \A x \in Endpoints, u \in Threads : alive[u] /\ Clr(u, x)' => Clr(u, x)
    BY <1>3 DEF Untouched, EpView
  <1>7. \A u \in Threads : alive[u] /\ u # t /\ NotLost(u) => NotLost(u)' BY <1>1, <1>3, NotLostKept
  <1> QED BY <1>1, <1>2, <1>4, <1>5, <1>6, <1>7, SettledOne

LEMMA RecvQueuedSettled ==
  ASSUME Base, Live, Settled, NEW t \in Threads, NEW e \in Endpoints, RecvQueued(t, e), UNCHANGED world
  PROVE  Settled'
PROOF
  <1>0. TypeInv /\ OpsTrue /\ TypeOK BY DEF Base, TypeInv
  <1>1. /\ Running(t) /\ alive' = alive /\ frame' = frame /\ serving' = serving /\ retired' = retired
        /\ wait' = [wait EXCEPT ![t] = [k |-> "recv", obj |-> e, timed |-> FALSE]]
    BY DEF RecvQueued
  <1>2. alive[t] /\ LiveOK(t) /\ Clear(t) /\ wait[t].k = "user"
    BY <1>1, RunningAbsent, RunningClear, UserFields DEF Live
  <1>3. /\ \A u \in Threads : u # t /\ alive[u] => Untouched(u)
        /\ \A x \in Endpoints : /\ Rcv(t, x)' <=> Rcv(t, x) \/ x = e
                                /\ Clr(t, x)' <=> Clr(t, x)
    BY <1>0, RecvQueuedEffect
  <1>4. /\ \A u \in Threads : u # t => wait'[u] = wait[u]
        /\ wait'[t].k = "recv" /\ frame'[t].res = None
    BY <1>0, <1>1, <1>2, NoFrameFields DEF TypeOK, Clear
  <1>5. Answer(t)' /\ NotLost(t)' BY <1>3, <1>4 DEF Answer, NotLost, None
  <1>6. \A x \in Endpoints, u \in Threads : alive[u] /\ Clr(u, x)' => Clr(u, x)
    BY <1>3 DEF Untouched, EpView
  <1>7. \A u \in Threads : alive[u] /\ u # t /\ NotLost(u) => NotLost(u)' BY <1>1, <1>3, NotLostKept
  <1>8. frame'[t].res # "OK" BY <1>4 DEF None
  <1> QED BY <1>1, <1>2, <1>4, <1>5, <1>6, <1>7, <1>8, SettledOne

LEMMA WaitSettled ==
  ASSUME Base, Live, Settled, NEW t \in Threads, NEW n \in Notifications, NEW tm \in BOOLEAN,
         WaitReturns(t, n, tm) \/ WaitBlocks(t, n, tm), UNCHANGED world
  PROVE  Settled'
PROOF
  <1>0. TypeInv /\ OpsTrue /\ TypeOK BY DEF Base, TypeInv
  <1>1. CASE WaitReturns(t, n, tm)
    <2>1. /\ alive' = alive /\ frame' = frame /\ serving' = serving /\ wait' = wait
          /\ retired' = retired
      BY <1>1 DEF WaitReturns
    <2>2. \A u \in Threads : alive[u] => Untouched(u) BY <1>0, <1>1, WaitReturnsEffect
    <2> QED BY <2>1, <2>2, SameRetired, SettledCalm
  <1>2. CASE WaitBlocks(t, n, tm)
    <2>1. /\ Running(t) /\ alive' = alive /\ frame' = frame /\ serving' = serving
          /\ retired' = retired
          /\ wait' = [wait EXCEPT ![t] = [k |-> "wait", obj |-> n, timed |-> tm]]
      BY <1>2 DEF WaitBlocks
    <2>2. alive[t] /\ LiveOK(t) /\ Clear(t) /\ wait[t].k = "user"
      BY <2>1, RunningAbsent, RunningClear, UserFields DEF Live
    <2>3. /\ \A u \in Threads : u # t /\ alive[u] => Untouched(u)
          /\ EpView(t) /\ \A x \in Notifications : Wtr(t, x)' <=> Wtr(t, x) \/ x = n
      BY <1>0, <1>2, WaitBlocksEffect
    <2>4. /\ \A u \in Threads : u # t => wait'[u] = wait[u]
          /\ wait'[t].k = "wait"
      BY <1>0, <2>1 DEF TypeOK
    <2>5. Answer(t)' /\ NotLost(t)' BY <2>3, <2>4 DEF Answer, NotLost
    <2>6. \A x \in Endpoints, u \in Threads : alive[u] /\ Clr(u, x)' => Clr(u, x)
      BY <2>3 DEF Untouched, EpView
    <2>7. \A u \in Threads : alive[u] /\ u # t /\ NotLost(u) => NotLost(u)' BY <2>1, <2>3, NotLostKept
    <2> QED BY <2>1, <2>2, <2>4, <2>5, <2>6, <2>7, SettledOne
  <1> QED BY <1>1, <1>2

LEMMA SignalSettled ==
  ASSUME Base, Live, Settled, NEW c \in Cores, NEW n \in Notifications, NEW b \in world.badges,
         Signal(c, n, b), UNCHANGED world
  PROVE  Settled'
PROOF
  <1>w. PICK w : w = nt[n].waiter OBVIOUS
  <1>0. TypeInv /\ OpsTrue /\ TypeOK BY DEF Base, TypeInv
  <1>1. /\ alive' = alive /\ wait' = wait /\ serving' = serving /\ retired' = retired
        /\ w = None \/ ~alive[w] => frame' = frame
    BY <1>w DEF Signal
  <1>2. /\ \A u \in Threads : alive[u] => EpView(u) /\ (u # w => Untouched(u))
        /\ w # None =>
              /\ w \in Threads /\ op'[c].k = "wake" /\ op'[c].to = w
              /\ alive[w] => frame' = [frame EXCEPT ![w] =
                               [res |-> "OK", from |-> None, bits |-> nt[n].pending \cup {b}]]
    BY <1>0, <1>w, SignalEffect
  <1>3. \A x \in Endpoints, u \in Threads : alive[u] /\ Clr(u, x)' => Clr(u, x) BY <1>2 DEF EpView
  <1>4. \A u \in Threads : alive[u] /\ u # w /\ NotLost(u) => NotLost(u)' BY <1>1, <1>2, NotLostKept
  <1>5. CASE w = None \/ ~alive[w] BY <1>1, <1>3, <1>4, <1>5, SettledCalm, NoneApart
  <1>6. CASE w # None /\ alive[w]
    <2>1. w \in Threads /\ LiveOK(w) /\ Wtr(w, n) BY <1>w, <1>2, <1>6 DEF Live, Wtr
    <2>2. wait[w].k = "wait" BY <2>1, WtrFacts
    <2>3. Tgt(w, c)' BY <1>2, <1>6 DEF Tgt
    <2>4. NotLost(w)' BY <2>3 DEF NotLost, Unwoken
    <2>5. Answer(w)' BY <1>1, <2>2 DEF Answer
    <2>6. \A u \in Threads : u # w => frame'[u] = frame[u] BY <1>0, <1>2, <1>6 DEF TypeOK
    <2>7. wait'[w].k # "recv" /\ wait[w].k # "recv" BY <1>1, <2>2
    <2> QED BY <1>1, <1>3, <1>4, <2>1, <2>4, <2>5, <2>6, <2>7, SettledOne
  <1> QED BY <1>5, <1>6

\* A server about to receive holds nothing, so the token of its endpoint names no live caller.
LEMMA TokenFree ==
  ASSUME Serves, NEW e \in Endpoints, OneServer(e), NEW s \in Servers(e), alive[s],
         Holding(s, e) = None
  PROVE  \A u \in Threads : alive[u] => ~Clr(u, e)
  BY NoneApart DEF Serves

LEMMA CallRendezvousSettled ==
  ASSUME Base, Live, Settled, NEW t \in Threads, NEW e \in Endpoints, NEW tm \in BOOLEAN,
         CallRendezvous(t, e, tm), UNCHANGED world
  PROVE  Settled'
PROOF
  <1>0. TypeInv /\ OpsTrue /\ TypeOK /\ Single /\ Habits /\ e \in Objs
    BY DEF Base, TypeInv, Live, Objs
  <1>1. /\ Running(t) /\ alive' = alive /\ serving' = serving /\ retired' = retired /\ ipc' = ipc
        /\ wait' = [wait EXCEPT ![t] = [k |-> "call", obj |-> e, timed |-> tm]]
        /\ Holds(t, e, "WRITE")
    BY DEF CallRendezvous, CallEntry
  <1>2. /\ alive[t] /\ LiveOK(t) /\ Clear(t) /\ CoreOf[t] \in Cores /\ wait[t].k = "user" /\ ~ipc[t]
        /\ t \in Clients(e)
    BY <1>1, RunningAbsent, RunningClear, UserFields, HoldsRight DEF Live
  <1>3. OnlyEp(e) BY <1>0, CallRendezvousEffect
  <1>4. PICK s \in Threads :
              /\ Rcv(s, e) /\ alive[s]
              /\ ep'[e].senders = ep[e].senders /\ ep'[e].caller = t
              /\ frame' = [frame EXCEPT ![s] = [res |-> "OK", from |-> t, bits |-> {}]]
              /\ op'[CoreOf[t]].k = "wake" /\ op'[CoreOf[t]].to = s
              /\ \A u \in Threads : u # s /\ u # t /\ alive[u] /\ u # ep[e].caller => Untouched(u)
    BY <1>0, CallRendezvousEffect
  <1>5. LiveOK(s) /\ s # t /\ Rcv(s, e) BY <1>2, <1>4 DEF Live, Clear
  <1>6. /\ wait[s].k = "recv" /\ wait[s].obj = e /\ Still(s, e) /\ serving[s][e] = None
    BY <1>5, RcvFacts
  <1>7. s \in Servers(e) BY <1>0, <1>4 DEF Habits, EpHabit, Rcv
  <1>8. ASSUME OneServer(e) PROVE Holding(s, e) = None
    <2>1. s \notin world.timed BY <1>7, <1>8 DEF OneServer
    <2>2. ~Off(s, e) BY <1>0, <1>5, <2>1 DEF LiveOK, OffOK, Off
    <2>3. frame[s].res = None BY <1>6, <2>2, NoFrameFields DEF Still
    <2> QED BY <1>6, <2>3, HoldOwed DEF None
  <1>9. ASSUME OneServer(e) \/ OneClient(e), NEW u \in Threads, alive[u] PROVE ~Clr(u, e)
    <2>1. CASE OneServer(e) BY <1>4, <1>7, <1>8, <1>9, <2>1, TokenFree DEF Settled
    <2>2. CASE OneClient(e)
      <3>1. ASSUME Clr(u, e) PROVE u \in Clients(e)
        BY <1>0, <3>1, NoneApart DEF Habits, EpHabit, Clr
      <3> QED BY <1>2, <2>2, <3>1 DEF OneClient, Clear
    <2> QED BY <1>9, <2>1, <2>2
  <1>10. /\ wait'[t].k = "call" /\ frame'[t] = frame[t]
         /\ wait'[s] = wait[s] /\ frame'[s].res = "OK" /\ frame'[s].from = t
         /\ \A u \in Threads : u # t => wait'[u] = wait[u]
         /\ \A u \in Threads : u # s => frame'[u] = frame[u]
    BY <1>0, <1>1, <1>4, <1>5 DEF TypeOK
  <1>11. \A x \in Endpoints : x # e => \A u \in Threads : Clr(u, x)' <=> Clr(u, x)
    BY <1>3 DEF OnlyEp, Clr
  <1>12. \A e1 \in Endpoints : Servers(e1)' = Servers(e1) /\ (OneServer(e1)' <=> OneServer(e1))
                              /\ (OneClient(e1)' <=> OneClient(e1))
    BY SameWorld
  <1>13. Serves'
    <2> SUFFICES ASSUME NEW x \in Endpoints, NEW u \in Threads, OneServer(x), Clr(u, x)', alive[u],
                        NEW v \in Servers(x), alive[v]
                 PROVE  Holding(v, x)' = u
      BY <1>1, <1>12 DEF Serves
    <2>1. v \in Threads BY DEF Servers
    <2>2. CASE x = e
      <3>1. v = s /\ u = t BY <1>4, <1>7, <2>2 DEF OneServer, Clr
      <3> QED BY <1>6, <1>10, <2>2, <3>1 DEF Holding, Got
    <2>3. CASE x # e
      <3>1. Holding(v, x) = u BY <1>11, <2>1, <2>3 DEF Settled, Serves
      <3>2. CASE v = t BY <1>1, <1>2, <1>10, <3>1, <3>2 DEF Holding, Got
      <3>3. CASE v = s BY <1>1, <1>6, <1>10, <2>3, <3>1, <3>3 DEF Holding, Got
      <3>4. CASE v # t /\ v # s BY <1>1, <1>10, <2>1, <3>1, <3>4, HoldSame
      <3> QED BY <3>2, <3>3, <3>4
    <2> QED BY <2>2, <2>3
  <1>14. Answers'
    <2>1. frame[t].res = None BY <1>2, NoFrameFields DEF Clear
    <2>2. ASSUME NEW u \in Threads, Answer(u) PROVE Answer(u)'
      <3>1. CASE u = t BY <1>10, <2>1, <3>1 DEF Answer, None
      <3>2. CASE u = s BY <1>6, <1>10, <3>2 DEF Answer
      <3>3. CASE u # t /\ u # s BY <1>10, <2>2, <3>3 DEF Answer
      <3> QED BY <3>1, <3>2, <3>3
    <2> QED BY <1>1, <1>12, <2>2 DEF Settled, Answers
  <1>15. NobodyLost'
    <2> SUFFICES ASSUME Exclusive, NEW u \in Threads, alive[u] PROVE NotLost(u)'
      BY <1>1, <1>12 DEF NobodyLost, Exclusive
    <2>0. NotLost(u) /\ ~Clr(u, e) BY <1>9 DEF Settled, NobodyLost, Exclusive
    <2>1. CASE u = t
      <3>1. ~ipc'[t] BY <1>1, <1>2
      <3> QED BY <2>1, <3>1 DEF NotLost
    <2>2. CASE u = s
      <3>1. Tgt(s, CoreOf[t])' BY <1>4 DEF Tgt
      <3>2. ~Unwoken(s)' BY <1>2, <3>1 DEF Unwoken
      <3> QED BY <2>2, <3>2 DEF NotLost
    <2>3. CASE u # t /\ u # s
      <3>1. Untouched(u) BY <1>4, <2>0, <2>3 DEF Clr
      <3> QED BY <1>1, <2>0, <3>1, NotLostKept
    <2> QED BY <2>1, <2>2, <2>3
  <1> QED BY <1>13, <1>14, <1>15 DEF Settled

LEMMA RecvRendezvousSettled ==
  ASSUME Base, Live, Settled, NEW t \in Threads, NEW e \in Endpoints, RecvRendezvous(t, e),
         UNCHANGED world
  PROVE  Settled'
PROOF
  <1>0. TypeInv /\ OpsTrue /\ TypeOK /\ Single /\ Habits BY DEF Base, TypeInv, Live
  <1>1. /\ Running(t) /\ alive' = alive /\ frame' = frame /\ wait' = wait /\ retired' = retired
        /\ Holds(t, e, "READ") /\ serving[t][e] = None
    BY DEF RecvRendezvous
  <1>2. alive[t] /\ wait[t].k = "user" /\ t \in Servers(e)
    BY <1>1, RunningAbsent, UserFields, HoldsRight
  <1>3. OnlyEp(e) BY <1>0, RecvRendezvousEffect
  <1>4. PICK w \in Threads :
              /\ Snd(w, e) /\ alive[w] /\ ep'[e].caller = w
              /\ serving' = [serving EXCEPT ![t][e] = w]
              /\ \A u \in Threads : alive[u] => ThreadView(u) /\ (u # w /\ u # ep[e].caller => Untouched(u))
    BY <1>0, RecvRendezvousEffect
  <1>5. Holding(t, e) = None BY <1>1, <1>2, HoldOwed
  <1>6. w \in Clients(e) /\ ~Clr(w, e)
    BY <1>0, <1>4, NoneApart DEF Habits, EpHabit, Snd, Live, Apart, Clr
  <1>7. ASSUME OneServer(e) \/ OneClient(e), NEW u \in Threads, alive[u] PROVE ~Clr(u, e)
    <2>1. CASE OneServer(e) BY <1>2, <1>5, <1>7, <2>1, TokenFree DEF Settled
    <2>2. CASE OneClient(e)
      <3>1. ASSUME Clr(u, e) PROVE u \in Clients(e)
        BY <1>0, <3>1, NoneApart DEF Habits, EpHabit, Clr
      <3> QED BY <1>6, <2>2, <3>1 DEF OneClient
    <2> QED BY <1>7, <2>1, <2>2
  <1>8. \A e1 \in Endpoints : Servers(e1)' = Servers(e1) /\ (OneServer(e1)' <=> OneServer(e1))
                              /\ (OneClient(e1)' <=> OneClient(e1))
    BY SameWorld
  <1>9. Serves'
    <2> SUFFICES ASSUME NEW x \in Endpoints, NEW u \in Threads, OneServer(x), Clr(u, x)', alive[u],
                        NEW v \in Servers(x), alive[v]
                 PROVE  Holding(v, x)' = u
      BY <1>1, <1>8 DEF Serves
    <2>1. v \in Threads BY DEF Servers
    <2>2. CASE x = e
      <3>1. v = t /\ u = w BY <1>2, <1>4, <2>2 DEF OneServer, Clr
      <3>2. serving'[t][e] = w BY <1>0, <1>4 DEF TypeOK
      <3> QED BY <1>1, <1>2, <2>2, <3>1, <3>2 DEF Holding, Got
    <2>3. CASE x # e
      <3>1. Clr(u, x) BY <1>3, <2>3 DEF OnlyEp, Clr
      <3>2. Holding(v, x) = u BY <2>1, <3>1 DEF Settled, Serves
      <3>3. serving'[v][x] = serving[v][x] BY <1>0, <1>4, <2>1, <2>3 DEF TypeOK
      <3> QED BY <1>1, <3>2, <3>3 DEF Holding, Got
    <2> QED BY <2>2, <2>3
  <1>10. Answers'
    <2>1. \A u \in Threads : Answer(u) => Answer(u)' BY <1>1 DEF Answer
    <2> QED BY <1>1, <1>8, <2>1 DEF Settled, Answers
  <1>11. NobodyLost'
    <2> SUFFICES ASSUME Exclusive, NEW u \in Threads, alive[u] PROVE NotLost(u)'
      BY <1>1, <1>8 DEF NobodyLost, Exclusive
    <2>0. NotLost(u) /\ ~Clr(u, e) BY <1>7 DEF Settled, NobodyLost, Exclusive
    <2>1. CASE u = w
      <3>1. Clr(w, e)' BY <1>4 DEF Clr
      <3> QED BY <2>1, <3>1 DEF NotLost
    <2>2. CASE u # w
      <3>1. Untouched(u) BY <1>4, <2>0, <2>2 DEF Clr
      <3> QED BY <1>1, <2>0, <3>1, NotLostKept
    <2> QED BY <2>1, <2>2
  <1> QED BY <1>9, <1>10, <1>11 DEF Settled

LEMMA ReplySettled ==
  ASSUME Base, Live, Settled, NEW t \in Threads, NEW e \in Endpoints, Reply(t, e), UNCHANGED world
  PROVE  Settled'
PROOF
  <1>w. PICK w : w = ep[e].caller OBVIOUS
  <1>0. TypeInv /\ OpsTrue /\ TypeOK BY DEF Base, TypeInv
  <1>1. /\ Running(t) /\ alive' = alive /\ wait' = wait /\ ipc' = ipc /\ retired' = retired
        /\ Holds(t, e, "READ")
    BY DEF Reply
  <1>2. alive[t] /\ wait[t].k = "user" /\ t \in Servers(e) /\ CoreOf[t] \in Cores
    BY <1>1, RunningAbsent, UserFields, HoldsRight
  <1>3. /\ OnlyEp(e) /\ ep'[e].caller = None /\ serving' = [serving EXCEPT ![t][e] = None]
    BY <1>0, ReplyEffect
  <1>4. /\ \A u \in Threads : alive[u] /\ u # w => Untouched(u)
        /\ \/ /\ w \in Threads /\ alive[w] /\ ipc[w]
              /\ frame' = [frame EXCEPT ![w] = [res |-> "OK", from |-> serving[t][e], bits |-> {}]]
              /\ op'[CoreOf[t]].k = "wake" /\ op'[CoreOf[t]].to = w
           \/ /\ frame' = frame
              /\ w = None \/ ~alive[w] \/ ~ipc[w]
    BY <1>w, <1>0, ReplyEffect
  <1>5. ASSUME w \in Threads, alive[w] PROVE LiveOK(w) /\ Clr(w, e) /\ wait[w].k = "call"
    BY <1>w, <1>5, ClrFacts DEF Live, Clr
  <1>6. \A u \in Threads : ~Clr(u, e)' BY <1>3, NoneApart DEF Clr
  <1>7. \A e1 \in Endpoints : Servers(e1)' = Servers(e1) /\ (OneServer(e1)' <=> OneServer(e1))
                              /\ (OneClient(e1)' <=> OneClient(e1))
    BY SameWorld
  <1>8. Serves'
    <2> SUFFICES ASSUME NEW x \in Endpoints, NEW u \in Threads, OneServer(x), Clr(u, x)', alive[u],
                        NEW v \in Servers(x), alive[v]
                 PROVE  Holding(v, x)' = u
      BY <1>1, <1>7 DEF Serves
    <2>1. v \in Threads /\ x # e BY <1>6 DEF Servers
    <2>2. Clr(u, x) BY <1>3, <2>1 DEF OnlyEp, Clr
    <2>3. Holding(v, x) = u BY <2>1, <2>2 DEF Settled, Serves
    <2>4. serving'[v][x] = serving[v][x] BY <1>0, <1>3, <2>1 DEF TypeOK
    <2>5. CASE frame'[v] = frame[v] BY <1>1, <2>3, <2>4, <2>5 DEF Holding, Got
    <2>6. CASE frame'[v] # frame[v]
      <3>1. v = w /\ alive[w] BY <1>0, <1>4, <2>1, <2>6 DEF TypeOK
      <3>2. wait[v].k = "call" BY <1>5, <2>1, <3>1
      <3> QED BY <1>1, <2>3, <2>4, <3>2 DEF Holding, Got
    <2> QED BY <2>5, <2>6
  <1>9. Answers'
    <2> SUFFICES ASSUME \A x \in Endpoints : OneServer(x), NEW u \in Threads, alive[u]
                 PROVE  Answer(u)'
      BY <1>1, <1>7 DEF Answers
    <2>1. Answer(u) BY DEF Settled, Answers
    <2>2. CASE frame'[u] = frame[u] BY <1>1, <2>1, <2>2 DEF Answer
    <2>3. CASE frame'[u] # frame[u]
      <3>1. /\ u = w /\ frame'[w] = [res |-> "OK", from |-> serving[t][e], bits |-> {}]
        BY <1>0, <1>4, <2>3, ZenonT(40) DEF TypeOK
      <3>2. Holding(t, e) = w BY <1>2, <1>5, <3>1 DEF Settled, Serves
      <3>3. serving[t][e] = w BY <1>2, <3>2, HoldOwed
      <3> QED BY <3>1, <3>3 DEF Answer
    <2> QED BY <2>2, <2>3
  <1>10. ASSUME NEW u \in Threads, alive[u], NotLost(u) PROVE NotLost(u)'
    <2>1. CASE u # w BY <1>1, <1>4, <1>10, <2>1, NotLostKept
    <2>2. CASE u = w
      <3>1. CASE ipc[w]
        <4>1. Tgt(w, CoreOf[t])' BY <1>4, <1>10, <2>2, <3>1, NoneApart DEF Tgt
        <4>2. ~Unwoken(w)' BY <1>2, <4>1 DEF Unwoken
        <4> QED BY <2>2, <4>2 DEF NotLost
      <3>2. CASE ~ipc[w] BY <1>1, <2>2, <3>2 DEF NotLost
      <3> QED BY <3>1, <3>2
    <2> QED BY <2>1, <2>2
  <1>11. NobodyLost' BY <1>1, <1>7, <1>10 DEF Settled, NobodyLost, Exclusive
  <1> QED BY <1>8, <1>9, <1>11 DEF Settled

LEMMA ReturnSettled ==
  ASSUME Base, Live, Settled, NEW t \in Threads, Return(t), UNCHANGED world
  PROVE  Settled'
PROOF
  <1>0. TypeInv /\ OpsTrue /\ TypeOK BY DEF Base, TypeInv
  <1>1. /\ Free(CoreOf[t]) /\ CoreOf[t] \in Cores /\ alive[t] /\ ~ipc[t] /\ alive' = alive
        /\ retired' = retired /\ wait' = [wait EXCEPT ![t] = User]
        /\ serving' = [s \in Threads |-> [e \in Endpoints |->
             IF s = t /\ wait[t] = [k |-> "recv", obj |-> e, timed |-> FALSE] /\ frame[t].res = "OK"
             THEN frame[t].from
             ELSE IF serving[s][e] = t /\ wait[t].k = "call" THEN "stale" ELSE serving[s][e]]]
        /\ frame' = [s \in Threads |->
             IF s = t THEN NoFrame
             ELSE IF frame[s].from = t /\ wait[t].k = "call" THEN [frame[s] EXCEPT !.from = "stale"]
             ELSE frame[s]]
    BY DEF Return
  <1>2. LiveOK(t) BY <1>1 DEF Live
  <1>3. \A e \in Endpoints : ~Clr(t, e) BY <1>0, <1>1, <1>2, ReturningClear
  <1>4. /\ \A u \in Threads : u # t => Untouched(u)
        /\ EpView(t) /\ ~ipc'[t] /\ wait'[t] = User /\ frame'[t] = NoFrame
    BY <1>0, ReturnEffect
  <1>5. \A u \in Threads : u # t => wait'[u] = wait[u] BY <1>0, <1>1 DEF TypeOK
  <1>6. ASSUME NEW s \in Threads, s # t
        PROVE  /\ frame'[s].res = frame[s].res
               /\ frame[s].from # t => frame'[s] = frame[s]
    <2>1. frame[s] \in Frame BY <1>0 DEF TypeOK
    <2> QED BY <1>1, <1>6, <2>1 DEF Frame
  <1>7. ASSUME NEW e \in Endpoints, NEW u \in Threads, NEW s \in Threads, Clr(u, e), Holding(s, e) = u
        PROVE  Holding(s, e)' = u
    <2>1. u # t BY <1>3, <1>7
    <2>2. CASE s = t
      <3>1. Holding(t, e)' = serving'[t][e]
        BY <1>4, UserFields DEF Holding, Got
      <3>2. CASE Got(t, e)
        <4>1. wait[t] = [k |-> "recv", obj |-> e, timed |-> FALSE]
          <5>1. wait[t] \in Syscall BY <1>0 DEF TypeOK
          <5>2. wait[t].k = "recv" /\ wait[t].obj = e BY <3>2 DEF Got
          <5>3. wait[t].timed = FALSE BY <1>2, <5>2 DEF LiveOK, ThreadOK
          <5> QED BY <5>1, <5>2, <5>3 DEF Syscall
        <4>2. serving'[t][e] = frame[t].from BY <1>1, <3>2, <4>1 DEF Got
        <4>3. frame[t].from = u BY <1>7, <2>2, <3>2 DEF Holding
        <4> QED BY <2>2, <3>1, <4>2, <4>3
      <3>3. CASE ~Got(t, e)
        <4>1. serving[t][e] = u BY <1>7, <2>2, <3>3 DEF Holding
        <4>2. wait[t] # [k |-> "recv", obj |-> e, timed |-> FALSE] \/ frame[t].res # "OK"
          BY <3>3 DEF Got
        <4>3. serving'[t][e] = serving[t][e] BY <1>1, <2>1, <4>1, <4>2
        <4> QED BY <2>2, <3>1, <4>1, <4>3
      <3> QED BY <3>2, <3>3
    <2>3. CASE s # t
      <3>1. Got(s, e)' <=> Got(s, e) BY <1>5, <1>6, <2>3 DEF Got
      <3>2. CASE Got(s, e)
        <4>1. frame[s].from = u BY <1>7, <3>2 DEF Holding
        <4>2. frame'[s] = frame[s] BY <1>6, <2>1, <2>3, <4>1
        <4> QED BY <3>1, <3>2, <4>1, <4>2 DEF Holding
      <3>3. CASE ~Got(s, e)
        <4>1. serving[s][e] = u BY <1>7, <3>3 DEF Holding
        <4>2. serving'[s][e] = u BY <1>1, <2>1, <2>3, <4>1
        <4> QED BY <3>1, <3>3, <4>2 DEF Holding
      <3> QED BY <3>2, <3>3
    <2> QED BY <2>2, <2>3
  <1>8. ASSUME NEW u \in Threads, Answer(u) PROVE Answer(u)'
    <2>1. CASE u = t BY <1>4, <2>1, UserFields DEF Answer
    <2>2. CASE u # t
      <3>1. wait'[u] = wait[u] /\ frame'[u].res = frame[u].res BY <1>5, <1>6, <2>2
      <3>2. CASE frame[u].from = u
        <4>1. frame'[u] = frame[u] BY <1>6, <2>2, <3>2
        <4> QED BY <3>1, <3>2, <4>1 DEF Answer
      <3>3. CASE frame[u].from # u BY <1>8, <3>1, <3>3 DEF Answer
      <3> QED BY <3>2, <3>3
    <2> QED BY <2>1, <2>2
  <1>9. ASSUME NEW u \in Threads, NotLost(u) PROVE NotLost(u)'
    <2>1. CASE u = t BY <1>4, <2>1 DEF NotLost
    <2>2. CASE u # t BY <1>1, <1>4, <1>9, <2>2, NotLostKept
    <2> QED BY <2>1, <2>2
  <1>10. \A e \in Endpoints, u \in Threads : Clr(u, e)' => Clr(u, e)
    BY <1>4 DEF Untouched, EpView
  <1> QED BY <1>1, <1>7, <1>8, <1>9, <1>10, SettledFrom

LEMMA TickSettled ==
  ASSUME Base, Live, Settled, NEW c \in Cores, NEW D \in SUBSET Armed(c), Tick(c, D), UNCHANGED world
  PROVE  Settled'
PROOF
  <1>0. TypeInv /\ OpsTrue /\ TypeOK /\ Habits BY DEF Base, TypeInv
  <1>1. /\ alive' = alive /\ wait' = wait /\ serving' = serving /\ retired' = retired
        /\ frame' = [t \in Threads |-> IF Released(t, D) THEN TimeoutFrame(t) ELSE frame[t]]
        /\ ep' = ep
    BY DEF Tick
  <1>2. \A u \in Threads : IF u \in D /\ ipc[u]
              THEN frist[u] /\ ~ipc'[u] /\ frame'[u].res = "TIMEOUT"
              ELSE alive[u] => Untouched(u)
    BY <1>0, TickEffect
  <1>3. \A u \in Threads : ~(u \in D /\ ipc[u]) => frame'[u] = frame[u] BY <1>1 DEF Released
  <1>4. ASSUME NEW e \in Endpoints, NEW s \in Threads, s \in Servers(e), OneServer(e)
        PROVE  Holding(s, e)' = Holding(s, e)
    <2>1. s \notin world.timed BY <1>4 DEF OneServer
    <2>2. ~frist[s] BY <1>0, <2>1 DEF Habits
    <2>3. frame'[s] = frame[s] BY <1>2, <1>3, <2>2
    <2> QED BY <1>1, <2>3, HoldSame
  <1>5. ASSUME NEW u \in Threads, Answer(u) PROVE Answer(u)'
    BY <1>1, <1>2, <1>3, <1>5 DEF Answer
  <1>6. ASSUME NEW u \in Threads, alive[u], NotLost(u) PROVE NotLost(u)'
    <2>1. CASE u \in D /\ ipc[u] BY <1>2, <2>1 DEF NotLost
    <2>2. CASE ~(u \in D /\ ipc[u]) BY <1>1, <1>2, <1>6, <2>2, NotLostKept
    <2> QED BY <2>1, <2>2
  <1>7. \A e \in Endpoints, u \in Threads : Clr(u, e)' => Clr(u, e) BY <1>1 DEF Clr
  <1> QED BY <1>1, <1>4, <1>5, <1>6, <1>7, SettledFrom

LEMMA DieSettled ==
  ASSUME Base, Live, Settled, NEW c \in Cores, NEW t \in Threads, Die(c, t), UNCHANGED world
  PROVE  Settled'
PROOF
  <1>0. TypeInv /\ OpsTrue /\ TypeOK BY DEF Base, TypeInv
  <1>1. /\ ep' = ep /\ ~alive'[t] /\ \A u \in Threads : u # t /\ alive[u] => Untouched(u)
    BY <1>0, DieEffect
  <1>2. \A u \in Threads : u # t =>
          /\ alive'[u] = alive[u] /\ wait'[u] = wait[u] /\ frame'[u] = frame[u]
          /\ serving'[u] = serving[u] /\ (u \in retired => u \in retired')
    BY <1>0 DEF Die, TypeOK
  <1>3. \A u \in Threads : alive'[u] => alive[u] /\ u # t BY <1>1, <1>2
  <1>4. \A e \in Endpoints, s \in Threads : alive'[s] => Holding(s, e)' = Holding(s, e)
    BY <1>2, <1>3, HoldSame
  <1>5. \A u \in Threads : alive'[u] /\ Answer(u) => Answer(u)' BY <1>2, <1>3 DEF Answer
  <1>6. \A u \in Threads : alive'[u] /\ NotLost(u) => NotLost(u)'
    BY <1>1, <1>2, <1>3, NotLostKept
  <1>7. \A e \in Endpoints, u \in Threads : Clr(u, e)' => Clr(u, e) BY <1>1 DEF Clr
  <1> QED BY <1>3, <1>4, <1>5, <1>6, <1>7, SettledFrom

LEMMA OrphanSettled ==
  ASSUME Base, Live, Settled, NEW c \in Cores, NEW t \in Threads, Orphan(c, t), UNCHANGED world
  PROVE  Settled'
PROOF
  <1>0. TypeInv /\ OpsTrue /\ TypeOK BY DEF Base, TypeInv
  <1>1. /\ alive' = alive /\ wait' = wait /\ serving' = serving /\ retired' = retired
        /\ ~alive[t] => frame' = frame
        /\ alive[t] => frame' = [frame EXCEPT ![t] = [res |-> "GONE", from |-> None, bits |-> {}]]
    BY DEF Orphan
  <1>2. /\ ep' = ep /\ Orp(t, c) /\ ~ipc'[t]
        /\ \A u \in Threads : alive[u] /\ u # t => Untouched(u)
        /\ alive[t] => frame'[t] = [res |-> "GONE", from |-> None, bits |-> {}]
    BY <1>0, OrphanEffect
  <1>3. \A e \in Endpoints, u \in Threads : alive[u] /\ Clr(u, e)' => Clr(u, e) BY <1>2 DEF Clr
  <1>4. \A u \in Threads : alive[u] /\ u # t /\ NotLost(u) => NotLost(u)' BY <1>1, <1>2, NotLostKept
  <1>5. NotLost(t)' BY <1>2 DEF NotLost
  <1>6. CASE ~alive[t] BY <1>1, <1>3, <1>4, <1>5, <1>6, SettledCalm
  <1>7. CASE alive[t]
    <2>1. wait[t].k = "call" BY <1>2, <1>7 DEF Live, LiveOK, OrpOK
    <2>2. \A u \in Threads : u # t => frame'[u] = frame[u] BY <1>0, <1>1, <1>7 DEF TypeOK
    <2>3. Answer(t)' BY <1>2, <1>7 DEF Answer
    <2>4. wait[t].k # "recv" /\ wait'[t].k # "recv" BY <1>1, <2>1
    <2> QED BY <1>1, <1>3, <1>4, <1>5, <2>2, <2>3, <2>4, SettledOne
  <1> QED BY <1>6, <1>7

LEMMA WakeSettled ==
  ASSUME Base, Live, Settled, NEW c \in Cores, Wake(c), UNCHANGED world
  PROVE  Settled'
PROOF
  <1>0. TypeInv /\ OpsTrue /\ TypeOK BY DEF Base, TypeInv
  <1>1. /\ op[c].k = "wake" /\ ep' = ep /\ alive' = alive /\ frame' = frame /\ retired' = retired
        /\ wait' = wait /\ serving' = serving
        /\ \A u \in Threads : ipc'[u] = ((u = op[c].self) \/ (ipc[u] /\ u # op[c].to))
    BY DEF Wake
  <1>2. /\ \A u \in Threads : EpView(u)
        /\ \A u \in Threads : alive[u] /\ u # op[c].to /\ u # op[c].self => Untouched(u)
    BY <1>0, WakeEffect
  <1>3. ASSUME NEW u \in Threads, alive[u], NotLost(u) PROVE NotLost(u)'
    <2>1. CASE u = op[c].self
      <3>1. Self(u) /\ LiveOK(u) BY <1>0, <1>3, <2>1, NoneApart DEF OpsTrue, OpOK, Self, Live
      <3>2. \E e \in Endpoints : Clr(u, e) BY <3>1 DEF LiveOK, SelfOK
      <3> QED BY <1>2, <3>2 DEF NotLost, EpView
    <2>2. CASE u # op[c].self /\ u = op[c].to BY <1>1, <2>2 DEF NotLost
    <2>3. CASE u # op[c].self /\ u # op[c].to BY <1>1, <1>2, <1>3, <2>3, NotLostKept
    <2> QED BY <2>1, <2>2, <2>3
  <1>4. \A e \in Endpoints, u \in Threads : Clr(u, e)' => Clr(u, e) BY <1>1 DEF Clr
  <1> QED BY <1>1, <1>3, <1>4, SettledCalm

\* The steps without a part in any thread's wait.
LEMMA QuietSettled ==
  ASSUME Base, Live, Settled, UNCHANGED world,
         \/ \E t \in Threads, e \in Endpoints :
              RecvRefused(t, e) \/ \E tm \in BOOLEAN : CallRefused(t, e, tm)
         \/ \E c \in Cores : SwitchToDead(c) \/ SweepBegin(c) \/ SweepEnd(c)
         \/ \E c \in Cores, e \in Endpoints, q \in BOOLEAN : SetQuiescing(c, e, q)
  PROVE  Settled'
PROOF
  <1>0. TypeInv /\ OpsTrue /\ TypeOK BY DEF Base, TypeInv
  <1>1. /\ alive' = alive /\ wait' = wait /\ serving' = serving /\ frame' = frame /\ retired' = retired
    BY DEF RecvRefused, CallRefused, SwitchToDead, SweepBegin, SweepEnd, SetQuiescing, threadVars
  <1>2. \A u \in Threads : alive[u] => Untouched(u)
    BY <1>0, RecvRefusedEffect, CallRefusedEffect, SwitchToDeadEffect, SweepBeginEffect,
       SweepEndEffect, SetQuiescingEffect
  <1> QED BY <1>1, <1>2, SameRetired, SettledCalm

LEMMA PurgeSettled ==
  ASSUME Base, Live, Settled, NEW c \in Cores, NEW t \in Threads, NEW o \in Objs, Purge(c, t, o),
         UNCHANGED world
  PROVE  Settled'
PROOF
  <1>0. TypeInv /\ OpsTrue /\ TypeOK BY DEF Base, TypeInv
  <1>1. /\ alive' = alive /\ wait' = wait /\ serving' = serving /\ frame' = frame /\ ipc' = ipc
        /\ retired' = retired
    BY DEF Purge, threadVars
  <1>2. /\ OffAt(t, o, c) /\ \A u \in Threads : alive[u] /\ u # t => Untouched(u)
        /\ \A x \in Endpoints : Clr(t, x)' <=> Clr(t, x) /\ x # o
    BY <1>0, PurgeEffect
  <1>3. ASSUME NEW u \in Threads, alive[u], NotLost(u) PROVE NotLost(u)'
    <2>1. CASE u = t
      <3>1. ~ipc[t] BY <1>2, <1>3, <2>1 DEF Live, LiveOK, OffOK
      <3> QED BY <1>1, <2>1, <3>1 DEF NotLost
    <2>2. CASE u # t BY <1>1, <1>2, <1>3, <2>2, NotLostKept
    <2> QED BY <2>1, <2>2
  <1>4. \A e \in Endpoints, u \in Threads : alive[u] /\ Clr(u, e)' => Clr(u, e)
    BY <1>2 DEF Untouched, EpView
  <1> QED BY <1>1, <1>3, <1>4, SettledCalm

LEMMA OrphanedSettled ==
  ASSUME NEW w \in Threads, NEW e \in Endpoints, NEW c \in Cores, Orphaned(w, e, c)
  PROVE  NotLost(w)' /\ \A x \in Endpoints : Clr(w, x)' => Clr(w, x)
PROOF
  <1>1. Orp(w, c)' BY DEF Orphaned
  <1>2. ~Unwoken(w)' BY <1>1 DEF Unwoken
  <1> QED BY <1>2 DEF NotLost, Orphaned, EpLess

LEMMA TokenGivenUpSettled ==
  ASSUME Base, Live, Settled, NEW c \in Cores, NEW e \in Endpoints, UNCHANGED world,
         SweepEp(c, e) \/ AbortCall(c, e)
  PROVE  Settled'
PROOF
  <1>0. TypeInv /\ OpsTrue /\ TypeOK BY DEF Base, TypeInv
  <1>1. /\ alive' = alive /\ wait' = wait /\ serving' = serving /\ frame' = frame /\ retired' = retired
    BY DEF SweepEp, AbortCall, threadVars
  <1>2. \A u \in Threads : alive[u] => Orphaned(u, e, c) \/ Untouched(u)
    BY <1>0, SweepEpEffect, AbortCallEffect
  <1>3. \A u \in Threads : alive[u] /\ NotLost(u) => NotLost(u)'
    BY <1>1, <1>2, OrphanedSettled, NotLostKept
  <1>4. \A x \in Endpoints, u \in Threads : alive[u] /\ Clr(u, x)' => Clr(u, x)
    BY <1>2, OrphanedSettled DEF Untouched, EpView
  <1> QED BY <1>1, <1>3, <1>4, SettledCalm

LEMMA RetireSettled ==
  ASSUME Base, Live, Settled, NEW c \in Cores, NEW e \in Endpoints, NEW t \in Threads,
         RetireReceiver(c, e, t) \/ \E new \in Threads : RebindServer(c, e, t, new),
         UNCHANGED world
  PROVE  Settled'
PROOF
  <1>0. TypeInv /\ OpsTrue /\ TypeOK BY DEF Base, TypeInv
  <1>1. /\ alive' = alive /\ wait' = wait /\ serving' = serving /\ frame' = frame
    BY DEF RetireReceiver, RebindServer, threadVars
  <1>2. /\ retired' = retired \cup {t}
        /\ \A u \in Threads : alive[u] => EpLess(u, e) /\ (u # t => Untouched(u))
    BY <1>0, RetireEffect
  <1>3. NotLost(t)' BY <1>2 DEF NotLost
  <1>4. \A u \in Threads : alive[u] /\ NotLost(u) => NotLost(u)' BY <1>2, <1>3, NotLostKept
  <1>5. \A x \in Endpoints, u \in Threads : alive[u] /\ Clr(u, x)' => Clr(u, x)
    BY <1>2 DEF EpLess
  <1> QED BY <1>1, <1>4, <1>5, SettledCalm

LEMMA MigrateOwnerSettled ==
  ASSUME Base, Live, Settled, NEW c \in Cores, NEW e \in Endpoints, NEW s \in Threads,
         MigrateOwner(c, e, s), UNCHANGED world
  PROVE  Settled'
PROOF
  <1>w. PICK w : w = ep[e].caller OBVIOUS
  <1>0. TypeInv /\ OpsTrue /\ TypeOK BY DEF Base, TypeInv
  <1>1. /\ alive' = alive /\ wait' = wait /\ serving' = serving /\ frame' = frame /\ retired' = retired
    BY DEF MigrateOwner, threadVars
  <1>2. /\ OnlyEp(e) /\ w \in Threads /\ ep'[e].caller = None
        /\ ToSet(ep'[e].senders) = ToSet(ep[e].senders) \cup {w}
        /\ \A u \in Threads : alive[u] /\ u # w => Untouched(u)
    BY <1>0, <1>w, MigrateOwnerEffect
  <1>3. Snd(w, e)' BY <1>2 DEF Snd
  <1>4. NotLost(w)' BY <1>3 DEF NotLost
  <1>5. \A u \in Threads : alive[u] /\ NotLost(u) => NotLost(u)' BY <1>1, <1>2, <1>4, NotLostKept
  <1>6. \A x \in Endpoints, u \in Threads : Clr(u, x)' => Clr(u, x)
    BY <1>2, NoneApart DEF OnlyEp, Clr
  <1> QED BY <1>1, <1>5, <1>6, SettledCalm

LEMMA SettledInit == ASSUME Init PROVE Settled
PROOF
  <1>1. \A e \in Endpoints : ep[e].caller = None BY DEF Init
  <1>2. \A t \in Threads : ~ipc[t] /\ wait[t].k = "user" BY UserFields DEF Init
  <1>3. Serves BY <1>1, NoneApart DEF Serves, Clr
  <1>4. Answers /\ NobodyLost BY <1>2 DEF Answers, Answer, NobodyLost, NotLost
  <1> QED BY <1>3, <1>4 DEF Settled

LEMMA SettledStutters == ASSUME Settled, UNCHANGED vars PROVE Settled'
PROOF
  <1>1. /\ ep' = ep /\ nt' = nt /\ alive' = alive /\ ipc' = ipc /\ frame' = frame /\ wait' = wait
        /\ serving' = serving /\ op' = op /\ world' = world /\ retired' = retired
    BY DEF vars, moving
  <1>2. \A u \in Threads : Untouched(u)
    BY <1>1, EpViewSame, NtViewSame, OpViewSame, ThreadViewSame DEF Untouched
  <1> QED BY <1>1, <1>2, SameRetired, SettledCalm

LEMMA SettledStep == ASSUME Base, Live, Settled, [Next]_vars PROVE Settled'
PROOF
  <1>1. CASE UNCHANGED vars BY <1>1, SettledStutters
  <1>2. CASE Next
    BY <1>2, Steps, QuietSettled, CallQueuedSettled, CallRendezvousSettled,
       RecvQueuedSettled, RecvRendezvousSettled, ReplySettled, WaitSettled, ReturnSettled,
       WakeSettled, SignalSettled, TickSettled, OrphanSettled, DieSettled, PurgeSettled,
       TokenGivenUpSettled, RetireSettled, MigrateOwnerSettled
  <1> QED BY <1>1, <1>2

-----------------------------------------------------------------------------
(* Signals                                                                 *)

Carried(b) ==
  \/ \E n \in Notifications : b \in nt[n].pending
  \/ \E t \in Threads : alive[t] /\ frame[t].res = "OK" /\ b \in frame[t].bits
OwedCarried == world.timed = {} => \A b \in owed : Carried(b)

\* The steps that touch neither a notification word nor a frame.
LEMMA CarriedCalm ==
  ASSUME OwedCarried, UNCHANGED world, alive' = alive, frame' = frame, owed' = owed,
         \A n \in Notifications : nt'[n].pending = nt[n].pending
  PROVE  OwedCarried'
PROOF
  <1>1. \A b : Carried(b) => Carried(b)' BY DEF Carried
  <1> QED BY <1>1 DEF OwedCarried

\* A frame is written over only where nothing was.
LEMMA CarriedOver ==
  ASSUME OwedCarried, UNCHANGED world, alive' = alive, owed' = owed, nt' = nt,
         NEW w \in Threads, world.timed = {} => frame[w] = NoFrame,
         \A u \in Threads : u # w => frame'[u] = frame[u]
  PROVE  OwedCarried'
PROOF
  <1>1. ASSUME world.timed = {}, NEW b, Carried(b) PROVE Carried(b)'
    <2>1. CASE \E n \in Notifications : b \in nt[n].pending BY <2>1 DEF Carried
    <2>2. CASE \E t \in Threads : alive[t] /\ frame[t].res = "OK" /\ b \in frame[t].bits
      <3>1. PICK t \in Threads : alive[t] /\ frame[t].res = "OK" /\ b \in frame[t].bits BY <2>2
      <3>2. t # w BY <1>1, <3>1, NoFrameFields
      <3> QED BY <3>1, <3>2 DEF Carried
    <2> QED BY <1>1, <2>1, <2>2 DEF Carried
  <1> QED BY <1>1 DEF OwedCarried

\* Where nobody uses deadlines, a thread entered or orphaned has an untouched frame.
LEMMA StillBlank ==
  ASSUME NEW t \in Threads, LiveOK(t), world.timed = {}, NEW o \in Objs, Still(t, o)
  PROVE  frame[t] = NoFrame
PROOF
  <1>1. ~Off(t, o) BY DEF LiveOK, OffOK, Off
  <1> QED BY <1>1 DEF Still

LEMMA CallRendezvousCarried ==
  ASSUME Base, world.timed = {} => Live, OwedCarried, NEW t \in Threads, NEW e \in Endpoints,
         NEW tm \in BOOLEAN, CallRendezvous(t, e, tm), UNCHANGED world
  PROVE  OwedCarried'
PROOF
  <1>0. TypeInv /\ OpsTrue /\ TypeOK /\ e \in Objs BY DEF Base, TypeInv, Objs
  <1>1. alive' = alive /\ owed' = owed /\ nt' = nt BY DEF CallRendezvous
  <1>2. PICK s \in Threads :
              /\ Rcv(s, e) /\ alive[s]
              /\ ep'[e].senders = ep[e].senders /\ ep'[e].caller = t
              /\ frame' = [frame EXCEPT ![s] = [res |-> "OK", from |-> t, bits |-> {}]]
              /\ op'[CoreOf[t]].k = "wake" /\ op'[CoreOf[t]].to = s
    BY <1>0, CallRendezvousEffect, SMTT(30)
  <1>3. \A u \in Threads : u # s => frame'[u] = frame[u] BY <1>0, <1>2 DEF TypeOK
  <1>4. ASSUME world.timed = {} PROVE frame[s] = NoFrame
    <2>1. LiveOK(s) BY <1>2, <1>4 DEF Live
    <2>2. Still(s, e) BY <1>2, <2>1, RcvFacts
    <2> QED BY <1>0, <1>4, <2>1, <2>2, StillBlank
  <1> QED BY <1>1, <1>3, <1>4, CarriedOver

LEMMA ReplyCarried ==
  ASSUME Base, world.timed = {} => Live, OwedCarried, NEW t \in Threads, NEW e \in Endpoints,
         Reply(t, e), UNCHANGED world
  PROVE  OwedCarried'
PROOF
  <1>w. PICK w : w = ep[e].caller OBVIOUS
  <1>0. TypeInv /\ OpsTrue /\ TypeOK /\ e \in Objs BY DEF Base, TypeInv, Objs
  <1>1. alive' = alive /\ owed' = owed /\ nt' = nt BY DEF Reply
  <1>2. \/ /\ w \in Threads /\ alive[w] /\ ipc[w]
           /\ frame' = [frame EXCEPT ![w] = [res |-> "OK", from |-> serving[t][e], bits |-> {}]]
        \/ frame' = frame
    BY <1>w, <1>0, ReplyEffect
  <1>3. CASE frame' = frame BY <1>1, <1>3, CarriedCalm
  <1>4. CASE /\ w \in Threads /\ alive[w] /\ ipc[w]
             /\ frame' = [frame EXCEPT ![w] = [res |-> "OK", from |-> serving[t][e], bits |-> {}]]
    <2>1. \A u \in Threads : u # w => frame'[u] = frame[u] BY <1>0, <1>4 DEF TypeOK
    <2>2. ASSUME world.timed = {} PROVE frame[w] = NoFrame
      <3>1. LiveOK(w) /\ Clr(w, e) BY <1>w, <1>4, <2>2 DEF Live, Clr
      <3>2. ~Self(w) BY <1>4, <3>1 DEF LiveOK, SelfOK
      <3>3. Still(w, e) BY <1>4, <3>1, <3>2, ClrFacts
      <3> QED BY <1>0, <1>4, <2>2, <3>1, <3>3, StillBlank
    <2> QED BY <1>1, <1>4, <2>1, <2>2, CarriedOver
  <1> QED BY <1>2, <1>3, <1>4

LEMMA SignalCarried ==
  ASSUME Base, world.timed = {} => Live, OwedCarried, NEW c \in Cores, NEW n \in Notifications,
         NEW b \in world.badges, Signal(c, n, b), UNCHANGED world
  PROVE  OwedCarried'
PROOF
  <1>w. PICK w : w = nt[n].waiter OBVIOUS
  <1>p. PICK all : all = nt[n].pending \cup {b} OBVIOUS
  <1>0. TypeInv /\ OpsTrue /\ TypeOK /\ n \in Objs BY DEF Base, TypeInv, Objs
  <1>1. /\ alive' = alive /\ owed' = owed \cup {b}
        /\ nt' = [nt EXCEPT ![n] = [pending |-> PendingLeft(w, all), waiter |-> None]]
        /\ w # None /\ alive[w] =>
             frame' = [frame EXCEPT ![w] = [res |-> "OK", from |-> None, bits |-> all]]
        /\ ~(w # None /\ alive[w]) => frame' = frame
    BY <1>w, <1>p DEF Signal
  <1>2. /\ \A m \in Notifications : m # n => nt'[m] = nt[m]
        /\ nt'[n].pending = PendingLeft(w, all) /\ w \in Threads \cup {None}
    BY <1>0, <1>1, <1>w, NtFields DEF TypeOK
  <1>3. SUFFICES ASSUME world.timed = {}, NEW x \in owed \cup {b} PROVE Carried(x)'
    BY <1>1 DEF OwedCarried
  <1>4. CASE ~(w # None /\ alive[w])
    <2>1. nt'[n].pending = all BY <1>2, <1>4 DEF PendingLeft
    <2>2. CASE x \in all BY <2>1, <2>2 DEF Carried
    <2>3. CASE x \notin all
      <3>1. Carried(x) BY <1>3, <1>p, <2>3 DEF OwedCarried
      <3>2. CASE \E t \in Threads : alive[t] /\ frame[t].res = "OK" /\ x \in frame[t].bits
        BY <1>1, <1>4, <3>2 DEF Carried
      <3>3. CASE \E m \in Notifications : x \in nt[m].pending
        <4>1. PICK m \in Notifications : x \in nt[m].pending BY <3>3
        <4>2. m # n BY <1>p, <2>3, <4>1
        <4> QED BY <1>2, <4>1, <4>2 DEF Carried
      <3> QED BY <3>1, <3>2, <3>3 DEF Carried
    <2> QED BY <2>2, <2>3
  <1>5. CASE w # None /\ alive[w]
    <2>0. w \in Threads /\ LiveOK(w) /\ Wtr(w, n) BY <1>w, <1>2, <1>3, <1>5 DEF Live, Wtr
    <2>1. frame[w] = NoFrame
      <3>1. Still(w, n) BY <2>0, WtrFacts
      <3> QED BY <1>0, <1>3, <2>0, <3>1, StillBlank
    <2>2. frame'[w].res = "OK" /\ frame'[w].bits = all /\ alive'[w]
      BY <1>0, <1>1, <1>5, <2>0 DEF TypeOK
    <2>3. \A u \in Threads : u # w => frame'[u] = frame[u] BY <1>0, <1>1, <1>5 DEF TypeOK
    <2>4. CASE x \in all BY <2>0, <2>2, <2>4 DEF Carried
    <2>5. CASE x \notin all
      <3>1. Carried(x) BY <1>3, <1>p, <2>5 DEF OwedCarried
      <3>2. CASE \E t \in Threads : alive[t] /\ frame[t].res = "OK" /\ x \in frame[t].bits
        <4>1. PICK t \in Threads : alive[t] /\ frame[t].res = "OK" /\ x \in frame[t].bits BY <3>2
        <4>2. t # w BY <2>1, <4>1, NoFrameFields
        <4> QED BY <1>1, <2>3, <4>1, <4>2 DEF Carried
      <3>3. CASE \E m \in Notifications : x \in nt[m].pending
        <4>1. PICK m \in Notifications : x \in nt[m].pending BY <3>3
        <4>2. m # n BY <1>p, <2>5, <4>1
        <4> QED BY <1>2, <4>1, <4>2 DEF Carried
      <3> QED BY <3>1, <3>2, <3>3 DEF Carried
    <2> QED BY <2>4, <2>5
  <1> QED BY <1>4, <1>5

LEMMA WaitCarried ==
  ASSUME Base, OwedCarried, NEW t \in Threads, NEW n \in Notifications, NEW tm \in BOOLEAN,
         WaitReturns(t, n, tm) \/ WaitBlocks(t, n, tm), UNCHANGED world
  PROVE  OwedCarried'
PROOF
  <1>0. TypeOK BY DEF Base, TypeInv
  <1>1. CASE WaitReturns(t, n, tm)
    <2>1. /\ alive' = alive /\ frame' = frame /\ owed' = owed \ nt[n].pending
          /\ nt' = [nt EXCEPT ![n].pending = {}]
      BY <1>1 DEF WaitReturns
    <2>2. \A m \in Notifications : m # n => nt'[m] = nt[m] BY <1>0, <2>1 DEF TypeOK
    <2>3. \A b : b \notin nt[n].pending /\ Carried(b) => Carried(b)' BY <2>1, <2>2 DEF Carried
    <2> QED BY <2>1, <2>3 DEF OwedCarried
  <1>2. CASE WaitBlocks(t, n, tm)
    <2>1. /\ alive' = alive /\ frame' = frame /\ owed' = owed /\ nt' = [nt EXCEPT ![n].waiter = t]
      BY <1>2 DEF WaitBlocks
    <2>2. \A m \in Notifications : nt'[m].pending = nt[m].pending
      BY <1>0, <2>1 DEF TypeOK, Notification
    <2> QED BY <2>1, <2>2, CarriedCalm
  <1> QED BY <1>1, <1>2

LEMMA ReturnCarried ==
  ASSUME Base, OwedCarried, NEW t \in Threads, Return(t), UNCHANGED world
  PROVE  OwedCarried'
PROOF
  <1>0. TypeInv /\ OpsTrue /\ TypeOK BY DEF Base, TypeInv
  <1>1. /\ alive' = alive /\ nt' = nt
        /\ owed' = IF frame[t].res = "OK" THEN owed \ frame[t].bits ELSE owed
    BY DEF Return
  <1>2. \A u \in Threads : u # t => frame'[u].res = frame[u].res /\ frame'[u].bits = frame[u].bits
    BY <1>0, ReturnEffect DEF Untouched, ThreadView
  <1>3. ASSUME NEW b \in owed', Carried(b) PROVE Carried(b)'
    <2>1. CASE \E n \in Notifications : b \in nt[n].pending BY <1>1, <2>1 DEF Carried
    <2>2. CASE \E u \in Threads : alive[u] /\ frame[u].res = "OK" /\ b \in frame[u].bits
      <3>1. PICK u \in Threads : alive[u] /\ frame[u].res = "OK" /\ b \in frame[u].bits BY <2>2
      <3>2. u # t BY <1>1, <3>1
      <3> QED BY <1>1, <1>2, <3>1, <3>2 DEF Carried
    <2> QED BY <1>3, <2>1, <2>2 DEF Carried
  <1>4. owed' \subseteq owed BY <1>1
  <1> QED BY <1>3, <1>4 DEF OwedCarried

LEMMA DieCarried ==
  ASSUME Base, OwedCarried, NEW c \in Cores, NEW t \in Threads, Die(c, t), UNCHANGED world
  PROVE  OwedCarried'
PROOF
  <1>0. TypeOK BY DEF Base, TypeInv
  <1>1. nt' = nt /\ owed' = owed \ frame[t].bits BY DEF Die
  <1>2. \A u \in Threads : u # t => frame'[u] = frame[u] /\ alive'[u] = alive[u]
    BY <1>0 DEF Die, TypeOK
  <1>3. ASSUME NEW b \in owed', Carried(b) PROVE Carried(b)'
    <2>1. CASE \E n \in Notifications : b \in nt[n].pending BY <1>1, <2>1 DEF Carried
    <2>2. CASE \E u \in Threads : alive[u] /\ frame[u].res = "OK" /\ b \in frame[u].bits
      <3>1. PICK u \in Threads : alive[u] /\ frame[u].res = "OK" /\ b \in frame[u].bits BY <2>2
      <3>2. u # t BY <1>1, <3>1
      <3> QED BY <1>2, <3>1, <3>2 DEF Carried
    <2> QED BY <1>3, <2>1, <2>2 DEF Carried
  <1> QED BY <1>1, <1>3 DEF OwedCarried

LEMMA TickCarried ==
  ASSUME Base, OwedCarried, NEW c \in Cores, NEW D \in SUBSET Armed(c), Tick(c, D), UNCHANGED world
  PROVE  OwedCarried'
PROOF
  <1>1. Habits /\ D # {} BY DEF Base, Tick
  <1>2. PICK t \in D : TRUE BY <1>1
  <1>3. t \in world.timed BY <1>1, <1>2 DEF Armed, Habits
  <1> QED BY <1>3 DEF OwedCarried

LEMMA OrphanCarried ==
  ASSUME Base, world.timed = {} => Live, OwedCarried, NEW c \in Cores, NEW t \in Threads,
         Orphan(c, t), UNCHANGED world
  PROVE  OwedCarried'
PROOF
  <1>0. TypeInv /\ OpsTrue /\ TypeOK BY DEF Base, TypeInv
  <1>1. /\ alive' = alive /\ owed' = owed /\ nt' = nt /\ Orp(t, c)
        /\ ~alive[t] => frame' = frame
        /\ alive[t] => frame' = [frame EXCEPT ![t] = [res |-> "GONE", from |-> None, bits |-> {}]]
    BY DEF Orphan, Orp
  <1>2. CASE ~alive[t] BY <1>1, <1>2, CarriedCalm
  <1>3. CASE alive[t]
    <2>1. \A u \in Threads : u # t => frame'[u] = frame[u] BY <1>0, <1>1, <1>3 DEF TypeOK
    <2>2. world.timed = {} => frame[t] = NoFrame BY <1>1, <1>3 DEF Live, LiveOK, OrpOK
    <2> QED BY <1>1, <2>1, <2>2, CarriedOver
  <1> QED BY <1>2, <1>3

LEMMA PurgeCarried ==
  ASSUME Base, OwedCarried, NEW c \in Cores, NEW t \in Threads, NEW o \in Objs, Purge(c, t, o),
         UNCHANGED world
  PROVE  OwedCarried'
PROOF
  <1>0. TypeOK BY DEF Base, TypeInv
  <1>1. /\ alive' = alive /\ frame' = frame /\ owed' = owed
        /\ nt' = nt \/ (o \in Notifications /\ nt' = [nt EXCEPT ![o].waiter = None])
    BY DEF Purge, threadVars
  <1>2. \A m \in Notifications : nt'[m].pending = nt[m].pending
    <2>1. CASE nt' = nt BY <2>1
    <2>2. CASE o \in Notifications /\ nt' = [nt EXCEPT ![o].waiter = None]
      <3>1. nt'[o].pending = nt[o].pending BY <1>0, <2>2 DEF TypeOK, Notification
      <3>2. \A m \in Notifications : m # o => nt'[m] = nt[m] BY <1>0, <2>2 DEF TypeOK
      <3> QED BY <3>1, <3>2
    <2> QED BY <1>1, <2>1, <2>2
  <1> QED BY <1>1, <1>2, CarriedCalm

\* The other steps.
LEMMA QuietCarried ==
  ASSUME OwedCarried, UNCHANGED world,
         \/ \E t \in Threads, e \in Endpoints, tm \in BOOLEAN :
              CallRefused(t, e, tm) \/ CallQueued(t, e, tm)
         \/ \E t \in Threads, e \in Endpoints :
              RecvRefused(t, e) \/ RecvQueued(t, e) \/ RecvRendezvous(t, e)
         \/ \E c \in Cores : Wake(c) \/ SwitchToDead(c) \/ SweepBegin(c) \/ SweepEnd(c)
         \/ \E c \in Cores, e \in Endpoints :
              \/ SweepEp(c, e) \/ AbortCall(c, e) \/ \E q \in BOOLEAN : SetQuiescing(c, e, q)
              \/ \E t \in Threads : \/ RetireReceiver(c, e, t) \/ MigrateOwner(c, e, t)
                                    \/ \E new \in Threads : RebindServer(c, e, t, new)
  PROVE  OwedCarried'
PROOF
  <1> DEFINE Quiet == alive' = alive /\ frame' = frame /\ owed' = owed /\ nt' = nt
  <1>1. CASE \E t \in Threads, e \in Endpoints, tm \in BOOLEAN :
               CallRefused(t, e, tm) \/ CallQueued(t, e, tm)
    <2>1. Quiet BY <1>1 DEF CallRefused, CallQueued
    <2> QED BY <2>1, CarriedCalm
  <1>2. CASE \E t \in Threads, e \in Endpoints :
               RecvRefused(t, e) \/ RecvQueued(t, e) \/ RecvRendezvous(t, e)
    <2>1. Quiet BY <1>2, ZenonT(40) DEF RecvRefused, RecvQueued, RecvRendezvous, threadVars
    <2> QED BY <2>1, CarriedCalm
  <1>3. CASE \E c \in Cores : Wake(c) \/ SwitchToDead(c) \/ SweepBegin(c) \/ SweepEnd(c)
    <2>1. Quiet BY <1>3 DEF Wake, SwitchToDead, SweepBegin, SweepEnd, threadVars
    <2> QED BY <2>1, CarriedCalm
  <1>4. CASE \E c \in Cores, e \in Endpoints :
               \/ SweepEp(c, e) \/ AbortCall(c, e) \/ \E q \in BOOLEAN : SetQuiescing(c, e, q)
               \/ \E t \in Threads : \/ RetireReceiver(c, e, t) \/ MigrateOwner(c, e, t)
                                     \/ \E new \in Threads : RebindServer(c, e, t, new)
    <2>1. PICK c \in Cores, e \in Endpoints :
               \/ SweepEp(c, e) \/ AbortCall(c, e) \/ \E q \in BOOLEAN : SetQuiescing(c, e, q)
               \/ \E t \in Threads : \/ RetireReceiver(c, e, t) \/ MigrateOwner(c, e, t)
                                     \/ \E new \in Threads : RebindServer(c, e, t, new)
      BY <1>4
    <2>2. ASSUME SweepEp(c, e) PROVE Quiet BY <2>2 DEF SweepEp, threadVars
    <2>3. ASSUME AbortCall(c, e) PROVE Quiet BY <2>3 DEF AbortCall, threadVars
    <2>4. ASSUME NEW q \in BOOLEAN, SetQuiescing(c, e, q) PROVE Quiet BY <2>4 DEF SetQuiescing, threadVars
    <2>5. ASSUME NEW t \in Threads,
                 \/ RetireReceiver(c, e, t) \/ MigrateOwner(c, e, t)
                 \/ \E new \in Threads : RebindServer(c, e, t, new)
          PROVE  Quiet
      BY <2>5 DEF RetireReceiver, MigrateOwner, RebindServer, threadVars
    <2>6. Quiet BY <2>1, <2>2, <2>3, <2>4, <2>5
    <2> QED BY <2>6, CarriedCalm
  <1> QED BY <1>1, <1>2, <1>3, <1>4

LEMMA CarriedStep ==
  ASSUME Base, world.timed = {} => Live, OwedCarried, [Next]_vars
  PROVE  OwedCarried'
PROOF
  <1>1. CASE UNCHANGED vars BY <1>1, CarriedCalm DEF vars, moving
  <1>2. CASE Next
    BY <1>2, Steps, QuietCarried, CallRendezvousCarried, ReplyCarried, WaitCarried, ReturnCarried,
       SignalCarried, TickCarried, OrphanCarried, DieCarried, PurgeCarried
  <1> QED BY <1>1, <1>2

-----------------------------------------------------------------------------
(* What a step does to the endpoints                                       *)

\* The queues and the token of e only lose threads.
Shrinks(e) ==
  /\ OnlyEp(e)
  /\ ToSet(ep'[e].senders) \subseteq ToSet(ep[e].senders)
  /\ ToSet(ep'[e].receivers) \subseteq ToSet(ep[e].receivers)
  /\ ep'[e].caller \in {None, ep[e].caller}

\* A CALL or RECV got past the gate: it met somebody, or cleared the other queue.
Enters(e) ==
  /\ OnlyEp(e) /\ ~ep[e].quiescing
  /\ \/ /\ ToSet(ep'[e].senders) \subseteq ToSet(ep[e].senders)
        /\ ToSet(ep'[e].receivers) \subseteq ToSet(ep[e].receivers)
     \/ ep'[e].senders = <<>> \/ ep'[e].receivers = <<>>

\* The open call is handed back to the senders.
HandsBack(e) ==
  /\ OnlyEp(e) /\ world.reloading
  /\ ToSet(ep'[e].senders) = ToSet(ep[e].senders) \cup {ep[e].caller}
  /\ ep'[e].caller = None

LEMMA DroppedLess ==
  ASSUME NEW q, NEW r, Dropped(q, r)
  PROVE  ToSet(r) \subseteq ToSet(q)
  BY EmptySet DEF Dropped

LEMMA EntryEndpoints ==
  ASSUME TypeInv, NEW t \in Threads, NEW e \in Endpoints, UNCHANGED world,
         \/ \E tm \in BOOLEAN :
              CallRefused(t, e, tm) \/ CallRendezvous(t, e, tm) \/ CallQueued(t, e, tm)
         \/ RecvRendezvous(t, e) \/ RecvQueued(t, e) \/ RecvRefused(t, e) \/ Reply(t, e)
  PROVE  Shrinks(e) \/ Enters(e)
PROOF
  <1>1. ASSUME NEW tm \in BOOLEAN, CallRefused(t, e, tm) PROVE Shrinks(e)
    BY <1>1, CallRefusedStep, DroppedLess DEF Shrinks
  <1>2. ASSUME NEW tm \in BOOLEAN, CallRendezvous(t, e, tm) PROVE Enters(e)
    <2>1. ~ep[e].quiescing BY <1>2 DEF CallRendezvous
    <2>2. /\ OnlyEp(e)
          /\ \E s \in Threads : /\ Took(ep[e].receivers, s, ep'[e].receivers)
                                /\ ep'[e].senders = ep[e].senders
      BY <1>2, CallRendezvousStep
    <2> QED BY <2>1, <2>2 DEF Enters, Took
  <1>3. ASSUME NEW tm \in BOOLEAN, CallQueued(t, e, tm) PROVE Enters(e)
    <2>1. ~ep[e].quiescing BY <1>3 DEF CallQueued
    <2> QED BY <1>3, <2>1, CallQueuedStep DEF Enters
  <1>4. CASE RecvRendezvous(t, e)
    <2>1. ~ep[e].quiescing BY <1>4 DEF RecvRendezvous
    <2>2. /\ OnlyEp(e)
          /\ \E c \in Threads : /\ Took(ep[e].senders, c, ep'[e].senders)
                                /\ ep'[e].receivers = ep[e].receivers
      BY <1>4, RecvRendezvousStep
    <2> QED BY <2>1, <2>2 DEF Enters, Took
  <1>5. CASE RecvQueued(t, e)
    <2>1. ~ep[e].quiescing BY <1>5 DEF RecvQueued
    <2> QED BY <1>5, <2>1, RecvQueuedStep DEF Enters
  <1>6. CASE RecvRefused(t, e) BY <1>6, RecvRefusedStep, DroppedLess DEF Shrinks
  <1>7. CASE Reply(t, e) BY <1>7, ReplyStep DEF Shrinks
  <1> QED BY <1>1, <1>2, <1>3, <1>4, <1>5, <1>6, <1>7

LEMMA SweepEndpoints ==
  ASSUME TypeInv, OpsTrue, NEW c \in Cores, UNCHANGED world,
         \/ \E t \in Threads, o \in Objs : Purge(c, t, o)
         \/ \E e \in Endpoints : SweepEp(c, e)
  PROVE  ep' = ep \/ \E e \in Endpoints : Shrinks(e)
PROOF
  <1>0. TypeOK BY DEF TypeInv
  <1>1. ASSUME NEW t \in Threads, NEW o \in Objs, Purge(c, t, o)
        PROVE  ep' = ep \/ \E e \in Endpoints : Shrinks(e)
    <2>1. CASE o \in Endpoints
      <3>1. OnlyEp(o) /\ ep'[o] = PurgedEp(ep[o], t) BY <1>1, <2>1, PurgeStep
      <3>2. /\ ep'[o].senders = Without(ep[o].senders, t)
            /\ ep'[o].receivers = Without(ep[o].receivers, t)
            /\ ep'[o].caller = IF ep[o].caller = t THEN None ELSE ep[o].caller
        BY <2>1, <3>1, PurgedTyped
      <3>3. ep[o].senders \in Seq(Threads) /\ ep[o].receivers \in Seq(Threads)
        BY <1>0, <2>1, EpFields
      <3>4. /\ ToSet(Without(ep[o].senders, t)) = ToSet(ep[o].senders) \ {t}
            /\ ToSet(Without(ep[o].receivers, t)) = ToSet(ep[o].receivers) \ {t}
        BY <3>3, WithoutLeaves
      <3> QED BY <2>1, <3>1, <3>2, <3>4 DEF Shrinks
    <2>2. CASE o \notin Endpoints BY <1>1, <2>2, PurgeStep
    <2> QED BY <2>1, <2>2
  <1>2. ASSUME NEW e \in Endpoints, SweepEp(c, e) PROVE Shrinks(e)
    BY <1>2, SweepEpEffect DEF Shrinks
  <1> QED BY <1>1, <1>2

LEMMA ManageEndpoints ==
  ASSUME TypeInv, OpsTrue, NEW c \in Cores, NEW e \in Endpoints, UNCHANGED world,
         \/ AbortCall(c, e) \/ \E q \in BOOLEAN : SetQuiescing(c, e, q)
         \/ \E t \in Threads : \/ RetireReceiver(c, e, t) \/ MigrateOwner(c, e, t)
                               \/ \E new \in Threads : RebindServer(c, e, t, new)
  PROVE  Shrinks(e) \/ HandsBack(e)
PROOF
  <1>0. TypeOK BY DEF TypeInv
  <1>1. CASE AbortCall(c, e) BY <1>1, AbortCallEffect DEF Shrinks
  <1>2. ASSUME NEW q \in BOOLEAN, SetQuiescing(c, e, q) PROVE Shrinks(e)
    <2>1. ep' = [ep EXCEPT ![e].quiescing = q] BY <1>2 DEF SetQuiescing
    <2>2. ep' \in [Endpoints -> Endpoint] BY <1>0, <2>1, EpWrites, EmptyTyped
    <2>3. /\ \A x \in Endpoints : x # e => ep'[x] = ep[x]
          /\ ep'[e] = [ep[e] EXCEPT !.quiescing = q]
      BY <1>0, <2>1 DEF TypeOK
    <2>4. /\ ep'[e].senders = ep[e].senders /\ ep'[e].receivers = ep[e].receivers
          /\ ep'[e].caller = ep[e].caller
      BY <1>0, <2>3, EpFields
    <2> QED BY <2>2, <2>3, <2>4 DEF Shrinks, OnlyEp
  <1>3. ASSUME NEW t \in Threads,
               RetireReceiver(c, e, t) \/ \E new \in Threads : RebindServer(c, e, t, new)
        PROVE  Shrinks(e)
    BY <1>3, RetireEffect DEF Shrinks
  <1>4. ASSUME NEW t \in Threads, MigrateOwner(c, e, t) PROVE HandsBack(e)
    <2>1. world.reloading BY <1>4 DEF MigrateOwner, Managing
    <2> QED BY <1>4, <2>1, MigrateOwnerEffect DEF HandsBack
  <1> QED BY <1>1, <1>2, <1>3, <1>4

LEMMA EndpointSteps ==
  ASSUME Base, Next
  PROVE  ep' = ep \/ \E e \in Endpoints : Shrinks(e) \/ Enters(e) \/ HandsBack(e)
PROOF
  <1>0. TypeInv /\ OpsTrue /\ UNCHANGED world BY Steps DEF Base
  <1>1. CASE \E t \in Threads, n \in Notifications, tm \in BOOLEAN :
               WaitReturns(t, n, tm) \/ WaitBlocks(t, n, tm)
    BY <1>1 DEF WaitReturns, WaitBlocks
  <1>2. CASE \E t \in Threads : Return(t) BY <1>2 DEF Return
  <1>3. CASE \E c \in Cores : Wake(c) \/ SwitchToDead(c) \/ SweepBegin(c) \/ SweepEnd(c)
    BY <1>3 DEF Wake, SwitchToDead, SweepBegin, SweepEnd
  <1>4. CASE \E c \in Cores, n \in Notifications, b \in world.badges : Signal(c, n, b)
    BY <1>4 DEF Signal
  <1>5. CASE \E c \in Cores : \/ \E D \in SUBSET Armed(c) : Tick(c, D)
                              \/ \E t \in Threads : Orphan(c, t) \/ Die(c, t)
    BY <1>5 DEF Tick, Orphan, Die
  <1> QED BY <1>0, <1>1, <1>2, <1>3, <1>4, <1>5, Steps, EntryEndpoints, SweepEndpoints,
             ManageEndpoints

\* The gate: an endpoint that is and stays quiesced opens no transaction.
LEMMA QuiesceStep ==
  ASSUME Base, [Next]_vars, NEW e \in Endpoints, ep[e].quiescing, ep'[e].quiescing
  PROVE  Open(e)' \subseteq Open(e)
PROOF
  <1>1. CASE ep'[e] = ep[e] BY <1>1 DEF Open
  <1>2. CASE Next
    <2>1. ep'[e] = ep[e] \/ Shrinks(e) \/ HandsBack(e)
      BY <1>2, EndpointSteps DEF Shrinks, Enters, HandsBack, OnlyEp
    <2>2. CASE Shrinks(e) BY <2>2 DEF Shrinks, Open
    <2>3. CASE HandsBack(e)
      <3>1. TypeOK' BY <1>2, BaseStep DEF Base, TypeInv
      <3>2. ep'[e].senders \in Seq(Threads) BY <3>1 DEF TypeOK, Endpoint
      <3>3. None \notin ToSet(ep'[e].senders) BY <3>2, SeqSet, NoneApart
      <3> QED BY <2>3, <3>3 DEF HandsBack, Open
    <2> QED BY <1>1, <2>1, <2>2, <2>3
  <1>3. CASE UNCHANGED vars BY <1>1, <1>3 DEF vars, moving
  <1> QED BY <1>2, <1>3

\* Sender and receiver do not wait side by side.
LEMMA MeetStep ==
  ASSUME Base, [Next]_vars, world.reloading \/ NoMissedRendezvous
  PROVE  (world.reloading \/ NoMissedRendezvous)'
PROOF
  <1>1. CASE UNCHANGED vars BY <1>1 DEF vars, moving, NoMissedRendezvous
  <1>2. CASE Next
    <2>1. world' = world /\ TypeOK /\ TypeOK'
      BY <1>2, BaseStep, Steps DEF Base, TypeInv
    <2>2. CASE world.reloading BY <2>1, <2>2
    <2>3. CASE ~world.reloading
      <3> SUFFICES ASSUME NEW e \in Endpoints, ep'[e].receivers # <<>>
                   PROVE  ep'[e].senders = <<>>
        BY DEF NoMissedRendezvous
      <3>1. ep[e].receivers # <<>> => ep[e].senders = <<>> BY <2>3 DEF NoMissedRendezvous
      <3>2. ep'[e] = ep[e] \/ Shrinks(e) \/ Enters(e)
        BY <1>2, <2>3, EndpointSteps DEF Shrinks, Enters, HandsBack, OnlyEp
      <3>3. /\ ep[e].senders \in Seq(Threads) /\ ep[e].receivers \in Seq(Threads) BY <2>1, EpFields
      <3>4. /\ ep'[e].senders \in Seq(Threads) /\ ep'[e].receivers \in Seq(Threads)
        BY <2>1 DEF TypeOK, Endpoint
      <3>5. CASE /\ ToSet(ep'[e].senders) \subseteq ToSet(ep[e].senders)
                 /\ ToSet(ep'[e].receivers) \subseteq ToSet(ep[e].receivers)
        <4>1. ep[e].receivers # <<>>
          <5>1. ASSUME ep[e].receivers = <<>> PROVE FALSE
            <6>1. ToSet(ep'[e].receivers) = {} BY <3>5, <5>1, EmptySet
            <6> QED BY <3>4, <6>1, EmptyOnly
          <5> QED BY <5>1
        <4>2. ToSet(ep'[e].senders) = {} BY <3>1, <3>5, <4>1, EmptySet
        <4> QED BY <3>4, <4>2, EmptyOnly
      <3> QED BY <3>1, <3>2, <3>5 DEF Shrinks, Enters
    <2> QED BY <2>2, <2>3
  <1> QED BY <1>1, <1>2

-----------------------------------------------------------------------------
(* The invariant, and what follows from it                                 *)

Inv ==
  /\ Base
  /\ OrphansWait => Live /\ Settled
  /\ OwedCarried
  /\ world.reloading \/ NoMissedRendezvous

LEMMA InvInit == ASSUME Init PROVE Inv
PROOF
  <1>1. OwedCarried BY DEF Init, OwedCarried
  <1>2. NoMissedRendezvous BY DEF Init, NoMissedRendezvous
  <1> QED BY <1>1, <1>2, BaseInit, LiveInit, SettledInit DEF Inv

LEMMA InvStep == ASSUME Inv, [Next]_vars PROVE Inv'
PROOF
  <1>1. UNCHANGED world BY Steps DEF vars
  <1>2. Base' BY BaseStep DEF Inv
  <1>3. (OrphansWait => Live /\ Settled)'
    <2>1. OrphansWait' <=> OrphansWait BY <1>1, SameWorld
    <2> QED BY <2>1, LiveStep, SettledStep DEF Inv
  <1>4. OwedCarried'
    <2>1. world.timed = {} => Live BY DEF Inv, OrphansWait
    <2> QED BY <2>1, CarriedStep DEF Inv
  <1>5. (world.reloading \/ NoMissedRendezvous)' BY MeetStep DEF Inv
  <1> QED BY <1>2, <1>3, <1>4, <1>5 DEF Inv

\* Where a thread is entered, by kind of place.
LEMMA PlaceOf ==
  ASSUME NEW t, NEW p
  PROVE  p \in Places(t) <=>
           \/ \E e \in Endpoints :
                \/ \E i \in DOMAIN ep[e].senders : ep[e].senders[i] = t /\ p = <<e, "sender", i>>
                \/ \E i \in DOMAIN ep[e].receivers : ep[e].receivers[i] = t /\ p = <<e, "receiver", i>>
                \/ ep[e].caller = t /\ p = <<e, "caller", 0>>
           \/ \E n \in Notifications : nt[n].waiter = t /\ p = <<n, "waiter", 0>>
  BY DEF Places

LEMMA PlaceEntered ==
  ASSUME TypeOK, NEW t \in Threads, NEW p \in Places(t)
  PROVE  \/ p[1] \in Endpoints /\ (Snd(t, p[1]) \/ Rcv(t, p[1]) \/ Clr(t, p[1]))
         \/ p[1] \in Notifications /\ Wtr(t, p[1])
PROOF
  <1>1. \A e : /\ \A i \in DOMAIN ep[e].senders : ep[e].senders[i] \in ToSet(ep[e].senders)
              /\ \A i \in DOMAIN ep[e].receivers : ep[e].receivers[i] \in ToSet(ep[e].receivers)
    BY DEF ToSet
  <1> QED BY <1>1, PlaceOf DEF Snd, Rcv, Clr, Wtr

\* Whoever is entered waits there, or is being taken off.
LEMMA NobodyHaunts == ASSUME Base, Live PROVE NoGhost
PROOF
  <1> SUFFICES ASSUME NEW t \in Threads, NEW p \in Places(t)
               PROVE  \/ alive[t] /\ ipc[t] /\ wait[t].obj = p[1]
                      \/ SweepPending(t, p[1])
                      \/ \E c \in Cores : op[c].self = t
    BY DEF NoGhost
  <1>0. TypeOK /\ CoreOf[t] \in Cores BY ThreadFields DEF Base, TypeInv
  <1>1. PICK o : o = p[1] OBVIOUS
  <1>2. \/ o \in Endpoints /\ (Snd(t, o) \/ Rcv(t, o) \/ Clr(t, o))
        \/ o \in Notifications /\ Wtr(t, o)
    BY <1>0, <1>1, PlaceEntered
  <1>3. CASE alive[t]
    <2>1. LiveOK(t) BY <1>3 DEF Live
    <2>2. wait[t].obj = o /\ (Still(t, o) \/ Self(t))
      BY <1>2, <2>1, SndFacts, RcvFacts, ClrFacts, WtrFacts
    <2>3. CASE ipc[t] BY <1>1, <1>3, <2>2, <2>3
    <2>4. CASE Off(t, o) BY <1>0, <1>1, <2>4 DEF Off, OffAt, SweepPending
    <2>5. CASE Self(t) BY <1>0, <2>5 DEF Self
    <2> QED BY <2>2, <2>3, <2>4, <2>5 DEF Still
  <1>4. CASE ~alive[t]
    <2>1. DeadOK(t) BY <1>4 DEF Base, DeadSwept
    <2>2. SweepPending(t, o) BY <1>2, <2>1 DEF DeadOK
    <2> QED BY <1>1, <2>2
  <1> QED BY <1>3, <1>4

\* An entered thread has one place, at the object it waits for.
LEMMA OneEntry ==
  ASSUME Base, Live, NEW t \in Threads, alive[t], NEW p \in Places(t)
  PROVE  Places(t) = {p} /\ p[1] = wait[t].obj
PROOF
  <1>0. TypeOK /\ LiveOK(t) /\ Single /\ Apart BY DEF Base, TypeInv, Live
  <1>1. \A e : /\ \A i \in DOMAIN ep[e].senders : ep[e].senders[i] \in ToSet(ep[e].senders)
              /\ \A i \in DOMAIN ep[e].receivers : ep[e].receivers[i] \in ToSet(ep[e].receivers)
    BY DEF ToSet
  <1>2. CASE \E e \in Endpoints : \E i \in DOMAIN ep[e].senders :
               ep[e].senders[i] = t /\ p = <<e, "sender", i>>
    <2>1. PICK e \in Endpoints : \E i \in DOMAIN ep[e].senders :
            ep[e].senders[i] = t /\ p = <<e, "sender", i>>
      BY <1>2
    <2>2. PICK i \in DOMAIN ep[e].senders : ep[e].senders[i] = t /\ p = <<e, "sender", i>> BY <2>1
    <2>3. Snd(t, e) BY <1>1, <2>2 DEF Snd
    <2>4. /\ wait[t].obj = e
          /\ \A x \in Endpoints : ~Rcv(t, x) /\ (Snd(t, x) \/ Clr(t, x) => x = e)
          /\ \A n \in Notifications : ~Wtr(t, n)
      BY <1>0, <2>3, SndFacts
    <2>5. \A x \in Endpoints : ~Clr(t, x) BY <1>0, <2>3, <2>4 DEF Apart, Snd, Clr
    <2>6. \A j \in DOMAIN ep[e].senders : ep[e].senders[j] = t => j = i
      BY <1>0, <2>2 DEF Single, SingleIn
    <2>7. ASSUME NEW q \in Places(t) PROVE q = p
      BY <1>1, <2>2, <2>4, <2>5, <2>6, PlaceOf DEF Snd, Rcv, Clr, Wtr
    <2> QED BY <2>2, <2>4, <2>7
  <1>3. CASE \E e \in Endpoints : \E i \in DOMAIN ep[e].receivers :
               ep[e].receivers[i] = t /\ p = <<e, "receiver", i>>
    <2>1. PICK e \in Endpoints : \E i \in DOMAIN ep[e].receivers :
            ep[e].receivers[i] = t /\ p = <<e, "receiver", i>>
      BY <1>3
    <2>2. PICK i \in DOMAIN ep[e].receivers : ep[e].receivers[i] = t /\ p = <<e, "receiver", i>>
      BY <2>1
    <2>3. Rcv(t, e) BY <1>1, <2>2 DEF Rcv
    <2>4. /\ wait[t].obj = e
          /\ \A x \in Endpoints : ~Snd(t, x) /\ ~Clr(t, x) /\ (Rcv(t, x) => x = e)
          /\ \A n \in Notifications : ~Wtr(t, n)
      BY <1>0, <2>3, RcvFacts
    <2>5. \A j \in DOMAIN ep[e].receivers : ep[e].receivers[j] = t => j = i
      BY <1>0, <2>2 DEF Single, SingleIn
    <2>6. ASSUME NEW q \in Places(t) PROVE q = p
      BY <1>1, <2>2, <2>4, <2>5, PlaceOf DEF Snd, Rcv, Clr, Wtr
    <2> QED BY <2>2, <2>4, <2>6
  <1>4. CASE \E e \in Endpoints : ep[e].caller = t /\ p = <<e, "caller", 0>>
    <2>1. PICK e \in Endpoints : ep[e].caller = t /\ p = <<e, "caller", 0>> BY <1>4
    <2>2. Clr(t, e) BY <2>1 DEF Clr
    <2>3. /\ wait[t].obj = e
          /\ \A x \in Endpoints : ~Rcv(t, x) /\ (Snd(t, x) \/ Clr(t, x) => x = e)
          /\ \A n \in Notifications : ~Wtr(t, n)
      BY <1>0, <2>2, ClrFacts
    <2>4. \A x \in Endpoints : ~Snd(t, x) BY <1>0, <2>2, <2>3 DEF Apart, Snd, Clr
    <2>5. ASSUME NEW q \in Places(t) PROVE q = p
      BY <1>1, <2>1, <2>3, <2>4, PlaceOf DEF Snd, Rcv, Clr, Wtr
    <2> QED BY <2>1, <2>3, <2>5
  <1>5. CASE \E n \in Notifications : nt[n].waiter = t /\ p = <<n, "waiter", 0>>
    <2>1. PICK n \in Notifications : nt[n].waiter = t /\ p = <<n, "waiter", 0>> BY <1>5
    <2>2. Wtr(t, n) BY <2>1 DEF Wtr
    <2>3. /\ wait[t].obj = n
          /\ \A x \in Endpoints : ~Snd(t, x) /\ ~Clr(t, x) /\ ~Rcv(t, x)
          /\ \A m \in Notifications : Wtr(t, m) => m = n
      BY <1>0, <2>2, WtrFacts
    <2>4. ASSUME NEW q \in Places(t) PROVE q = p
      BY <1>1, <2>1, <2>3, PlaceOf DEF Snd, Rcv, Clr, Wtr
    <2> QED BY <2>1, <2>3, <2>4
  <1> QED BY <1>2, <1>3, <1>4, <1>5, PlaceOf

\* A blocked thread is entered once, or retired, or about to be woken.
LEMMA NobodyHangs == ASSUME Base, Live, Settled, Exclusive PROVE NoThreadLost
PROOF
  <1> SUFFICES ASSUME NEW t \in Threads, alive[t], ipc[t]
               PROVE  \/ Cardinality(Places(t)) = 1 /\ \A p \in Places(t) : p[1] = wait[t].obj
                      \/ Places(t) = {} /\ \/ t \in retired
                                           \/ \E c \in Cores : op[c].to = t \/ t \in op[c].orphans
    BY DEF NoThreadLost
  <1>1. CASE Places(t) # {}
    <2>1. PICK p : p \in Places(t) BY <1>1
    <2>2. Places(t) = {p} /\ p[1] = wait[t].obj BY <2>1, OneEntry
    <2>3. Cardinality({p}) = 1 BY FS_Singleton
    <2> QED BY <2>2, <2>3
  <1>2. CASE Places(t) = {}
    <2>0. TypeOK BY DEF Base, TypeInv
    <2>1. NotLost(t) BY DEF Settled, NobodyLost
    <2>2. ASSUME NEW e \in Endpoints PROVE ~Snd(t, e) /\ ~Rcv(t, e) /\ ~Clr(t, e)
      <3>1. ASSUME Snd(t, e) PROVE FALSE
        <4>1. PICK i \in DOMAIN ep[e].senders : ep[e].senders[i] = t BY <3>1 DEF Snd, ToSet
        <4>2. <<e, "sender", i>> \in Places(t) BY <4>1, PlaceOf
        <4> QED BY <1>2, <4>2
      <3>2. ASSUME Rcv(t, e) PROVE FALSE
        <4>1. PICK i \in DOMAIN ep[e].receivers : ep[e].receivers[i] = t BY <3>2 DEF Rcv, ToSet
        <4>2. <<e, "receiver", i>> \in Places(t) BY <4>1, PlaceOf
        <4> QED BY <1>2, <4>2
      <3>3. ASSUME Clr(t, e) PROVE FALSE
        <4>1. <<e, "caller", 0>> \in Places(t) BY <3>3, PlaceOf DEF Clr
        <4> QED BY <1>2, <4>1
      <3> QED BY <3>1, <3>2, <3>3
    <2>3. ASSUME NEW n \in Notifications PROVE ~Wtr(t, n)
      <3>1. ASSUME Wtr(t, n) PROVE FALSE
        <4>1. <<n, "waiter", 0>> \in Places(t) BY <3>1, PlaceOf DEF Wtr
        <4> QED BY <1>2, <4>1
      <3> QED BY <3>1
    <2>4. t \in retired \/ ~Unwoken(t) BY <2>1, <2>2, <2>3 DEF NotLost
    <2> QED BY <1>2, <2>4 DEF Unwoken, Tgt, Orp
  <1> QED BY <1>1, <1>2

LEMMA InvEntered == ASSUME Inv PROVE EnteredWhereWaiting
PROOF
  <1>1. OrphansWait => NoGhost BY NobodyHaunts DEF Inv
  <1>2. OrphansWait /\ (\A e \in Endpoints : OneServer(e) \/ OneClient(e)) => NoThreadLost
    BY NobodyHangs DEF Inv, Exclusive
  <1>3. world.reloading \/ NoMissedRendezvous BY DEF Inv
  <1> QED BY <1>1, <1>2, <1>3 DEF EnteredWhereWaiting

LEMMA InvFrames == ASSUME Inv PROVE FramesTrue
PROOF
  <1>1. ASSUME OrphansWait PROVE ResultWritten /\ FrameUntouched
    <2>1. ASSUME NEW t \in Threads, alive[t] PROVE ThreadOK(t) /\ CoreOf[t] \in Cores
      BY <1>1, <2>1, ThreadFields DEF Inv, Base, TypeInv, Live, LiveOK
    <2>2. ResultWritten BY <2>1 DEF ResultWritten, ThreadOK, Self
    <2>3. FrameUntouched BY <2>1 DEF FrameUntouched, ThreadOK
    <2> QED BY <2>2, <2>3
  <1>2. ASSUME OrphansWait, \A e \in Endpoints : OneServer(e) PROVE ReplyMatches
    BY <1>2 DEF Inv, Settled, Answers, Answer, ReplyMatches
  <1> QED BY <1>1, <1>2 DEF FramesTrue

LEMMA InvSignals == ASSUME Inv PROVE SignalNotLost
  BY DEF Inv, OwedCarried, Carried, SignalNotLost

-----------------------------------------------------------------------------
(* The theorems                                                            *)

\* D11 of caprock-ipc in both directions, across CALL, RECV, REPLY, SIGNAL, WAIT, timeouts, deaths
\* and server exchanges: a blocked thread is entered exactly once, at the object it waits for; who
\* is entered waits there or is being swept; without a reload nobody waits across a missed
\* rendezvous.
THEOREM IpcEnteredWhereWaiting == Spec => []EnteredWhereWaiting
PROOF
  <1>1. Init => Inv BY InvInit
  <1>2. Inv /\ [Next]_vars => Inv' BY InvStep
  <1>3. Inv => EnteredWhereWaiting BY InvEntered
  <1> QED BY <1>1, <1>2, <1>3, PTL DEF Spec

\* What the kernel leaves in a saved frame belongs to the wait it ends: a result word is there when
\* the thread runs again, nothing is written after it has left, and a caller's OK answers the
\* request it made.
THEOREM IpcFramesTrue == Spec => []FramesTrue
PROOF
  <1>1. Init => Inv BY InvInit
  <1>2. Inv /\ [Next]_vars => Inv' BY InvStep
  <1>3. Inv => FramesTrue BY InvFrames
  <1> QED BY <1>1, <1>2, <1>3, PTL DEF Spec

\* Without deadlines no signalled badge disappears between SIGNAL and the WAIT that returns it: it
\* is pending, or in the frame of a live thread that comes back with OK.
THEOREM IpcSignalNotLost == Spec => []SignalNotLost
PROOF
  <1>1. Init => Inv BY InvInit
  <1>2. Inv /\ [Next]_vars => Inv' BY InvStep
  <1>3. Inv => SignalNotLost BY InvSignals
  <1> QED BY <1>1, <1>2, <1>3, PTL DEF Spec

\* begin_quiesce: no step opens a transaction at an endpoint that is and stays quiesced, the
\* handing back of an open call by migrate_owner included.
THEOREM IpcQuiesceShrinks == Spec => QuiesceShrinks
PROOF
  <1>1. Init => Base BY BaseInit
  <1>2. Base /\ [Next]_vars => Base' BY BaseStep
  <1>3. Base /\ [Next]_vars =>
          [\A e \in Endpoints : ep[e].quiescing /\ ep'[e].quiescing => Open(e)' \subseteq Open(e)]_vars
    BY QuiesceStep
  <1> QED BY <1>1, <1>2, <1>3, PTL DEF Spec, QuiesceShrinks
=============================================================================
