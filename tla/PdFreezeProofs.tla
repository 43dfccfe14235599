--------------------------- MODULE PdFreezeProofs ---------------------------
(***************************************************************************)
(* Proofs about the freezing of a domain, for any number of threads,       *)
(* endpoints and cores, and about redirected system calls: guests bound to *)
(* the handlers that answer them, and the tables SETHANDLER keeps.         *)
(***************************************************************************)
EXTENDS PdFreeze, Redirect, QueueProofs, FiniteSetTheorems

-----------------------------------------------------------------------------
(* The inductive invariant                                                 *)

\* From the listing on, the freezer works through the threads it has listed: who is to be done
\* is in the list, and who has had a channel closed for it is known and done.
ListKept ==
  /\ fz.todo \subseteq fz.tids /\ fz.shut \subseteq fz.tids
  /\ fz.pc \in {"idle", "list", "thaw", "ungate"} => fz.shut = {}
  /\ fz.pc \notin {"idle", "list"} => fz.recv \in [fz.tids -> 0 .. KEIN_EP]
  /\ fz.pc \in {"find", "close"} => fz.shut \cap fz.todo = {}
  /\ fz.pc = "close" => /\ fz.cur \in fz.tids \ (fz.todo \cup fz.shut)
                        /\ fz.recv[fz.cur] \in Endpoints

\* The freeze reason is set and cleared thread by thread.
MarksKept ==
  /\ fz.pc \in {"idle", "list", "find", "close", "judge", "ungate"} => marked = {}
  /\ fz.pc \in {"mark", "settle", "frozen", "bind", "open"} => marked \subseteq fz.tids
  /\ fz.pc = "mark" => fz.tids \ fz.todo \subseteq marked
  /\ fz.pc \in {"settle", "frozen"} => fz.tids \subseteq marked
  /\ fz.pc = "thaw" => marked \subseteq fz.todo

\* The channels closed by the freezer are those it has noted down, and nobody queues there.
ChannelsKept ==
  /\ \A e \in Endpoints : ep[e].closed = "freezer" => \E t \in fz.shut : fz.recv[t] = e
  /\ \A t \in fz.shut : /\ fz.recv[t] \in Endpoints /\ ep[fz.recv[t]].closed = "freezer"
                        /\ ep[fz.recv[t]].senders = <<>>

\* A receiver the freezer has taken out, and knows where to put back.
Retired(t) ==
  /\ fz.pc \in {"mark", "settle", "frozen"} \/ (fz.pc = "bind" /\ t \in fz.todo)
  /\ t \in fz.tids /\ fz.recv[t] = wait[t].e

ReceiversKept ==
  \A t \in Threads : wait[t].k = "recv" =>
    t \in ToSet(ep[wait[t].e].receivers) \/ Retired(t)

FInv ==
  /\ fz.pc = "idle" => ~gate
  /\ ListKept /\ MarksKept /\ ChannelsKept /\ ReceiversKept

\* A thread the freezer has seen stays one whose SPAWN is over, and once it is marked it is in no
\* ready queue.
SeenKept ==
  \A t \in fz.seen : /\ birth[t].st \in {"live", "slipped"} /\ birth[t].by = None
                     /\ t \in marked => birth[t].st = "live"

\* While nothing migrates the list misses none of them, and in a frozen domain they are off the
\* cores.
ListWhole ==
  /\ SeenKept
  /\ fz.pc = "list" => \A t \in fz.seen : loc[t] \in fz.cores \/ t \in fz.tids
  /\ fz.pc \notin {"idle", "list"} => fz.seen \subseteq fz.tids
  /\ fz.pc = "frozen" => on \cap fz.seen = {}

-----------------------------------------------------------------------------
(* Types                                                                   *)

LEMMA ConstantsTyped ==
  ASSUME PdFreezeAssumption
  PROVE  /\ KEIN_EP \in Nat /\ Endpoints \subseteq 0 .. KEIN_EP /\ KEIN_EP \notin Endpoints
         /\ KEIN_EP \in 0 .. KEIN_EP /\ Members \subseteq Threads /\ None \notin Members
BY DEF PdFreezeAssumption, KEIN_EP, Endpoints, Threads

LEMMA AsleepTyped ==
  ASSUME PdFreezeAssumption
  PROVE  /\ Asleep \in FreezerState
         /\ Asleep.pc = "idle" /\ Asleep.ticks = 0 /\ Asleep.cores = {} /\ Asleep.tids = {}
         /\ Asleep.todo = {} /\ Asleep.cur = None /\ Asleep.shut = {} /\ Asleep.seen = {}
<1>1. Empty \in UNION {[S -> 0 .. KEIN_EP] : S \in SUBSET Members}
  <2>1. Empty \in [{} -> 0 .. KEIN_EP]
    BY DEF Empty
  <2>2. {} \in SUBSET Members
    OBVIOUS
  <2> QED BY <2>1, <2>2
<1>2. 0 \in 0 .. Deadline
  BY DEF PdFreezeAssumption
<1> QED BY <1>1, <1>2 DEF Asleep, FreezerState, FreezerPcs

LEMMA UserTyped ==
  ASSUME NEW K, "user" \notin K
  PROVE  /\ User \in Place(K) /\ User.k = "user"
         /\ \A k \in K, e \in Endpoints : [k |-> k, e |-> e] \in Place(K)
         /\ \A p \in Place(K) : p.k \in K => p.e \in Endpoints
BY DEF User, Place

\* A call finds its endpoint where its entry says.
LEMMA EntryTyped ==
  ASSUME TypeOK, NEW t \in Threads, entry[t].k \in {"call", "recv", "reply"}
  PROVE  entry[t].e \in Endpoints
BY UserTyped DEF TypeOK

\* A state of the endpoints with one of them changed.
LEMMA EpTyped ==
  ASSUME TypeOK, NEW e \in Endpoints, NEW r \in EndpointState, ep' = [ep EXCEPT ![e] = r]
  PROVE  /\ ep' \in [Endpoints -> EndpointState] /\ ep'[e] = r
         /\ \A d \in Endpoints \ {e} : ep'[d] = ep[d]
BY DEF TypeOK

LEMMA ReopenedTyped ==
  ASSUME TypeOK
  PROVE  /\ Reopened \in [Endpoints -> EndpointState]
         /\ \A e \in Endpoints :
              /\ Reopened[e].closed = (IF \E t \in fz.shut : fz.recv[t] = e THEN None
                                       ELSE ep[e].closed)
              /\ Reopened[e].senders = ep[e].senders /\ Reopened[e].receivers = ep[e].receivers
<1>1. ASSUME NEW e \in Endpoints
      PROVE  /\ [ep[e] EXCEPT !.closed = None] \in EndpointState
             /\ [ep[e] EXCEPT !.closed = None].closed = None
             /\ [ep[e] EXCEPT !.closed = None].senders = ep[e].senders
             /\ [ep[e] EXCEPT !.closed = None].receivers = ep[e].receivers
  <2>1. ep[e] \in EndpointState
    BY DEF TypeOK
  <2> QED BY <2>1 DEF EndpointState
<1>2. ASSUME NEW e \in Endpoints PROVE ep[e] \in EndpointState
  BY DEF TypeOK
<1> QED BY <1>1, <1>2 DEF Reopened

LEMMA TypeInit ==
  ASSUME PdFreezeAssumption, Init PROVE TypeOK
<1>1. ep \in [Endpoints -> EndpointState]
  BY DEF Init, EndpointState
<1>2. wait \in [Threads -> Place({"call", "recv"})]
      /\ entry \in [Threads -> Place({"call", "recv", "reply"})]
  BY UserTyped DEF Init
<1>3. fz \in FreezerState
  BY AsleepTyped DEF Init
<1>4. birth \in [Members -> BirthState]
  BY DEF Init, BirthState
<1> QED BY <1>1, <1>2, <1>3, <1>4 DEF Init, TypeOK, PdFreezeAssumption

\* The threads and what is stopped of them are left alone.
LEMMA SameThreads ==
  ASSUME TypeOK, UNCHANGED <<threadState, marked>>, ep' \in [Endpoints -> EndpointState],
         gate' \in BOOLEAN, fz' \in FreezerState
  PROVE  TypeOK'
BY DEF TypeOK, threadState

\* A thread that leaves its queue or is woken: who is in SPAWN stays so.
Grown(t) ==
  /\ birth' \in [Members -> BirthState]
  /\ \A u \in Members :
       /\ birth'[u].by = birth[u].by
       /\ \/ birth'[u].st = birth[u].st
          \/ u = t /\ birth[u].st \in {"parked", "slipped"} /\ birth'[u].st = "live"

LEMMA DequeuedGrows ==
  ASSUME TypeOK, NEW t, Dequeued(t)
  PROVE  Grown(t) /\ (t \in Members => birth'[t].st # "slipped")
<1>1. ASSUME NEW u \in Members PROVE birth[u] \in BirthState
  BY DEF TypeOK
<1> QED BY <1>1 DEF Dequeued, Grown, TypeOK, BirthState

LEMMA RousedGrows ==
  ASSUME TypeOK, NEW t \in Members, NEW R, Roused(t, R)
  PROVE  Grown(t)
<1>1. ASSUME NEW u \in Members PROVE birth[u] \in BirthState
  BY DEF TypeOK
<1> QED BY <1>1 DEF Roused, Grown, TypeOK, BirthState

LEMMA TypeCores ==
  ASSUME PdFreezeAssumption, TypeOK, NEW t \in Threads,
         \/ Dispatch(t) \/ Preempt(t) \/ DebugStop(t) \/ DebugResume(t) \/ CommitRefused(t)
         \/ \E c \in Cores : Balance(t, c)
         \/ \E e \in Endpoints, k \in {"call", "recv", "reply"} : Enter(t, k, e)
         \/ admit(t) \/ \E u \in Members : spawn(t, u)
  PROVE  TypeOK'
<1>1. CASE Dispatch(t)
  BY <1>1, DequeuedGrows DEF Dispatch, TypeOK, Grown
<1>2. CASE Preempt(t)
  BY <1>2 DEF Preempt, TypeOK
<1>3. CASE DebugStop(t)
  BY <1>3, DequeuedGrows DEF DebugStop, TypeOK, PdFreezeAssumption, Grown
<1>4. CASE DebugResume(t)
  BY <1>4, RousedGrows DEF DebugResume, TypeOK, Grown
<1>5. CASE CommitRefused(t)
  BY <1>5, UserTyped DEF CommitRefused, TypeOK, Leave
<1>6. ASSUME NEW c \in Cores, Balance(t, c) PROVE TypeOK'
  BY <1>6 DEF Balance, TypeOK
<1>7. ASSUME NEW e \in Endpoints, NEW k \in {"call", "recv", "reply"}, Enter(t, k, e) PROVE TypeOK'
  <2>1. [k |-> k, e |-> e] \in Place({"call", "recv", "reply"})
    BY UserTyped
  <2> QED BY <1>7, <2>1 DEF Enter, TypeOK
<1>8. CASE admit(t)
  BY <1>8 DEF admit, TypeOK, BirthState
<1>9. ASSUME NEW u \in Members, spawn(t, u) PROVE TypeOK'
  <2>1. loc[t] \in Cores /\ [st |-> "parked", by |-> t] \in BirthState
    BY <1>9 DEF spawn, TypeOK, BirthState
  <2> QED BY <1>9, <2>1 DEF spawn, TypeOK
<1> QED BY <1>1, <1>2, <1>3, <1>4, <1>5, <1>6, <1>7, <1>8, <1>9

LEMMA CallTyped ==
  ASSUME PdFreezeAssumption, TypeOK, NEW t \in Threads, CommitCall(t)
  PROVE  TypeOK'
<1> DEFINE e == entry[t].e
           place == [k |-> "call", e |-> e]
<1>1. e \in Endpoints /\ ep[e] \in EndpointState /\ place \in Place({"call", "recv"})
  <2>1. e \in Endpoints
    BY EntryTyped DEF CommitCall
  <2> QED BY <2>1, UserTyped DEF TypeOK
<1> HIDE DEF e, place
<1>2. entry' \in [Threads -> Place({"call", "recv", "reply"})] /\ on' \subseteq Threads
  BY UserTyped DEF CommitCall, Leave, TypeOK
<1>3. UNCHANGED <<birth, loc, debug, marked, gate, fz>>
  BY DEF CommitCall
<1>4. CASE ep[e].receivers # <<>>
  <2> DEFINE s == Head(ep[e].receivers)
             r == [ep[e] EXCEPT !.receivers = Tail(@), !.caller = t, !.owner = s]
  <2>1. ep' = [ep EXCEPT ![e] = r] /\ wait' = [wait EXCEPT ![t] = place, ![s] = User]
    BY <1>4 DEF CommitCall, e, place
  <2>2. ep[e].receivers \in Seq(Threads)
    BY <1>1 DEF EndpointState
  <2>3. s \in Threads /\ Tail(ep[e].receivers) \in Seq(Threads)
    BY <2>2, <1>4
  <2>4. r \in EndpointState
    BY <1>1, <2>3 DEF EndpointState
  <2>5. wait' \in [Threads -> Place({"call", "recv"})]
    BY <1>1, <2>1, <2>3, UserTyped DEF TypeOK
  <2> QED BY <1>1, <1>2, <1>3, <2>1, <2>4, <2>5, EpTyped DEF TypeOK
<1>5. CASE ep[e].receivers = <<>>
  <2> DEFINE q == Append(ep[e].senders, t)
             r == [ep[e] EXCEPT !.senders = q]
  <2>1. ep' = [ep EXCEPT ![e] = r] /\ wait' = [wait EXCEPT ![t] = place]
    BY <1>5 DEF CommitCall, e, place
  <2>2. ep[e].senders \in Seq(Threads)
    BY <1>1 DEF EndpointState
  <2>3. r \in EndpointState
    <3>1. q \in Seq(Threads)
      BY <2>2
    <3> HIDE DEF q
    <3> QED BY <1>1, <3>1 DEF EndpointState
  <2>4. wait' \in [Threads -> Place({"call", "recv"})]
    BY <1>1, <2>1 DEF TypeOK
  <2> QED BY <1>1, <1>2, <1>3, <2>1, <2>3, <2>4, EpTyped DEF TypeOK
<1> QED BY <1>4, <1>5

LEMMA RecvTyped ==
  ASSUME PdFreezeAssumption, TypeOK, NEW t \in Threads, CommitRecv(t)
  PROVE  TypeOK'
<1> DEFINE e == entry[t].e
           place == [k |-> "recv", e |-> e]
<1>1. e \in Endpoints /\ ep[e] \in EndpointState /\ place \in Place({"call", "recv"})
  <2>1. e \in Endpoints
    BY EntryTyped DEF CommitRecv
  <2> QED BY <2>1, UserTyped DEF TypeOK
<1> HIDE DEF e, place
<1>2. entry' \in [Threads -> Place({"call", "recv", "reply"})]
  BY UserTyped DEF CommitRecv, Leave, TypeOK
<1>3. UNCHANGED <<birth, loc, debug, marked, gate, fz>>
  BY DEF CommitRecv
<1>4. CASE ep[e].senders # <<>>
  <2> DEFINE c == Head(ep[e].senders)
             r == [ep[e] EXCEPT !.senders = Tail(@), !.caller = c, !.owner = t]
  <2>1. ep' = [ep EXCEPT ![e] = r] /\ UNCHANGED <<wait, on>>
    BY <1>4 DEF CommitRecv, e
  <2>2. ep[e].senders \in Seq(Threads)
    BY <1>1 DEF EndpointState
  <2>3. c \in Threads /\ Tail(ep[e].senders) \in Seq(Threads)
    BY <2>2, <1>4
  <2>4. r \in EndpointState
    BY <1>1, <2>3 DEF EndpointState
  <2> QED BY <1>1, <1>2, <1>3, <2>1, <2>4, EpTyped DEF TypeOK
<1>5. CASE ep[e].senders = <<>>
  <2> DEFINE q == Append(ep[e].receivers, t)
             r == [ep[e] EXCEPT !.receivers = q]
  <2>1. ep' = [ep EXCEPT ![e] = r] /\ wait' = [wait EXCEPT ![t] = place] /\ on' = on \ {t}
    BY <1>5 DEF CommitRecv, Block, e, place
  <2>2. ep[e].receivers \in Seq(Threads)
    BY <1>1 DEF EndpointState
  <2>3. r \in EndpointState
    <3>1. q \in Seq(Threads)
      BY <2>2
    <3> HIDE DEF q
    <3> QED BY <1>1, <3>1 DEF EndpointState
  <2>4. wait' \in [Threads -> Place({"call", "recv"})]
    BY <1>1, <2>1 DEF TypeOK
  <2> QED BY <1>1, <1>2, <1>3, <2>1, <2>3, <2>4, EpTyped DEF TypeOK
<1> QED BY <1>4, <1>5

LEMMA ReplyTyped ==
  ASSUME PdFreezeAssumption, TypeOK, NEW t \in Threads, CommitReply(t)
  PROVE  TypeOK'
<1> DEFINE e == entry[t].e
           r == [ep[e] EXCEPT !.caller = None, !.owner = None]
<1>1. e \in Endpoints /\ ep[e] \in EndpointState
  <2>1. e \in Endpoints
    BY EntryTyped DEF CommitReply
  <2> QED BY <2>1 DEF TypeOK
<1>2. ep' = [ep EXCEPT ![e] = r]
  BY DEF CommitReply
<1>3. r \in EndpointState /\ ep[e].caller \in Threads \cup {None}
  BY <1>1 DEF EndpointState
<1>4. wait' \in [Threads -> Place({"call", "recv"})]
  BY <1>3, UserTyped DEF CommitReply, TypeOK
<1>5. entry' \in [Threads -> Place({"call", "recv", "reply"})]
  BY UserTyped DEF CommitReply, Leave, TypeOK
<1> HIDE DEF r
<1> QED BY <1>1, <1>2, <1>3, <1>4, <1>5, EpTyped DEF CommitReply, TypeOK

LEMMA ReloadTyped ==
  ASSUME TypeOK, NEW e \in Endpoints, ReloadCloses(e) \/ ReloadOpens(e)
  PROVE  TypeOK'
<1>1. ep[e] \in EndpointState
  BY DEF TypeOK
<1>2. ASSUME NEW w \in {None, "reload"}, ep' = [ep EXCEPT ![e].closed = w],
             UNCHANGED <<birth, wait, entry, on, loc, debug, marked, gate, fz>>
      PROVE  TypeOK'
  <2> DEFINE r == [ep[e] EXCEPT !.closed = w]
  <2>1. ep' = [ep EXCEPT ![e] = r]
    BY <1>2
  <2>2. r \in EndpointState
    BY <1>1 DEF EndpointState
  <2> HIDE DEF r
  <2> QED BY <1>2, <2>1, <2>2, EpTyped DEF TypeOK
<1> QED BY <1>2 DEF ReloadCloses, ReloadOpens

-----------------------------------------------------------------------------
(* Types: the freezer                                                      *)

\* A step of the freezer that leaves the endpoints or opens its channels again.
LEMMA GiveUpTyped ==
  ASSUME PdFreezeAssumption, TypeOK, GiveUp, UNCHANGED <<threadState, marked>>,
         ep' = Reopened \/ UNCHANGED ep
  PROVE  TypeOK'
<1>1. ep' \in [Endpoints -> EndpointState]
  BY ReopenedTyped DEF TypeOK
<1> QED BY <1>1, AsleepTyped, SameThreads DEF GiveUp

\* The next attempt starts from nothing, at a later time.
LEMMA Restarted ==
  ASSUME PdFreezeAssumption, NEW n \in 0 .. Deadline
  PROVE  /\ Attempt(n) \in FreezerState /\ Attempt(n).pc = "list" /\ Attempt(n).cores = Cores
         /\ Attempt(n).tids = {} /\ Attempt(n).todo = {} /\ Attempt(n).shut = {}
         /\ Attempt(n).seen = Admitted
<1> DEFINE a == Asleep
<1>1. a \in FreezerState /\ a.tids = {} /\ a.todo = {} /\ a.shut = {}
  BY AsleepTyped
<1>2. Admitted \subseteq Members
  BY DEF Admitted
<1> HIDE DEF a
<1>3. LET r == [a EXCEPT !.pc = "list", !.cores = Cores, !.ticks = n, !.seen = Admitted]
      IN  /\ r \in FreezerState /\ r.pc = "list" /\ r.cores = Cores /\ r.tids = {}
          /\ r.todo = {} /\ r.shut = {} /\ r.seen = Admitted
  BY <1>1, <1>2 DEF FreezerState, FreezerPcs
<1> QED BY <1>3 DEF a, Attempt

LEMMA TypeListing ==
  ASSUME PdFreezeAssumption, TypeOK, \/ freeze_pd \/ pd_threads \/ Listed \/ Elapse
                                     \/ StartJudging \/ StartMarking \/ Settle \/ thaw_pd
  PROVE  TypeOK'
<1>0. fz \in FreezerState
  BY DEF TypeOK
<1>1. CASE freeze_pd
  <2>1. 0 \in 0 .. Deadline
    BY DEF PdFreezeAssumption
  <2>2. fz' \in FreezerState
    BY <1>1, <2>1, Restarted DEF freeze_pd
  <2> QED BY <1>1, <2>2, SameThreads DEF freeze_pd, TypeOK
<1>2. CASE pd_threads
  <2> DEFINE c == CHOOSE x \in fz.cores : \A y \in fz.cores : x <= y
  <2>1. fz' = [fz EXCEPT !.cores = @ \ {c}, !.tids = @ \cup Mine(c)]
    BY <1>2 DEF pd_threads
  <2> HIDE DEF c
  <2>2. Mine(c) \subseteq Members
    BY DEF Mine
  <2>3. fz' \in FreezerState
    BY <1>0, <2>1, <2>2 DEF FreezerState
  <2> QED BY <1>2, <2>3, SameThreads DEF pd_threads, TypeOK
<1>3. CASE Listed
  <2>1. CASE fz.tids = {} \/ Cardinality(fz.tids) > MaxThreads
    BY <1>3, <2>1, GiveUpTyped DEF Listed
  <2>2. CASE ~(fz.tids = {} \/ Cardinality(fz.tids) > MaxThreads)
    <3> DEFINE f == [t \in fz.tids |-> KEIN_EP]
    <3>1. fz' = [fz EXCEPT !.pc = "find", !.todo = fz.tids, !.recv = f] /\ UNCHANGED <<gate, ep>>
      BY <1>3, <2>2 DEF Listed
    <3>2. fz.tids \in SUBSET Members
      BY <1>0 DEF FreezerState
    <3>3. f \in UNION {[S -> 0 .. KEIN_EP] : S \in SUBSET Members}
      <4>1. f \in [fz.tids -> 0 .. KEIN_EP]
        BY ConstantsTyped
      <4> HIDE DEF f
      <4> QED BY <3>2, <4>1
    <3> HIDE DEF f
    <3>4. fz' \in FreezerState
      BY <1>0, <3>1, <3>2, <3>3 DEF FreezerState, FreezerPcs
    <3> QED BY <1>3, <3>1, <3>4, SameThreads DEF Listed, TypeOK
  <2> QED BY <2>1, <2>2
<1>4. CASE Elapse
  <2>1. fz.ticks + 1 \in 0 .. Deadline
    BY <1>0, <1>4 DEF Elapse, FreezerState, PdFreezeAssumption
  <2> DEFINE n == fz.ticks + 1
  <2>2. fz' = [fz EXCEPT !.ticks = n]
    BY <1>4 DEF Elapse
  <2> HIDE DEF n
  <2>3. fz' \in FreezerState
    BY <1>0, <2>1, <2>2 DEF FreezerState, n
  <2> QED BY <1>4, <2>3, SameThreads DEF Elapse, TypeOK
<1>5. CASE StartJudging
  <2>1. fz' \in FreezerState
    BY <1>0, <1>5 DEF StartJudging, FreezerState, FreezerPcs
  <2> QED BY <1>5, <2>1, SameThreads DEF StartJudging, TypeOK
<1>6. CASE StartMarking
  <2>1. fz' \in FreezerState
    BY <1>0, <1>6 DEF StartMarking, FreezerState, FreezerPcs
  <2> QED BY <1>6, <2>1, SameThreads DEF StartMarking, TypeOK
<1>7. CASE Settle
  <2>1. CASE OffCore
    BY <1>0, <1>7, <2>1, SameThreads DEF Settle, FreezerState, FreezerPcs, TypeOK
  <2>2. CASE ~OffCore /\ Late
    BY <1>0, <1>7, <2>2, SameThreads DEF Settle, FreezerState, FreezerPcs, TypeOK
  <2>3. CASE ~OffCore /\ ~Late
    <3> DEFINE n == fz.ticks + 1
    <3>1. n \in 0 .. Deadline
      BY <1>0, <2>3 DEF Late, FreezerState, PdFreezeAssumption
    <3>2. fz' = [fz EXCEPT !.ticks = n]
      BY <1>7, <2>3 DEF Settle
    <3> HIDE DEF n
    <3>3. fz' \in FreezerState
      BY <1>0, <3>1, <3>2 DEF FreezerState
    <3> QED BY <1>7, <3>3, SameThreads DEF Settle, TypeOK
  <2> QED BY <2>1, <2>2, <2>3
<1>8. CASE thaw_pd
  <2>1. fz' \in FreezerState
    BY <1>0, <1>8 DEF thaw_pd, FreezerState, FreezerPcs
  <2> QED BY <1>8, <2>1, SameThreads DEF thaw_pd, TypeOK
<1> QED BY <1>1, <1>2, <1>3, <1>4, <1>5, <1>6, <1>7, <1>8

LEMMA TypeJudging ==
  ASSUME PdFreezeAssumption, TypeOK, ListKept,
         \/ begin_quiesce \/ end_quiesce \/ OpenGate
         \/ \E t \in Members : recv_endpoints(t) \/ Judge(t) \/ thaw_group(t)
  PROVE  TypeOK'
<1>0. fz \in FreezerState
  BY DEF TypeOK
<1>1. CASE begin_quiesce
  <2> DEFINE e == fz.recv[fz.cur]
             r == [ep[e] EXCEPT !.closed = "freezer"]
  <2>1. CASE ep[e].senders # <<>>
    BY <1>1, <2>1, GiveUpTyped DEF begin_quiesce
  <2>2. CASE ~(ep[e].senders # <<>>) /\ Len(ep[e].receivers) = 1 /\ ep[e].closed = None
    <3>1. e \in Endpoints /\ fz.cur \in Members
      BY <1>0, <1>1 DEF begin_quiesce, ListKept, FreezerState
    <3>2. ep[e] \in EndpointState
      BY <3>1 DEF TypeOK
    <3>3. r \in EndpointState
      BY <3>2 DEF EndpointState
    <3>4. ep' = [ep EXCEPT ![e] = r] /\ fz' = [fz EXCEPT !.pc = "find", !.shut = @ \cup {fz.cur}]
          /\ UNCHANGED <<gate, threadState, marked>>
      BY <1>1, <2>2 DEF begin_quiesce
    <3>5. fz' \in FreezerState
      BY <1>0, <3>1, <3>4 DEF FreezerState, FreezerPcs
    <3> HIDE DEF e, r
    <3>6. ep' \in [Endpoints -> EndpointState]
      BY <3>1, <3>3, <3>4, EpTyped
    <3> QED BY <3>4, <3>5, <3>6, SameThreads DEF TypeOK
  <2>3. CASE ~(ep[e].senders # <<>>) /\ ~(Len(ep[e].receivers) = 1 /\ ep[e].closed = None)
    <3>1. UNCHANGED ep /\ fz' = [fz EXCEPT !.pc = "find"] /\ UNCHANGED <<gate, threadState, marked>>
      BY <1>1, <2>3 DEF begin_quiesce
    <3>2. fz' \in FreezerState
      BY <1>0, <3>1 DEF FreezerState, FreezerPcs
    <3> QED BY <3>1, <3>2, SameThreads DEF TypeOK
  <2> QED BY <2>1, <2>2, <2>3
<1>2. CASE end_quiesce
  <2>1. fz' \in FreezerState
    BY <1>0, <1>2 DEF end_quiesce, FreezerState, FreezerPcs
  <2> QED BY <1>2, <2>1, ReopenedTyped, SameThreads DEF end_quiesce, TypeOK
<1>3. CASE OpenGate
  BY <1>3, GiveUpTyped DEF OpenGate
<1>4. ASSUME NEW t \in Members, recv_endpoints(t) PROVE TypeOK'
  <2>1. CASE Cardinality(ReceiverAt(t)) > 1
    BY <1>4, <2>1, GiveUpTyped DEF recv_endpoints
  <2>2. CASE ~(Cardinality(ReceiverAt(t)) > 1) /\ ReceiverAt(t) = {}
    <3>1. fz' = [fz EXCEPT !.todo = @ \ {t}] /\ UNCHANGED <<ep, gate, threadState, marked>>
      BY <1>4, <2>2 DEF recv_endpoints
    <3>2. fz' \in FreezerState
      BY <1>0, <3>1 DEF FreezerState
    <3> QED BY <3>1, <3>2, SameThreads DEF TypeOK
  <2>3. CASE ~(Cardinality(ReceiverAt(t)) > 1) /\ ReceiverAt(t) # {}
    <3> DEFINE v == CHOOSE e \in ReceiverAt(t) : TRUE
               f == [fz.recv EXCEPT ![t] = v]
    <3>1. fz' = [fz EXCEPT !.todo = @ \ {t}, !.pc = "close", !.cur = t, !.recv = f]
          /\ UNCHANGED <<ep, gate, threadState, marked>>
      BY <1>4, <2>3 DEF recv_endpoints
    <3>2. v \in 0 .. KEIN_EP
      BY <2>3, ConstantsTyped DEF ReceiverAt
    <3>3. PICK S \in SUBSET Members : fz.recv \in [S -> 0 .. KEIN_EP]
      BY <1>0 DEF FreezerState
    <3> HIDE DEF v
    <3>4. f \in [S -> 0 .. KEIN_EP]
      BY <3>2, <3>3
    <3> HIDE DEF f
    <3>5. f \in UNION {[U -> 0 .. KEIN_EP] : U \in SUBSET Members}
      BY <3>3, <3>4
    <3>6. fz' \in FreezerState
      BY <1>0, <3>1, <3>5 DEF FreezerState, FreezerPcs
    <3> QED BY <3>1, <3>6, SameThreads DEF TypeOK
  <2> QED BY <2>1, <2>2, <2>3
<1>5. ASSUME NEW t \in Members, Judge(t) PROVE TypeOK'
  <2>1. CASE (t \in debug \/ (~Harmless(t) /\ Late)) /\ ep' = Reopened /\ GiveUp
    BY <1>5, <2>1, GiveUpTyped DEF Judge
  <2>2. CASE /\ t \notin debug /\ ~Harmless(t) /\ ~Late
             /\ ep' = Reopened /\ UNCHANGED gate
             /\ fz' = Attempt(fz.ticks + 1)
    <3> DEFINE n == fz.ticks + 1
    <3>1. n \in 0 .. Deadline
      BY <1>0, <2>2 DEF Late, FreezerState, PdFreezeAssumption
    <3>2. fz' = Attempt(n)
      BY <2>2
    <3> HIDE DEF n
    <3>3. fz' \in FreezerState
      BY <3>1, <3>2, Restarted
    <3> QED BY <1>5, <2>2, <3>3, ReopenedTyped, SameThreads DEF Judge, TypeOK
  <2>3. CASE fz' = [fz EXCEPT !.todo = @ \ {t}] /\ UNCHANGED <<ep, gate>>
    <3>1. fz' \in FreezerState
      BY <1>0, <2>3 DEF FreezerState
    <3> QED BY <1>5, <2>3, <3>1, SameThreads DEF Judge, TypeOK
  <2> QED BY <1>5, <2>1, <2>2, <2>3 DEF Judge
<1>6. ASSUME NEW t \in Members, thaw_group(t) PROVE TypeOK'
  <2>1. fz' \in FreezerState
    BY <1>0, <1>6 DEF thaw_group, FreezerState, FreezerPcs
  <2> QED BY <1>6, <2>1, RousedGrows DEF thaw_group, TypeOK, Grown
<1> QED BY <1>1, <1>2, <1>3, <1>4, <1>5, <1>6

LEMMA TypeReceivers ==
  ASSUME PdFreezeAssumption, TypeOK, ListKept, NEW t \in Members,
         MarkThread(t) \/ bind_receiver(t)
  PROVE  TypeOK'
<1> DEFINE e == fz.recv[t]
<1>0. fz \in FreezerState
  BY DEF TypeOK
<1>1. e \in 0 .. KEIN_EP /\ t \in Threads
  BY ConstantsTyped DEF ListKept, MarkThread, bind_receiver
<1>2. ASSUME NEW q \in Seq(Threads), e # KEIN_EP, ep' = [ep EXCEPT ![e].receivers = q]
      PROVE  ep' \in [Endpoints -> EndpointState]
  <2>1. e \in Endpoints
    BY <1>1, <1>2, ConstantsTyped DEF Endpoints, KEIN_EP
  <2>2. ep[e] \in EndpointState
    BY <2>1 DEF TypeOK
  <2> DEFINE r == [ep[e] EXCEPT !.receivers = q]
  <2>3. r \in EndpointState /\ ep' = [ep EXCEPT ![e] = r]
    BY <1>2, <2>2 DEF EndpointState
  <2> HIDE DEF r, e
  <2> QED BY <2>1, <2>3, EpTyped
<1>3. e # KEIN_EP => ep[e].receivers \in Seq(Threads)
  <2> SUFFICES ASSUME e # KEIN_EP PROVE ep[e].receivers \in Seq(Threads)
    OBVIOUS
  <2>1. e \in Endpoints
    BY <1>1, ConstantsTyped DEF Endpoints, KEIN_EP
  <2>2. ep[e] \in EndpointState
    BY <2>1 DEF TypeOK
  <2> QED BY <2>2 DEF EndpointState
<1>4. ep' \in [Endpoints -> EndpointState]
  <2>1. CASE ep' = ep
    BY <2>1 DEF TypeOK
  <2>2. CASE e # KEIN_EP /\ ep' = [ep EXCEPT ![e].receivers = Without(@, t)]
    <3>1. Without(ep[e].receivers, t) \in Seq(Threads)
      BY <1>3, <2>2, WithoutLeaves
    <3>2. ep' = [ep EXCEPT ![e].receivers = Without(ep[e].receivers, t)]
      BY <2>2
    <3> QED BY <1>2, <2>2, <3>1, <3>2
  <2>3. CASE e # KEIN_EP /\ ep' = [ep EXCEPT ![e].receivers = Append(@, t)]
    <3>1. Append(ep[e].receivers, t) \in Seq(Threads)
      BY <1>1, <1>3, <2>3, AppendSet
    <3>2. ep' = [ep EXCEPT ![e].receivers = Append(ep[e].receivers, t)]
      BY <2>3
    <3> QED BY <1>2, <2>3, <3>1, <3>2
  <2> QED BY <2>1, <2>2, <2>3 DEF MarkThread, bind_receiver
<1>5. fz' \in FreezerState
  <2>1. PICK p \in {"settle", "open", fz.pc} : fz' = [fz EXCEPT !.todo = @ \ {t}, !.pc = p]
    BY DEF MarkThread, bind_receiver
  <2> QED BY <1>0, <2>1 DEF FreezerState, FreezerPcs
<1> QED BY <1>4, <1>5, DequeuedGrows DEF MarkThread, bind_receiver, TypeOK, threadState, Grown

LEMMA TypeStep ==
  ASSUME PdFreezeAssumption, TypeOK, ListKept, [Next]_vars PROVE TypeOK'
<1>1. CASE UNCHANGED vars
  BY <1>1 DEF vars, TypeOK
<1>2. CASE Next
  BY <1>2, TypeCores, CallTyped, RecvTyped, ReplyTyped, ReloadTyped, TypeListing, TypeJudging,
     TypeReceivers DEF Next, Freezer
<1> QED BY <1>1, <1>2

-----------------------------------------------------------------------------
(* The steps of the threads                                                *)

\* A step that leaves the freezer alone.
LEMMA ThreadStep ==
  ASSUME FInv, UNCHANGED <<marked, gate, fz>>, ChannelsKept', ReceiversKept'
  PROVE  FInv'
BY DEF FInv, ListKept, MarksKept

\* Endpoints closed by the freezer stay closed and empty, and no other one is closed by it.
LEMMA ChannelsStay ==
  ASSUME TypeOK, ChannelsKept, UNCHANGED fz,
         \A e \in Endpoints :
           \/ ep'[e].closed = ep[e].closed /\ (ep[e].closed = "freezer" => ep'[e].senders = ep[e].senders)
           \/ ep[e].closed # "freezer" /\ ep'[e].closed # "freezer"
  PROVE  ChannelsKept'
BY DEF ChannelsKept

\* Who waits for a message still does, or has just been entered.
LEMMA ReceiversStay ==
  ASSUME TypeOK, ReceiversKept, UNCHANGED fz,
         \A t \in Threads : wait'[t].k = "recv" =>
           \/ t \in ToSet(ep'[wait'[t].e].receivers)
           \/ /\ wait'[t] = wait[t]
              /\ t \in ToSet(ep[wait[t].e].receivers) => t \in ToSet(ep'[wait[t].e].receivers)
  PROVE  ReceiversKept'
BY DEF ReceiversKept, Retired

LEMMA CoresStep ==
  ASSUME TypeOK, FInv, UNCHANGED <<ep, wait, marked, gate, fz>>
  PROVE  FInv'
BY DEF FInv, ListKept, MarksKept, ChannelsKept, ReceiversKept, Retired

LEMMA CallStep ==
  ASSUME PdFreezeAssumption, TypeOK, FInv, NEW t \in Threads, CommitCall(t)
  PROVE  FInv'
<1> DEFINE e == entry[t].e
           place == [k |-> "call", e |-> e]
<1>1. e \in Endpoints /\ ep[e] \in EndpointState /\ ep[e].closed = None
  <2>1. e \in Endpoints
    BY EntryTyped DEF CommitCall
  <2> QED BY <2>1 DEF TypeOK, CommitCall, Closed
<1>2. place.k = "call"
  OBVIOUS
<1> HIDE DEF e, place
<1>3. UNCHANGED <<marked, gate, fz>>
  BY DEF CommitCall
<1>4. CASE ep[e].receivers # <<>>
  <2> DEFINE q == ep[e].receivers
             s == Head(q)
             r == [ep[e] EXCEPT !.receivers = Tail(@), !.caller = t, !.owner = s]
  <2>1. ep' = [ep EXCEPT ![e] = r] /\ wait' = [wait EXCEPT ![t] = place, ![s] = User]
    BY <1>4 DEF CommitCall, e, place
  <2>2. q \in Seq(Threads)
    BY <1>1 DEF EndpointState
  <2>3. /\ s \in Threads /\ Tail(q) \in Seq(Threads) /\ ToSet(q) = {s} \cup ToSet(Tail(q))
    BY <2>2, <1>4, TailSet
  <2>4. r \in EndpointState /\ r.closed = None /\ r.receivers = Tail(q)
    BY <1>1, <2>3 DEF EndpointState
  <2> HIDE DEF q, r, s
  <2>5. ep'[e] = r /\ \A d \in Endpoints \ {e} : ep'[d] = ep[d]
    BY <1>1, <2>1, <2>4, EpTyped
  <2>6. ChannelsKept'
    BY <1>1, <1>3, <2>4, <2>5, ChannelsStay DEF FInv, PdFreezeAssumption, None
  <2>7. ReceiversKept'
    <3>1. \A u \in Threads : wait'[u].k = "recv" => u # t /\ u # s /\ wait'[u] = wait[u]
      BY <1>2, <2>1, <2>3, UserTyped DEF TypeOK, User
    <3>2. \A u \in Threads, d \in Endpoints :
            u # s /\ u \in ToSet(ep[d].receivers) => u \in ToSet(ep'[d].receivers)
      BY <2>3, <2>4, <2>5 DEF q
    <3>3. \A u \in Threads : wait[u].k = "recv" => wait[u].e \in Endpoints
      BY UserTyped DEF TypeOK
    <3> QED BY <1>3, <3>1, <3>2, <3>3, ReceiversStay DEF FInv
  <2> QED BY <1>3, <2>6, <2>7, ThreadStep
<1>5. CASE ep[e].receivers = <<>>
  <2> DEFINE q == Append(ep[e].senders, t)
             r == [ep[e] EXCEPT !.senders = q]
  <2>1. ep' = [ep EXCEPT ![e] = r] /\ wait' = [wait EXCEPT ![t] = place]
    BY <1>5 DEF CommitCall, e, place
  <2>2. ep[e].senders \in Seq(Threads)
    BY <1>1 DEF EndpointState
  <2>3. q \in Seq(Threads)
    BY <2>2
  <2> HIDE DEF q
  <2>4. r \in EndpointState /\ r.closed = None /\ r.receivers = ep[e].receivers
    BY <1>1, <2>3 DEF EndpointState
  <2> HIDE DEF r
  <2>5. ep'[e] = r /\ \A d \in Endpoints \ {e} : ep'[d] = ep[d]
    BY <1>1, <2>1, <2>4, EpTyped
  <2>6. ChannelsKept'
    BY <1>1, <1>3, <2>4, <2>5, ChannelsStay DEF FInv, None
  <2>7. ReceiversKept'
    <3>1. \A u \in Threads : wait'[u].k = "recv" => u # t /\ wait'[u] = wait[u]
      BY <1>2, <2>1 DEF TypeOK
    <3>2. \A d \in Endpoints : ep'[d].receivers = ep[d].receivers
      BY <2>4, <2>5
    <3>3. \A u \in Threads : wait[u].k = "recv" => wait[u].e \in Endpoints
      BY UserTyped DEF TypeOK
    <3> QED BY <1>3, <3>1, <3>2, <3>3, ReceiversStay DEF FInv
  <2> QED BY <1>3, <2>6, <2>7, ThreadStep
<1> QED BY <1>4, <1>5

LEMMA RecvStep ==
  ASSUME PdFreezeAssumption, TypeOK, FInv, NEW t \in Threads, CommitRecv(t)
  PROVE  FInv'
<1> DEFINE e == entry[t].e
           place == [k |-> "recv", e |-> e]
<1>1. e \in Endpoints /\ ep[e] \in EndpointState /\ ep[e].closed = None
  <2>1. e \in Endpoints
    BY EntryTyped DEF CommitRecv
  <2> QED BY <2>1 DEF TypeOK, CommitRecv, Closed
<1>2. place.e = e
  OBVIOUS
<1> HIDE DEF e, place
<1>3. UNCHANGED <<marked, gate, fz>>
  BY DEF CommitRecv
<1>9. \A u \in Threads : wait[u].k = "recv" => wait[u].e \in Endpoints
  BY UserTyped DEF TypeOK
<1>4. CASE ep[e].senders # <<>>
  <2> DEFINE c == Head(ep[e].senders)
             r == [ep[e] EXCEPT !.senders = Tail(@), !.caller = c, !.owner = t]
  <2>1. ep' = [ep EXCEPT ![e] = r] /\ UNCHANGED wait
    BY <1>4 DEF CommitRecv, e
  <2>2. ep[e].senders \in Seq(Threads)
    BY <1>1 DEF EndpointState
  <2>3. c \in Threads /\ Tail(ep[e].senders) \in Seq(Threads)
    BY <2>2, <1>4
  <2>4. r \in EndpointState /\ r.closed = None /\ r.receivers = ep[e].receivers
    BY <1>1, <2>3 DEF EndpointState
  <2> HIDE DEF c, r
  <2>5. ep'[e] = r /\ \A d \in Endpoints \ {e} : ep'[d] = ep[d]
    BY <1>1, <2>1, <2>4, EpTyped
  <2>6. ChannelsKept'
    BY <1>1, <1>3, <2>4, <2>5, ChannelsStay DEF FInv, None
  <2>7. ReceiversKept'
    <3>1. \A d \in Endpoints : ep'[d].receivers = ep[d].receivers
      BY <2>4, <2>5
    <3> QED BY <1>3, <1>9, <2>1, <3>1, ReceiversStay DEF FInv
  <2> QED BY <1>3, <2>6, <2>7, ThreadStep
<1>5. CASE ep[e].senders = <<>>
  <2> DEFINE q == Append(ep[e].receivers, t)
             r == [ep[e] EXCEPT !.receivers = q]
  <2>1. ep' = [ep EXCEPT ![e] = r] /\ wait' = [wait EXCEPT ![t] = place]
    BY <1>5 DEF CommitRecv, Block, e, place
  <2>2. ep[e].receivers \in Seq(Threads)
    BY <1>1 DEF EndpointState
  <2>3. q \in Seq(Threads) /\ ToSet(q) = ToSet(ep[e].receivers) \cup {t}
    BY <2>2, AppendSet
  <2> HIDE DEF q
  <2>4. r \in EndpointState /\ r.closed = None /\ r.receivers = q
    BY <1>1, <2>3 DEF EndpointState
  <2> HIDE DEF r
  <2>5. ep'[e] = r /\ \A d \in Endpoints \ {e} : ep'[d] = ep[d]
    BY <1>1, <2>1, <2>4, EpTyped
  <2>6. ChannelsKept'
    BY <1>1, <1>3, <2>4, <2>5, ChannelsStay DEF FInv, None
  <2>7. ReceiversKept'
    <3>1. \A u \in Threads : u # t => wait'[u] = wait[u]
      BY <2>1 DEF TypeOK
    <3>2. wait'[t] = place
      BY <2>1 DEF TypeOK
    <3>3. \A u \in Threads, d \in Endpoints :
            u \in ToSet(ep[d].receivers) => u \in ToSet(ep'[d].receivers)
      BY <2>3, <2>4, <2>5
    <3>4. t \in ToSet(ep'[e].receivers)
      BY <2>3, <2>4, <2>5
    <3> QED BY <1>2, <1>3, <1>9, <3>1, <3>2, <3>3, <3>4, ReceiversStay DEF FInv
  <2> QED BY <1>3, <2>6, <2>7, ThreadStep
<1> QED BY <1>4, <1>5

LEMMA ReplyStep ==
  ASSUME PdFreezeAssumption, TypeOK, FInv, NEW t \in Threads, CommitReply(t)
  PROVE  FInv'
<1> DEFINE e == entry[t].e
           r == [ep[e] EXCEPT !.caller = None, !.owner = None]
<1>1. e \in Endpoints /\ ep[e] \in EndpointState
  <2>1. e \in Endpoints
    BY EntryTyped DEF CommitReply
  <2> QED BY <2>1 DEF TypeOK
<1>2. ep' = [ep EXCEPT ![e] = r] /\ UNCHANGED <<marked, gate, fz>>
  BY DEF CommitReply
<1>3. /\ r \in EndpointState /\ r.receivers = ep[e].receivers /\ r.senders = ep[e].senders
      /\ r.closed = ep[e].closed /\ ep[e].caller \in Threads \cup {None}
  BY <1>1 DEF EndpointState
<1>4. \A u \in Threads : wait'[u] = wait[u] \/ wait'[u] = User
  BY <1>3 DEF CommitReply, TypeOK
<1> HIDE DEF e, r
<1>5. ep'[e] = r /\ \A d \in Endpoints \ {e} : ep'[d] = ep[d]
  BY <1>1, <1>2, <1>3, EpTyped
<1>6. \A d \in Endpoints : /\ ep'[d].receivers = ep[d].receivers /\ ep'[d].senders = ep[d].senders
                           /\ ep'[d].closed = ep[d].closed
  BY <1>3, <1>5
<1>7. ChannelsKept'
  BY <1>2, <1>6, ChannelsStay DEF FInv
<1>8. ReceiversKept'
  <2>1. \A u \in Threads : wait[u].k = "recv" => wait[u].e \in Endpoints
    BY UserTyped DEF TypeOK
  <2> QED BY <1>2, <1>4, <1>6, <2>1, ReceiversStay DEF FInv, User
<1> QED BY <1>2, <1>7, <1>8, ThreadStep

LEMMA ReloadStep ==
  ASSUME TypeOK, FInv, NEW e \in Endpoints, ReloadCloses(e) \/ ReloadOpens(e)
  PROVE  FInv'
<1>1. ep[e] \in EndpointState
  BY DEF TypeOK
<1>2. PICK w \in {None, "reload"} : ep' = [ep EXCEPT ![e].closed = w]
  BY DEF ReloadCloses, ReloadOpens
<1>3. ep[e].closed # "freezer" /\ UNCHANGED <<wait, marked, gate, fz>>
  BY DEF ReloadCloses, ReloadOpens, None
<1> DEFINE r == [ep[e] EXCEPT !.closed = w]
<1>4. ep' = [ep EXCEPT ![e] = r]
  BY <1>2
<1>5. /\ r \in EndpointState /\ r.receivers = ep[e].receivers /\ r.senders = ep[e].senders
      /\ r.closed # "freezer"
  BY <1>1 DEF EndpointState, None
<1> HIDE DEF r
<1>6. ep'[e] = r /\ \A d \in Endpoints \ {e} : ep'[d] = ep[d]
  BY <1>4, <1>5, EpTyped
<1>7. ChannelsKept'
  BY <1>3, <1>5, <1>6, ChannelsStay DEF FInv
<1>8. ReceiversKept'
  <2>1. \A u \in Threads : wait[u].k = "recv" => wait[u].e \in Endpoints
    BY UserTyped DEF TypeOK
  <2>2. \A d \in Endpoints : ep'[d].receivers = ep[d].receivers
    BY <1>5, <1>6
  <2> QED BY <1>3, <2>1, <2>2, ReceiversStay DEF FInv
<1> QED BY <1>3, <1>7, <1>8, ThreadStep

-----------------------------------------------------------------------------
(* The steps of the freezer                                                *)

\* Back to the start, before any thread has been marked or after all have been thawed: the
\* channels are open again.
LEMMA BackStep ==
  ASSUME TypeOK, FInv, UNCHANGED <<threadState, marked>>,
         fz.pc \in {"idle", "list", "find", "close", "judge", "ungate"},
         ep' = Reopened \/ (UNCHANGED ep /\ fz.shut = {}),
         fz'.pc \in {"idle", "list"}, fz'.pc = "idle" => ~gate',
         fz'.tids = {}, fz'.todo = {}, fz'.shut = {}
  PROVE  FInv'
<1>1. \A e \in Endpoints : ep'[e].closed # "freezer" /\ ep'[e].receivers = ep[e].receivers
  <2>1. CASE ep' = Reopened
    BY <2>1, ReopenedTyped DEF FInv, ChannelsKept, None
  <2>2. CASE UNCHANGED ep /\ fz.shut = {}
    BY <2>2 DEF FInv, ChannelsKept
  <2> QED BY <2>1, <2>2
<1>2. ListKept' /\ MarksKept' /\ ChannelsKept'
  BY <1>1 DEF FInv, ListKept, MarksKept, ChannelsKept
<1>3. ReceiversKept'
  <2>1. \A u \in Threads : wait[u].k = "recv" => wait[u].e \in Endpoints
    BY UserTyped DEF TypeOK
  <2> QED BY <1>1, <2>1 DEF FInv, ReceiversKept, Retired, threadState
<1> QED BY <1>2, <1>3 DEF FInv

LEMMA GiveUpStep ==
  ASSUME PdFreezeAssumption, TypeOK, FInv, UNCHANGED <<threadState, marked>>, GiveUp,
         fz.pc \in {"list", "find", "close", "judge", "ungate"},
         ep' = Reopened \/ (UNCHANGED ep /\ fz.shut = {})
  PROVE  FInv'
BY BackStep, AsleepTyped DEF GiveUp

\* A step that leaves the endpoints and the marks as they are and goes on with the list.
LEMMA OnwardStep ==
  ASSUME TypeOK, FInv, UNCHANGED <<ep, threadState, marked, gate>>,
         fz'.tids = fz.tids, fz'.shut = fz.shut,
         \A t \in fz.tids : fz'.recv[t] = fz.recv[t],
         ListKept', MarksKept', fz'.pc # "idle",
         fz.pc \in {"mark", "settle", "frozen"} =>
           fz'.pc \in {"mark", "settle", "frozen"} \/ (fz'.pc = "bind" /\ fz'.todo = fz.tids),
         fz.pc = "bind" => fz'.pc = "bind" /\ fz'.todo = fz.todo
  PROVE  FInv'
<1>1. ChannelsKept'
  BY DEF FInv, ChannelsKept, ListKept
<1>2. ReceiversKept'
  BY DEF FInv, ReceiversKept, Retired, threadState
<1> QED BY <1>1, <1>2 DEF FInv

LEMMA ListingStep ==
  ASSUME PdFreezeAssumption, TypeOK, FInv, freeze_pd \/ pd_threads \/ Listed
  PROVE  FInv'
<1>0. fz \in FreezerState
  BY DEF TypeOK
<1>1. CASE freeze_pd
  <2>1. fz'.pc = "list" /\ fz'.tids = {} /\ fz'.todo = {} /\ fz'.shut = {}
    <3>1. 0 \in 0 .. Deadline
      BY DEF PdFreezeAssumption
    <3> QED BY <1>1, <3>1, Restarted DEF freeze_pd
  <2> QED BY <1>1, <2>1, BackStep DEF freeze_pd, FInv, ListKept
<1>2. CASE pd_threads
  <2>1. PICK c : fz' = [fz EXCEPT !.cores = @ \ {c}, !.tids = @ \cup Mine(c)]
    BY <1>2 DEF pd_threads
  <2>2. /\ fz'.pc = "list" /\ fz'.todo = fz.todo /\ fz'.shut = {} /\ fz.shut = {}
        /\ fz.tids \subseteq fz'.tids
    BY <1>0, <1>2, <2>1 DEF pd_threads, FreezerState, FInv, ListKept
  <2>3. ListKept' /\ MarksKept' /\ ChannelsKept'
    BY <1>2, <2>2 DEF pd_threads, FInv, ListKept, MarksKept, ChannelsKept
  <2>4. ReceiversKept'
    BY <1>2, <2>2 DEF pd_threads, FInv, ReceiversKept, Retired, threadState
  <2> QED BY <2>2, <2>3, <2>4 DEF FInv
<1>3. CASE Listed
  <2>1. CASE fz.tids = {} \/ Cardinality(fz.tids) > MaxThreads
    BY <1>3, <2>1, GiveUpStep DEF Listed, FInv, ListKept
  <2>2. CASE ~(fz.tids = {} \/ Cardinality(fz.tids) > MaxThreads)
    <3> DEFINE f == [t \in fz.tids |-> KEIN_EP]
    <3>1. fz' = [fz EXCEPT !.pc = "find", !.todo = fz.tids, !.recv = f]
          /\ UNCHANGED <<gate, ep, threadState, marked>> /\ fz.pc = "list"
      BY <1>3, <2>2 DEF Listed
    <3>2. f \in [fz.tids -> 0 .. KEIN_EP]
      BY ConstantsTyped
    <3> HIDE DEF f
    <3>3. /\ fz'.pc = "find" /\ fz'.todo = fz.tids /\ fz'.recv = f /\ fz'.tids = fz.tids
          /\ fz'.shut = fz.shut /\ fz.shut = {}
      BY <1>0, <3>1 DEF FreezerState, FInv, ListKept
    <3>4. ListKept' /\ MarksKept' /\ ChannelsKept'
      BY <3>1, <3>2, <3>3 DEF FInv, ListKept, MarksKept, ChannelsKept
    <3>5. ReceiversKept'
      BY <3>1, <3>3 DEF FInv, ReceiversKept, Retired, threadState
    <3> QED BY <3>3, <3>4, <3>5 DEF FInv
  <2> QED BY <2>1, <2>2
<1> QED BY <1>1, <1>2, <1>3

LEMMA PhaseStep ==
  ASSUME PdFreezeAssumption, TypeOK, FInv,
         Elapse \/ StartJudging \/ StartMarking \/ Settle \/ thaw_pd
  PROVE  FInv'
<1>0. fz \in FreezerState
  BY DEF TypeOK
<1>1. ASSUME fz.pc # "idle", NEW n, fz' = [fz EXCEPT !.ticks = n],
             UNCHANGED <<ep, threadState, marked, gate>>
      PROVE  FInv'
  <2>1. /\ fz'.pc = fz.pc /\ fz'.tids = fz.tids /\ fz'.todo = fz.todo /\ fz'.cur = fz.cur
        /\ fz'.recv = fz.recv /\ fz'.shut = fz.shut
    BY <1>0, <1>1 DEF FreezerState
  <2>2. ListKept' /\ MarksKept'
    BY <1>1, <2>1 DEF FInv, ListKept, MarksKept
  <2> QED BY <1>1, <2>1, <2>2, OnwardStep
<1>2. ASSUME NEW p \in {"judge", "mark", "bind"}, fz' = [fz EXCEPT !.pc = p, !.todo = fz.tids],
             UNCHANGED <<ep, threadState, marked, gate>>,
             \/ fz.pc = "find" /\ p = "judge"
             \/ fz.pc = "judge" /\ p = "mark"
             \/ fz.pc \in {"settle", "frozen"} /\ p = "bind"
      PROVE  FInv'
  <2>1. /\ fz'.pc = p /\ fz'.tids = fz.tids /\ fz'.todo = fz.tids /\ fz'.recv = fz.recv
        /\ fz'.shut = fz.shut
    BY <1>0, <1>2 DEF FreezerState
  <2>2. ListKept'
    BY <1>2, <2>1 DEF FInv, ListKept
  <2>3. MarksKept'
    BY <1>2, <2>1 DEF FInv, MarksKept
  <2> QED BY <1>2, <2>1, <2>2, <2>3, OnwardStep
<1>3. CASE Elapse
  BY <1>1, <1>3 DEF Elapse
<1>4. CASE StartJudging
  BY <1>2, <1>4 DEF StartJudging
<1>5. CASE StartMarking
  BY <1>2, <1>5 DEF StartMarking
<1>6. CASE thaw_pd
  BY <1>2, <1>6 DEF thaw_pd
<1>7. CASE Settle
  <2>1. CASE OffCore
    <3>1. fz' = [fz EXCEPT !.pc = "frozen"] /\ fz.pc = "settle"
          /\ UNCHANGED <<ep, threadState, marked, gate>>
      BY <1>7, <2>1 DEF Settle
    <3>2. /\ fz'.pc = "frozen" /\ fz'.tids = fz.tids /\ fz'.todo = fz.todo /\ fz'.cur = fz.cur
          /\ fz'.recv = fz.recv /\ fz'.shut = fz.shut
      BY <1>0, <3>1 DEF FreezerState
    <3>3. ListKept' /\ MarksKept'
      BY <3>1, <3>2 DEF FInv, ListKept, MarksKept
    <3> QED BY <3>1, <3>2, <3>3, OnwardStep
  <2>2. CASE ~OffCore /\ Late
    BY <1>2, <1>7, <2>2 DEF Settle
  <2>3. CASE ~OffCore /\ ~Late
    BY <1>1, <1>7, <2>3 DEF Settle
  <2> QED BY <2>1, <2>2, <2>3
<1> QED BY <1>3, <1>4, <1>5, <1>6, <1>7

LEMMA FindStep ==
  ASSUME PdFreezeAssumption, TypeOK, FInv, NEW t \in Members, recv_endpoints(t)
  PROVE  FInv'
<1>0. fz \in FreezerState
  BY DEF TypeOK
<1>1. CASE Cardinality(ReceiverAt(t)) > 1
  BY <1>1, GiveUpStep DEF recv_endpoints
<1>2. CASE ~(Cardinality(ReceiverAt(t)) > 1) /\ ReceiverAt(t) = {}
  <2>1. fz' = [fz EXCEPT !.todo = @ \ {t}] /\ UNCHANGED <<ep, gate, threadState, marked>>
        /\ fz.pc = "find"
    BY <1>2 DEF recv_endpoints
  <2>2. /\ fz'.pc = "find" /\ fz'.tids = fz.tids /\ fz'.todo = fz.todo \ {t}
        /\ fz'.recv = fz.recv /\ fz'.shut = fz.shut
    BY <1>0, <2>1 DEF FreezerState
  <2>3. ListKept' /\ MarksKept'
    BY <2>1, <2>2 DEF FInv, ListKept, MarksKept
  <2> QED BY <2>1, <2>2, <2>3, OnwardStep
<1>3. CASE ~(Cardinality(ReceiverAt(t)) > 1) /\ ReceiverAt(t) # {}
  <2> DEFINE v == CHOOSE e \in ReceiverAt(t) : TRUE
             f == [fz.recv EXCEPT ![t] = v]
  <2>1. fz' = [fz EXCEPT !.todo = @ \ {t}, !.pc = "close", !.cur = t, !.recv = f]
        /\ UNCHANGED <<ep, gate, threadState, marked>> /\ fz.pc = "find" /\ t \in fz.todo
    BY <1>3 DEF recv_endpoints
  <2>2. v \in Endpoints
    BY <1>3 DEF ReceiverAt
  <2>3. fz.recv \in [fz.tids -> 0 .. KEIN_EP] /\ t \in fz.tids /\ t \notin fz.shut
    BY <2>1 DEF FInv, ListKept
  <2> HIDE DEF v
  <2>4. /\ f \in [fz.tids -> 0 .. KEIN_EP] /\ f[t] = v
        /\ \A u \in fz.tids \ {t} : f[u] = fz.recv[u]
    BY <2>2, <2>3, ConstantsTyped
  <2> HIDE DEF f
  <2>5. /\ fz'.pc = "close" /\ fz'.tids = fz.tids /\ fz'.todo = fz.todo \ {t}
        /\ fz'.recv = f /\ fz'.shut = fz.shut /\ fz'.cur = t
    BY <1>0, <2>1 DEF FreezerState
  <2>6. ListKept' /\ MarksKept'
    BY <2>1, <2>2, <2>3, <2>4, <2>5 DEF FInv, ListKept, MarksKept
  <2>7. ChannelsKept'
    BY <2>1, <2>3, <2>4, <2>5 DEF FInv, ChannelsKept, ListKept
  <2>8. ReceiversKept'
    BY <2>1, <2>5 DEF FInv, ReceiversKept, Retired, threadState
  <2> QED BY <2>5, <2>6, <2>7, <2>8 DEF FInv
<1> QED BY <1>1, <1>2, <1>3

LEMMA CloseStep ==
  ASSUME PdFreezeAssumption, TypeOK, FInv, begin_quiesce
  PROVE  FInv'
<1> DEFINE t == fz.cur
           e == fz.recv[t]
           r == [ep[e] EXCEPT !.closed = "freezer"]
<1>0. fz \in FreezerState
  BY DEF TypeOK
<1>1. CASE ep[e].senders # <<>>
  BY <1>1, GiveUpStep DEF begin_quiesce
<1>2. CASE ~(ep[e].senders # <<>>) /\ Len(ep[e].receivers) = 1 /\ ep[e].closed = None
  <2>1. e \in Endpoints /\ t \in fz.tids /\ t \notin fz.todo /\ t \notin fz.shut
    BY DEF begin_quiesce, FInv, ListKept
  <2>2. ep[e] \in EndpointState
    BY <2>1 DEF TypeOK
  <2>3. /\ r \in EndpointState /\ r.closed = "freezer" /\ r.senders = <<>>
        /\ r.receivers = ep[e].receivers
    BY <1>2, <2>2 DEF EndpointState
  <2>4. ep' = [ep EXCEPT ![e] = r] /\ fz' = [fz EXCEPT !.pc = "find", !.shut = @ \cup {t}]
        /\ UNCHANGED <<gate, threadState, marked>> /\ fz.pc = "close"
    BY <1>2 DEF begin_quiesce
  <2>5. /\ fz'.pc = "find" /\ fz'.tids = fz.tids /\ fz'.todo = fz.todo
        /\ fz'.recv = fz.recv /\ fz'.shut = fz.shut \cup {t}
    BY <1>0, <2>4 DEF FreezerState
  <2> HIDE DEF r
  <2>6. ep'[e] = r /\ \A d \in Endpoints \ {e} : ep'[d] = ep[d]
    BY <2>1, <2>3, <2>4, EpTyped
  <2>7. ListKept' /\ MarksKept'
    BY <2>1, <2>4, <2>5 DEF FInv, ListKept, MarksKept
  <2>8. ChannelsKept'
    BY <2>1, <2>3, <2>5, <2>6 DEF FInv, ChannelsKept
  <2>9. ReceiversKept'
    <3>1. \A u \in Threads : wait[u].k = "recv" => wait[u].e \in Endpoints
      BY UserTyped DEF TypeOK
    <3>2. \A d \in Endpoints : ep'[d].receivers = ep[d].receivers
      BY <2>3, <2>6
    <3> QED BY <2>4, <2>5, <3>1, <3>2 DEF FInv, ReceiversKept, Retired, threadState
  <2> QED BY <2>5, <2>7, <2>8, <2>9 DEF FInv
<1>3. CASE ~(ep[e].senders # <<>>) /\ ~(Len(ep[e].receivers) = 1 /\ ep[e].closed = None)
  <2>1. UNCHANGED ep /\ fz' = [fz EXCEPT !.pc = "find"] /\ UNCHANGED <<gate, threadState, marked>>
        /\ fz.pc = "close"
    BY <1>3 DEF begin_quiesce
  <2>2. /\ fz'.pc = "find" /\ fz'.tids = fz.tids /\ fz'.todo = fz.todo
        /\ fz'.recv = fz.recv /\ fz'.shut = fz.shut
    BY <1>0, <2>1 DEF FreezerState
  <2>3. ListKept' /\ MarksKept'
    BY <2>1, <2>2 DEF FInv, ListKept, MarksKept
  <2> QED BY <2>1, <2>2, <2>3, OnwardStep
<1> QED BY <1>1, <1>2, <1>3

LEMMA JudgeStep ==
  ASSUME PdFreezeAssumption, TypeOK, FInv, NEW t \in Members, Judge(t)
  PROVE  FInv'
<1>0. fz \in FreezerState /\ fz.pc = "judge" /\ UNCHANGED <<threadState, marked>>
  BY DEF TypeOK, Judge
<1>1. CASE ep' = Reopened /\ GiveUp
  BY <1>0, <1>1, GiveUpStep
<1>2. CASE /\ ~Late /\ ep' = Reopened
           /\ fz' = Attempt(fz.ticks + 1)
  <2> DEFINE n == fz.ticks + 1
  <2>1. n \in 0 .. Deadline
    BY <1>0, <1>2 DEF Late, FreezerState, PdFreezeAssumption
  <2>2. fz' = Attempt(n)
    BY <1>2
  <2> HIDE DEF n
  <2>3. fz'.pc = "list" /\ fz'.tids = {} /\ fz'.todo = {} /\ fz'.shut = {}
    BY <2>1, <2>2, Restarted
  <2> QED BY <1>0, <1>2, <2>3, BackStep
<1>3. CASE fz' = [fz EXCEPT !.todo = @ \ {t}] /\ UNCHANGED <<ep, gate>>
  <2>1. /\ fz'.pc = "judge" /\ fz'.tids = fz.tids /\ fz'.todo = fz.todo \ {t}
        /\ fz'.recv = fz.recv /\ fz'.shut = fz.shut
    BY <1>0, <1>3 DEF FreezerState
  <2>2. ListKept' /\ MarksKept'
    BY <1>0, <2>1 DEF FInv, ListKept, MarksKept
  <2> QED BY <1>0, <1>3, <2>1, <2>2, OnwardStep
<1> QED BY <1>1, <1>2, <1>3 DEF Judge

\* A receiver that is taken out is one the freezer knows where to put back.
LEMMA MarkStep ==
  ASSUME PdFreezeAssumption, TypeOK, FInv, NEW t \in Members, MarkThread(t)
  PROVE  FInv'
<1> DEFINE e == fz.recv[t]
<1>0. fz \in FreezerState /\ fz.pc = "mark" /\ t \in fz.todo /\ marked' = marked \cup {t}
      /\ UNCHANGED <<wait, gate>>
  BY DEF TypeOK, MarkThread
<1>1. fz.recv \in [fz.tids -> 0 .. KEIN_EP] /\ t \in fz.tids /\ e \in 0 .. KEIN_EP
  BY <1>0 DEF FInv, ListKept
<1>2. PICK p \in {"settle", "mark"} : /\ fz' = [fz EXCEPT !.todo = @ \ {t}, !.pc = p]
                                      /\ p = "settle" => fz.todo = {t}
  BY <1>0 DEF MarkThread
<1>3. /\ fz'.pc = p /\ fz'.tids = fz.tids /\ fz'.todo = fz.todo \ {t}
      /\ fz'.recv = fz.recv /\ fz'.shut = fz.shut
  BY <1>0, <1>2 DEF FreezerState
<1>4. ListKept'
  BY <1>0, <1>1, <1>3 DEF FInv, ListKept
<1>5. MarksKept'
  BY <1>0, <1>1, <1>2, <1>3 DEF FInv, MarksKept
<1>6. \A d \in Endpoints :
        /\ ep'[d].closed = ep[d].closed /\ ep'[d].senders = ep[d].senders
        /\ \A u \in Threads : u \in ToSet(ep[d].receivers) =>
             u \in ToSet(ep'[d].receivers) \/ (u = t /\ d = e)
  <2>1. CASE e = KEIN_EP
    BY <2>1 DEF MarkThread
  <2>2. CASE e # KEIN_EP
    <3>1. e \in Endpoints
      BY <1>1, <2>2, ConstantsTyped DEF Endpoints, KEIN_EP
    <3>2. ep[e] \in EndpointState
      BY <3>1 DEF TypeOK
    <3> DEFINE q == Without(ep[e].receivers, t)
               r == [ep[e] EXCEPT !.receivers = q]
    <3>3. ep[e].receivers \in Seq(Threads)
      BY <3>2 DEF EndpointState
    <3>4. q \in Seq(Threads) /\ ToSet(q) = ToSet(ep[e].receivers) \ {t}
      BY <3>3, WithoutLeaves
    <3>5. ep' = [ep EXCEPT ![e] = r]
      BY <2>2 DEF MarkThread
    <3> HIDE DEF q
    <3>6. /\ r \in EndpointState /\ r.closed = ep[e].closed /\ r.senders = ep[e].senders
          /\ r.receivers = q
      BY <3>2, <3>4 DEF EndpointState
    <3> HIDE DEF r, e
    <3>7. ep'[e] = r /\ \A d \in Endpoints \ {e} : ep'[d] = ep[d]
      BY <3>1, <3>5, <3>6, EpTyped
    <3> QED BY <3>4, <3>6, <3>7
  <2> QED BY <2>1, <2>2
<1>7. ChannelsKept'
  BY <1>3, <1>6 DEF FInv, ChannelsKept
<1>8. ReceiversKept'
  <2> SUFFICES ASSUME NEW u \in Threads, wait[u].k = "recv"
               PROVE  u \in ToSet(ep'[wait[u].e].receivers) \/ Retired(u)'
    BY <1>0 DEF ReceiversKept
  <2>1. wait[u].e \in Endpoints
    BY UserTyped DEF TypeOK
  <2>2. CASE Retired(u)
    BY <1>0, <1>3, <2>2 DEF Retired
  <2>3. CASE u \in ToSet(ep[wait[u].e].receivers)
    <3>1. u \in ToSet(ep'[wait[u].e].receivers) \/ (u = t /\ wait[u].e = e)
      BY <1>6, <2>1, <2>3
    <3> QED BY <1>0, <1>1, <1>3, <3>1 DEF Retired
  <2> QED BY <2>2, <2>3 DEF FInv, ReceiversKept
<1> QED BY <1>0, <1>3, <1>4, <1>5, <1>7, <1>8 DEF FInv

LEMMA BindStep ==
  ASSUME PdFreezeAssumption, TypeOK, FInv, NEW t \in Members, bind_receiver(t)
  PROVE  FInv'
<1> DEFINE e == fz.recv[t]
<1>0. fz \in FreezerState /\ fz.pc = "bind" /\ t \in fz.todo
      /\ UNCHANGED <<threadState, gate, marked>> /\ t \in Threads
  BY ConstantsTyped DEF TypeOK, bind_receiver
<1>1. fz.recv \in [fz.tids -> 0 .. KEIN_EP] /\ t \in fz.tids /\ e \in 0 .. KEIN_EP
  BY <1>0 DEF FInv, ListKept
<1>2. PICK p \in {"bind", "open"} : /\ fz' = [fz EXCEPT !.todo = @ \ {t}, !.pc = p]
                                    /\ p = "open" => fz.todo = {t}
  BY <1>0 DEF bind_receiver
<1>3. /\ fz'.pc = p /\ fz'.tids = fz.tids /\ fz'.todo = fz.todo \ {t}
      /\ fz'.recv = fz.recv /\ fz'.shut = fz.shut
  BY <1>0, <1>2 DEF FreezerState
<1>4. ListKept'
  BY <1>0, <1>1, <1>3 DEF FInv, ListKept
<1>5. MarksKept'
  BY <1>0, <1>1, <1>2, <1>3 DEF FInv, MarksKept
<1>6. /\ \A d \in Endpoints :
           /\ ep'[d].closed = ep[d].closed /\ ep'[d].senders = ep[d].senders
           /\ \A u \in Threads : u \in ToSet(ep[d].receivers) => u \in ToSet(ep'[d].receivers)
      /\ e \in Endpoints => t \in ToSet(ep'[e].receivers)
  <2>1. CASE e = KEIN_EP
    BY <2>1, ConstantsTyped DEF bind_receiver
  <2>2. CASE e # KEIN_EP /\ t \in ToSet(ep[e].receivers)
    BY <2>2 DEF bind_receiver
  <2>3. CASE e # KEIN_EP /\ t \notin ToSet(ep[e].receivers)
    <3>1. e \in Endpoints
      BY <1>1, <2>3, ConstantsTyped DEF Endpoints, KEIN_EP
    <3>2. ep[e] \in EndpointState
      BY <3>1 DEF TypeOK
    <3> DEFINE q == Append(ep[e].receivers, t)
               r == [ep[e] EXCEPT !.receivers = q]
    <3>3. ep[e].receivers \in Seq(Threads)
      BY <3>2 DEF EndpointState
    <3>4. q \in Seq(Threads) /\ ToSet(q) = ToSet(ep[e].receivers) \cup {t}
      BY <1>0, <3>3, AppendSet
    <3>5. ep' = [ep EXCEPT ![e] = r]
      BY <2>3 DEF bind_receiver
    <3> HIDE DEF q
    <3>6. /\ r \in EndpointState /\ r.closed = ep[e].closed /\ r.senders = ep[e].senders
          /\ r.receivers = q
      BY <3>2, <3>4 DEF EndpointState
    <3> HIDE DEF r, e
    <3>7. ep'[e] = r /\ \A d \in Endpoints \ {e} : ep'[d] = ep[d]
      BY <3>1, <3>5, <3>6, EpTyped
    <3> QED BY <3>4, <3>6, <3>7
  <2> QED BY <2>1, <2>2, <2>3
<1>7. ChannelsKept'
  BY <1>3, <1>6 DEF FInv, ChannelsKept
<1>8. ReceiversKept'
  <2> SUFFICES ASSUME NEW u \in Threads, wait[u].k = "recv"
               PROVE  u \in ToSet(ep'[wait[u].e].receivers) \/ Retired(u)'
    BY <1>0 DEF ReceiversKept, threadState
  <2>1. wait[u].e \in Endpoints
    BY UserTyped DEF TypeOK
  <2>2. CASE Retired(u) /\ u = t
    <3>1. wait[u].e = e
      BY <2>2 DEF Retired
    <3> QED BY <1>6, <2>1, <2>2, <3>1
  <2>3. CASE Retired(u) /\ u # t
    BY <1>0, <1>2, <1>3, <2>3 DEF Retired, threadState
  <2>4. CASE u \in ToSet(ep[wait[u].e].receivers)
    BY <1>6, <2>1, <2>4
  <2> QED BY <2>2, <2>3, <2>4 DEF FInv, ReceiversKept
<1> QED BY <1>0, <1>3, <1>4, <1>5, <1>7, <1>8 DEF FInv

LEMMA ThawStep ==
  ASSUME PdFreezeAssumption, TypeOK, FInv,
         end_quiesce \/ OpenGate \/ \E t \in Members : thaw_group(t)
  PROVE  FInv'
<1>0. fz \in FreezerState
  BY DEF TypeOK
<1>1. CASE end_quiesce
  <2>1. /\ fz'.pc = "thaw" /\ fz'.tids = fz.tids /\ fz'.todo = fz.tids
        /\ fz'.recv = fz.recv /\ fz'.shut = {} /\ fz.pc = "open" /\ ep' = Reopened
    BY <1>0, <1>1 DEF FreezerState, end_quiesce
  <2>2. \A e \in Endpoints : ep'[e].closed # "freezer" /\ ep'[e].receivers = ep[e].receivers
    BY <2>1, ReopenedTyped DEF FInv, ChannelsKept, None
  <2>3. ListKept' /\ MarksKept' /\ ChannelsKept'
    BY <1>1, <2>1, <2>2 DEF FInv, ListKept, MarksKept, ChannelsKept, end_quiesce
  <2>4. ReceiversKept'
    <3>1. \A u \in Threads : wait[u].k = "recv" => wait[u].e \in Endpoints
      BY UserTyped DEF TypeOK
    <3> QED BY <1>1, <2>1, <2>2, <3>1 DEF FInv, ReceiversKept, Retired, threadState, end_quiesce
  <2> QED BY <2>1, <2>3, <2>4 DEF FInv
<1>2. CASE OpenGate
  BY <1>2, GiveUpStep DEF OpenGate, FInv, ListKept
<1>3. ASSUME NEW t \in Members, thaw_group(t) PROVE FInv'
  <2>1. PICK p \in {"thaw", "ungate"} : /\ fz' = [fz EXCEPT !.todo = @ \ {t}, !.pc = p]
                                        /\ p = "ungate" => fz.todo = {t}
    BY <1>3 DEF thaw_group
  <2>2. /\ fz'.pc = p /\ fz'.tids = fz.tids /\ fz'.todo = fz.todo \ {t}
        /\ fz'.recv = fz.recv /\ fz'.shut = fz.shut /\ fz.pc = "thaw" /\ marked' = marked \ {t}
        /\ UNCHANGED <<ep, wait, gate>>
    BY <1>0, <1>3, <2>1 DEF FreezerState, thaw_group
  <2>3. ListKept' /\ MarksKept' /\ ChannelsKept'
    BY <2>1, <2>2 DEF FInv, ListKept, MarksKept, ChannelsKept
  <2>4. ReceiversKept'
    BY <2>2 DEF FInv, ReceiversKept, Retired
  <2> QED BY <2>2, <2>3, <2>4 DEF FInv
<1> QED BY <1>1, <1>2, <1>3

LEMMA FInvStep ==
  ASSUME PdFreezeAssumption, TypeOK, FInv, [Next]_vars PROVE FInv'
<1>1. CASE UNCHANGED vars
  BY <1>1, CoresStep DEF vars
<1>2. CASE Next
  <2>1. ASSUME NEW t \in Threads,
               \/ Dispatch(t) \/ Preempt(t) \/ DebugStop(t) \/ DebugResume(t) \/ CommitRefused(t)
               \/ \E c \in Cores : Balance(t, c)
               \/ \E e \in Endpoints, k \in {"call", "recv", "reply"} : Enter(t, k, e)
               \/ admit(t) \/ \E u \in Members : spawn(t, u)
        PROVE  FInv'
    <3>1. UNCHANGED <<ep, wait, marked, gate, fz>>
      BY <2>1 DEF Dispatch, Preempt, DebugStop, DebugResume, CommitRefused, Balance, Enter,
                   admit, spawn
    <3> QED BY <3>1, CoresStep
  <2> QED BY <1>2, <2>1, CallStep, RecvStep, ReplyStep, ReloadStep, ListingStep, PhaseStep,
             FindStep, CloseStep, JudgeStep, MarkStep, BindStep, ThawStep DEF Next, Freezer
<1> QED BY <1>1, <1>2

LEMMA FInvInit ==
  ASSUME PdFreezeAssumption, Init PROVE FInv
<1>1. /\ fz.pc = "idle" /\ fz.tids = {} /\ fz.todo = {} /\ fz.shut = {} /\ marked = {} /\ ~gate
  BY AsleepTyped DEF Init
<1>2. \A e \in Endpoints : ep[e].closed = None
  BY DEF Init
<1>3. \A t \in Threads : wait[t].k = "user"
  BY UserTyped DEF Init, User
<1> QED BY <1>1, <1>2, <1>3 DEF FInv, ListKept, MarksKept, ChannelsKept, ReceiversKept, None

\* The inductive invariant, through every interleaving of system calls, debugger, hot reload,
\* migration and freezer: the types, and that the list of the freezer, its marks, the channels it
\* has closed and the receivers it has taken out agree with its place in freeze_pd and thaw_pd.
THEOREM FreezeInvariant == ASSUME PdFreezeAssumption PROVE Spec => [](TypeOK /\ FInv)
<1>1. Init => TypeOK /\ FInv
  BY TypeInit, FInvInit
<1>2. TypeOK /\ FInv /\ [Next]_vars => (TypeOK /\ FInv)'
  BY TypeStep, FInvStep DEF FInv
<1> QED BY <1>1, <1>2, PTL DEF Spec

\* freeze_pd leaves all or nothing behind, however the freeze ended and whatever the other cores
\* did meanwhile: with no freeze under way the gate is open, no thread carries the freeze reason,
\* no channel is closed by a freezer, and every thread blocked in RECV is entered at its endpoint.
THEOREM FreezeAllOrNothing == ASSUME PdFreezeAssumption PROVE Spec => []AllOrNothing
<1>1. TypeOK /\ FInv => AllOrNothing
  <2> SUFFICES ASSUME TypeOK, FInv, fz.pc = "idle" PROVE AllOrNothing
    BY DEF AllOrNothing
  <2>1. ~gate /\ marked = {} /\ \A e \in Endpoints : ep[e].closed # "freezer"
    BY DEF FInv, MarksKept, ListKept, ChannelsKept
  <2>2. \A t \in Threads : wait[t].k = "recv" => t \in ToSet(ep[wait[t].e].receivers)
    BY DEF FInv, ReceiversKept, Retired
  <2> QED BY <2>1, <2>2 DEF AllOrNothing
<1> QED BY <1>1, FreezeInvariant, PTL

-----------------------------------------------------------------------------
(* A frozen domain stands still                                            *)

LEMMA WholeStep ==
  ASSUME PdFreezeAssumption, ~Balancing, TypeOK, FInv, ListWhole, [Next]_vars
  PROVE  ListWhole'
<1>0. /\ fz \in FreezerState /\ fz.seen \subseteq Members
      /\ \A t \in Members : loc[t] \in Cores /\ birth[t] \in BirthState
  BY ConstantsTyped DEF TypeOK, FreezerState
<1>1. ASSUME UNCHANGED <<birth, loc, marked, fz>>, on' \subseteq on PROVE ListWhole'
  BY <1>1 DEF ListWhole, SeenKept
<1>2. ASSUME NEW t \in Threads, Dispatch(t) PROVE ListWhole'
  <2>1. Grown(t) /\ UNCHANGED <<loc, marked, fz>> /\ on' = on \cup {t}
    BY <1>2, DequeuedGrows DEF Dispatch
  <2>2. SeenKept'
    BY <1>0, <2>1 DEF Grown, ListWhole, SeenKept
  <2>3. fz.pc = "frozen" => t \notin fz.seen
    <3> SUFFICES ASSUME fz.pc = "frozen", t \in fz.seen PROVE FALSE
      OBVIOUS
    <3>1. t \in marked /\ t \in Members /\ birth[t].st = "live"
      BY <1>0 DEF FInv, MarksKept, ListWhole, SeenKept
    <3> QED BY <1>2, <3>1 DEF Dispatch, Queued, Ready
  <2> QED BY <2>1, <2>2, <2>3 DEF ListWhole
<1>3. ASSUME UNCHANGED <<birth, loc, on, marked>>, fz'.tids = fz.tids, fz'.seen = fz.seen,
             fz'.pc \notin {"idle", "list"}, fz.pc \notin {"idle", "list"},
             fz'.pc = "frozen" => on \cap fz.tids = {}
      PROVE  ListWhole'
  BY <1>3 DEF ListWhole, SeenKept
<1>4. ASSUME fz' = Asleep PROVE ListWhole'
  BY <1>4, AsleepTyped DEF ListWhole, SeenKept
<1>5. ASSUME NEW n \in 0 .. Deadline, fz' = Attempt(n), fz.pc \in {"idle", "judge"},
             UNCHANGED <<birth, loc, marked>>
      PROVE  ListWhole'
  <2>1. fz'.pc = "list" /\ fz'.cores = Cores /\ fz'.seen = Admitted
    BY <1>5, Restarted
  <2>2. marked' = {}
    BY <1>5 DEF FInv, MarksKept
  <2>3. \A t \in Admitted : t \in Members /\ birth[t].st \in {"live", "slipped"} /\ birth[t].by = None
    BY DEF Admitted
  <2> QED BY <1>0, <1>5, <2>1, <2>2, <2>3 DEF ListWhole, SeenKept
<1>6. CASE freeze_pd
  <2>1. 0 \in 0 .. Deadline
    BY DEF PdFreezeAssumption
  <2> QED BY <1>5, <1>6, <2>1 DEF freeze_pd, threadState
<1>7. CASE pd_threads
  <2>1. PICK c : fz' = [fz EXCEPT !.cores = @ \ {c}, !.tids = @ \cup Mine(c)]
    BY <1>7 DEF pd_threads
  <2>2. /\ fz'.pc = "list" /\ fz'.cores = fz.cores \ {c} /\ fz'.tids = fz.tids \cup Mine(c)
        /\ fz'.seen = fz.seen /\ fz.pc = "list" /\ UNCHANGED <<birth, loc, marked>>
    BY <1>0, <1>7, <2>1 DEF pd_threads, FreezerState, threadState
  <2>3. SeenKept'
    BY <2>2 DEF ListWhole, SeenKept
  <2>4. \A t \in fz.seen : Present(t) /\ t \in Members
    BY <1>0 DEF ListWhole, SeenKept, Present
  <2> QED BY <2>2, <2>3, <2>4 DEF ListWhole, Mine
<1>8. CASE Listed
  <2>1. CASE GiveUp
    BY <1>4, <2>1, AsleepTyped DEF GiveUp
  <2>2. CASE ~GiveUp
    <3>1. fz' = [fz EXCEPT !.pc = "find", !.todo = fz.tids, !.recv = [t \in fz.tids |-> KEIN_EP]]
      BY <1>8, <2>2 DEF Listed
    <3>2. /\ fz'.pc = "find" /\ fz'.tids = fz.tids /\ fz'.seen = fz.seen
          /\ UNCHANGED <<birth, marked>>
      BY <1>0, <1>8, <3>1 DEF FreezerState, Listed, threadState
    <3>3. fz.seen \subseteq fz.tids
      BY <1>8 DEF Listed, ListWhole
    <3> QED BY <3>2, <3>3 DEF ListWhole, SeenKept
  <2> QED BY <2>1, <2>2
<1>9. CASE Elapse
  <2>1. /\ fz'.pc = fz.pc /\ fz'.tids = fz.tids /\ fz'.seen = fz.seen /\ fz'.cores = fz.cores
        /\ UNCHANGED <<birth, marked, loc, on>>
    BY <1>0, <1>9 DEF Elapse, FreezerState, threadState
  <2> QED BY <2>1 DEF ListWhole, SeenKept
<1>10. CASE StartJudging \/ StartMarking \/ thaw_pd
  <2>1. /\ fz'.tids = fz.tids /\ fz'.seen = fz.seen /\ fz'.pc \in {"judge", "mark", "bind"}
        /\ fz.pc \notin {"idle", "list"} /\ UNCHANGED <<birth, loc, on, marked>>
    BY <1>0, <1>10 DEF StartJudging, StartMarking, thaw_pd, FreezerState, threadState
  <2> QED BY <1>3, <2>1
<1>11. CASE Settle
  <2>1. /\ fz'.tids = fz.tids /\ fz'.seen = fz.seen /\ fz'.pc \in {"settle", "frozen", "bind"}
        /\ fz.pc = "settle" /\ UNCHANGED <<birth, loc, on, marked>> /\ (fz'.pc = "frozen" => OffCore)
    BY <1>0, <1>11 DEF Settle, FreezerState, threadState
  <2> QED BY <1>3, <2>1 DEF OffCore
<1>12. CASE begin_quiesce
  <2>1. CASE GiveUp
    BY <1>4, <2>1, AsleepTyped DEF GiveUp
  <2>2. CASE ~GiveUp
    <3>1. /\ fz'.tids = fz.tids /\ fz'.seen = fz.seen /\ fz'.pc = "find" /\ fz.pc = "close" /\ UNCHANGED <<birth, loc, on, marked>>
      BY <1>0, <1>12, <2>2 DEF begin_quiesce, FreezerState, threadState
    <3> QED BY <1>3, <3>1
  <2> QED BY <2>1, <2>2
<1>13. CASE end_quiesce
  <2>1. fz'.tids = fz.tids /\ fz'.seen = fz.seen /\ fz'.pc = "thaw" /\ fz.pc = "open" /\ UNCHANGED <<birth, loc, on, marked>>
    BY <1>0, <1>13 DEF end_quiesce, FreezerState, threadState
  <2> QED BY <1>3, <2>1
<1>14. CASE OpenGate
  BY <1>4, <1>14, AsleepTyped DEF OpenGate, GiveUp
<1>15. ASSUME NEW t \in Members, recv_endpoints(t) PROVE ListWhole'
  <2>1. CASE GiveUp
    BY <1>4, <2>1, AsleepTyped DEF GiveUp
  <2>2. CASE ~GiveUp
    <3>1. /\ fz'.tids = fz.tids /\ fz'.seen = fz.seen /\ fz'.pc \in {"find", "close"} /\ fz.pc = "find"
          /\ UNCHANGED <<birth, loc, on, marked>>
      BY <1>0, <1>15, <2>2 DEF recv_endpoints, FreezerState, threadState
    <3> QED BY <1>3, <3>1
  <2> QED BY <2>1, <2>2
<1>16. ASSUME NEW t \in Members, Judge(t) PROVE ListWhole'
  <2>1. CASE GiveUp
    BY <1>4, <2>1, AsleepTyped DEF GiveUp
  <2>2. CASE ~Late /\ fz' = Attempt(fz.ticks + 1)
    <3> DEFINE n == fz.ticks + 1
    <3>1. n \in 0 .. Deadline
      BY <1>0, <2>2 DEF Late, FreezerState, PdFreezeAssumption
    <3>2. fz' = Attempt(n) /\ fz.pc = "judge" /\ UNCHANGED <<birth, loc, marked>>
      BY <1>16, <2>2 DEF Judge, threadState
    <3> HIDE DEF n
    <3> QED BY <1>5, <3>1, <3>2
  <2>3. CASE fz' = [fz EXCEPT !.todo = @ \ {t}]
    <3>1. fz'.tids = fz.tids /\ fz'.seen = fz.seen /\ fz'.pc = "judge" /\ fz.pc = "judge" /\ UNCHANGED <<birth, loc, on, marked>>
      BY <1>0, <1>16, <2>3 DEF Judge, FreezerState, threadState
    <3> QED BY <1>3, <3>1
  <2> QED BY <1>16, <2>1, <2>2, <2>3 DEF Judge
<1>17. ASSUME NEW t \in Members, MarkThread(t) \/ bind_receiver(t) \/ thaw_group(t)
       PROVE  ListWhole'
  <2>1. PICK p \in {"mark", "settle", "bind", "open", "thaw", "ungate"} :
          fz' = [fz EXCEPT !.todo = @ \ {t}, !.pc = p]
    BY <1>17 DEF MarkThread, bind_receiver, thaw_group
  <2>2. /\ fz'.tids = fz.tids /\ fz'.seen = fz.seen /\ fz'.pc = p
        /\ fz.pc \in {"mark", "bind", "thaw"} /\ UNCHANGED <<loc, on>>
    BY <1>0, <1>17, <2>1 DEF MarkThread, bind_receiver, thaw_group, FreezerState, threadState
  <2>3. SeenKept'
    <3>1. CASE bind_receiver(t)
      BY <2>2, <3>1 DEF bind_receiver, threadState, ListWhole, SeenKept
    <3>2. CASE MarkThread(t)
      <4>1. Grown(t) /\ birth'[t].st # "slipped" /\ marked' = marked \cup {t}
        BY <3>2, DequeuedGrows DEF MarkThread
      <4> QED BY <1>0, <2>2, <4>1 DEF ListWhole, SeenKept, Grown
    <3>3. CASE thaw_group(t)
      <4>1. Grown(t) /\ marked' = marked \ {t}
        BY <3>3, RousedGrows DEF thaw_group
      <4> QED BY <1>0, <2>2, <4>1 DEF ListWhole, SeenKept, Grown
    <3> QED BY <1>17, <3>1, <3>2, <3>3
  <2> QED BY <2>2, <2>3 DEF ListWhole
<1>18. ASSUME NEW t \in Threads, \/ Preempt(t) \/ CommitRefused(t) \/ CommitCall(t) \/ CommitRecv(t)
                                 \/ CommitReply(t)
                                 \/ \E c \in Cores : Balance(t, c)
                                 \/ \E e \in Endpoints, k \in {"call", "recv", "reply"} : Enter(t, k, e)
       PROVE  ListWhole'
  <2>1. UNCHANGED <<birth, loc, marked, fz>> /\ on' \subseteq on
    BY <1>18 DEF Preempt, CommitRefused, CommitCall, CommitRecv, CommitReply, Balance, Enter, Block
  <2> QED BY <1>1, <2>1
<1>19. ASSUME NEW e \in Endpoints, ReloadCloses(e) \/ ReloadOpens(e) PROVE ListWhole'
  BY <1>1, <1>19 DEF ReloadCloses, ReloadOpens
<1>20. CASE UNCHANGED vars
  BY <1>1, <1>20 DEF vars
<1>21. ASSUME NEW t \in Threads, DebugStop(t) \/ DebugResume(t) PROVE ListWhole'
  <2>1. Grown(t) /\ UNCHANGED <<loc, on, marked, fz>>
    BY <1>21, DequeuedGrows, RousedGrows DEF DebugStop, DebugResume, TypeOK
  <2>2. SeenKept'
    BY <1>0, <2>1 DEF Grown, ListWhole, SeenKept
  <2> QED BY <2>1, <2>2 DEF ListWhole
<1>22. ASSUME NEW t \in Threads, admit(t) PROVE ListWhole'
  <2>1. t \notin fz.seen /\ UNCHANGED <<loc, on, marked, fz>>
    BY <1>22 DEF admit, ListWhole, SeenKept
  <2>2. \A u \in fz.seen : birth'[u] = birth[u]
    BY <1>0, <1>22, <2>1 DEF admit, TypeOK
  <2> QED BY <2>1, <2>2 DEF ListWhole, SeenKept
<1>23. ASSUME NEW t \in Threads, NEW u \in Members, spawn(t, u) PROVE ListWhole'
  <2>1. u \notin fz.seen /\ UNCHANGED <<on, marked, fz>>
    BY <1>23 DEF spawn, Present, ListWhole, SeenKept
  <2>2. \A x \in fz.seen : birth'[x] = birth[x] /\ loc'[x] = loc[x]
    BY <1>0, <1>23, <2>1, ConstantsTyped DEF spawn, TypeOK
  <2> QED BY <2>1, <2>2 DEF ListWhole, SeenKept
<1> QED BY <1>2, <1>6, <1>7, <1>8, <1>9, <1>10, <1>11, <1>12, <1>13, <1>14, <1>15, <1>16, <1>17,
           <1>18, <1>19, <1>20, <1>21, <1>22, <1>23 DEF Next, Freezer

\* What the witness FrozenPd stands for, as long as no thread migrates between the readings of
\* the cores: the cut holds every thread whose SPAWN was over when the freezer began to list, and
\* none of them executes anywhere until it is thawed, however many threads the domain spawns
\* meanwhile; and a channel closed on behalf of a receiver has no caller in its queue.
THEOREM FreezeStandsStill == ASSUME PdFreezeAssumption PROVE Spec => []FrozenStandsStill
<1>1. CASE Balancing
  <2>1. FrozenStandsStill
    BY <1>1 DEF FrozenStandsStill
  <2> QED BY <2>1, PTL
<1>2. CASE ~Balancing
  <2>1. Init => ListWhole
    BY AsleepTyped DEF Init, ListWhole, SeenKept
  <2>2. TypeOK /\ FInv /\ ListWhole /\ [Next]_vars => ListWhole'
    BY <1>2, WholeStep
  <2>3. TypeOK /\ FInv /\ ListWhole => FrozenStandsStill
    BY DEF FInv, ListWhole, FrozenStandsStill, FrozenStands, SealedChannel, ChannelsKept
  <2> QED BY <2>1, <2>2, <2>3, FreezeInvariant, PTL DEF Spec
<1> QED BY <1>1, <1>2

-----------------------------------------------------------------------------
(* The freezer and the hot reload                                          *)

LEMMA ReceiversOnly ==
  ASSUME TypeOK, NEW x, NEW q, ep' = [ep EXCEPT ![x].receivers = q], NEW d \in Endpoints
  PROVE  ep'[d].closed = ep[d].closed
<1>1. ep[d] \in EndpointState
  BY DEF TypeOK
<1> QED BY <1>1 DEF TypeOK, EndpointState

\* Two owners of one flag: the freezer opens no channel that an exchange of servers has closed,
\* neither when it gives up nor when it thaws (ep_gesperrt remembers who closed it).
THEOREM AlienLock == ASSUME PdFreezeAssumption PROVE Spec => AlienLockStands
<1>1. ASSUME TypeOK, FInv, [Next]_vars, NEW e \in Endpoints, ep[e].closed = "reload", fz' # fz
      PROVE  ep'[e].closed = "reload"
  <2>1. Reopened[e].closed = "reload"
    BY <1>1, ReopenedTyped DEF FInv, ChannelsKept
  <2>2. CASE ep' = Reopened \/ UNCHANGED ep
    BY <1>1, <2>1, <2>2
  <2>3. CASE begin_quiesce
    <3>1. ASSUME NEW x, ep' = [ep EXCEPT ![x].closed = "freezer"], ep[x].closed = None
          PROVE  ep'[e].closed = "reload"
      BY <1>1, <3>1 DEF TypeOK, None
    <3> QED BY <2>2, <2>3, <3>1 DEF begin_quiesce
  <2>4. ASSUME NEW t \in Members, MarkThread(t) PROVE ep'[e].closed = "reload"
    <3>1. CASE fz.recv[t] # KEIN_EP
      <4>1. ep' = [ep EXCEPT ![fz.recv[t]].receivers = Without(ep[fz.recv[t]].receivers, t)]
        BY <2>4, <3>1 DEF MarkThread
      <4> QED BY <1>1, <4>1, ReceiversOnly
    <3> QED BY <2>2, <2>4, <3>1 DEF MarkThread
  <2>5. ASSUME NEW t \in Members, bind_receiver(t) PROVE ep'[e].closed = "reload"
    <3>1. CASE fz.recv[t] # KEIN_EP /\ t \notin ToSet(ep[fz.recv[t]].receivers)
      <4>1. ep' = [ep EXCEPT ![fz.recv[t]].receivers = Append(ep[fz.recv[t]].receivers, t)]
        BY <2>5, <3>1 DEF bind_receiver
      <4> QED BY <1>1, <4>1, ReceiversOnly
    <3> QED BY <2>2, <2>5, <3>1 DEF bind_receiver
  <2>6. CASE freeze_pd \/ thaw_pd \/ Elapse \/ Freezer
    BY <2>2, <2>3, <2>4, <2>5, <2>6
       DEF freeze_pd, thaw_pd, Elapse, Freezer, pd_threads, Listed, StartJudging, StartMarking,
           Settle, end_quiesce, OpenGate, recv_endpoints, Judge, thaw_group
  <2> QED BY <1>1, <2>6
          DEF Next, vars, Dispatch, Preempt, DebugStop, DebugResume, CommitRefused, CommitCall,
              CommitRecv, CommitReply, Balance, Enter, admit, spawn, ReloadCloses, ReloadOpens
<1>2. TypeOK /\ FInv /\ [Next]_vars
      => [\A e \in Endpoints : ep[e].closed = "reload" /\ fz' # fz => ep'[e].closed = "reload"]_vars
  BY <1>1
<1> QED BY <1>2, FreezeInvariant, PTL DEF Spec, AlienLockStands

-----------------------------------------------------------------------------
(* Redirected calls: the invariant                                         *)

Full == {"HANDLER", "IPC"}
Frame == {<<>>} \cup (Guests \X Nat \X {"req", "res", "ipc", "cap", "gone"})
Bind == [hp : Pds \cup {Nobody}, slot : Slots]
GuestRec == [st : {"user", "ablegen", "mark", "call", "wait", "stuck", "dead"}, bind : Bind, b : Bind,
             why : SUBSET Full, n : Nat, frame : Frame]
EpRec == [senders : Seq(Guests), receivers : Seq(Handlers), caller : Guests \cup {Nobody},
          owner : Handlers \cup {Nobody}, shut : BOOLEAN]
HandlerRec == [at : {"idle", "enter", "recv", "got", "serve", "reply", "transfer", "wake", "dead"},
               slot : Slots, req : Frame, guest : Guests \cup {Nobody}]

CTypes ==
  /\ th \in [Guests -> GuestRec]
  /\ sidecar \in [Pds -> [Slots -> Frame]]
  /\ hep \in [Pds -> EpRec]
  /\ ht \in [Handlers -> HandlerRec]
  /\ ctl = [c \in Ctls |-> CIdle]

\* A trap works with the binding of the guest, and no two guests have the same slot.
Bindings ==
  /\ \A g \in Guests : th[g].st \notin {"user", "dead"} =>
       th[g].b = th[g].bind /\ th[g].bind.hp \in Pds
  /\ \A g, x \in Guests : g # x /\ Live(g) /\ Live(x) /\ th[g].bind.hp # Nobody =>
       th[g].bind # th[x].bind

\* What is in the slot of a guest: its call, or the result.
InSlot(g, kind) == sidecar[th[g].bind.hp][th[g].bind.slot] = <<g, th[g].n, kind>>

\* Who is blocked with both reasons at p; who has had the reply but not the result.
Asks(g, p) == th[g].st = "wait" /\ th[g].bind.hp = p /\ th[g].why = Full
HalfWay(g, p) ==
  /\ th[g].st = "wait" /\ th[g].bind.hp = p /\ th[g].why = {"HANDLER"} /\ InSlot(g, "res")

Where(g) ==
  LET p == th[g].bind.hp IN
  \/ g \in ToSet(hep[p].senders) \/ hep[p].caller = g
  \/ \E h \in Handlers : ht[h].guest = g /\ ht[h].at = "wake" /\ PdOf[h] = p

GuestTrue(g) ==
  /\ th[g].st = "user" => th[g].why = {}
  /\ th[g].st = "user" /\ th[g].n > 0 => th[g].frame \in {<<g, th[g].n, "res">>, <<g, th[g].n, "ipc">>}
  /\ th[g].st = "ablegen" => th[g].why = {}
  /\ th[g].st = "mark" => th[g].why = {} /\ InSlot(g, "req")
  /\ th[g].st = "call" => th[g].why = {"HANDLER"} /\ InSlot(g, "req")
  /\ th[g].st = "wait" => 
       /\ "HANDLER" \in th[g].why
       /\ \/ Where(g)
          \/ th[g].why = {"HANDLER"} /\ th[g].frame \in {<<g, th[g].n, "cap">>, <<g, th[g].n, "gone">>}

EpTrue(p) ==
  /\ Len(hep[p].senders) <= QCap /\ SingleIn(hep[p].senders) /\ hep[p].caller \notin ToSet(hep[p].senders)
  /\ \A g \in ToSet(hep[p].senders) : Asks(g, p) /\ InSlot(g, "req")
  /\ hep[p].receivers = <<>> \/ \E h \in Handlers :
       PdOf[h] = p /\ hep[p].receivers = <<h>> /\ ht[h].at = "recv"
  /\ hep[p].caller # Nobody => Asks(hep[p].caller, p) /\ \E h \in Handlers : PdOf[h] = p /\ hep[p].owner = h

\* What a handler thread has in hand: the call of the caller, or of a guest that has died since.
HandlerTrue(h) ==
  LET p == PdOf[h] g == hep[p].caller IN
  /\ ht[h].at \in {"idle", "enter", "recv", "wake", "dead"} => g = Nobody
  /\ ht[h].at \in {"got", "serve"} =>
       \A x \in Guests : Live(x) /\ th[x].bind = [hp |-> p, slot |-> ht[h].slot] => g = x
  /\ ht[h].at = "got" /\ g # Nobody => th[g].bind.slot = ht[h].slot /\ InSlot(g, "req")
  /\ ht[h].at = "serve" /\ g # Nobody => th[g].bind.slot = ht[h].slot /\ ht[h].req = <<g, th[g].n, "req">>
  /\ ht[h].at \in {"reply", "transfer"} /\ g # Nobody => InSlot(g, "res")
  /\ ht[h].at = "transfer" => ht[h].guest = g \/ (g = Nobody /\ ~Live(ht[h].guest))
  /\ ht[h].at = "wake" => ht[h].guest = Nobody \/ ~Live(ht[h].guest) \/ HalfWay(ht[h].guest, p)

CInv ==
  /\ CTypes /\ Bindings
  /\ \A g \in Guests : GuestTrue(g)
  /\ \A p \in Pds : EpTrue(p)
  /\ \A h \in Handlers : HandlerTrue(h)

-----------------------------------------------------------------------------
(* Redirected calls: steps of a trap                                       *)

LEMMA CallTypes ==
  ASSUME CTypes
  PROVE  /\ \A g \in Guests : th[g] \in GuestRec /\ th[g].bind \in Bind /\ th[g].n \in Nat
         /\ \A p \in Pds : /\ hep[p] \in EpRec /\ hep[p].senders \in Seq(Guests)
                           /\ hep[p].receivers \in Seq(Handlers) /\ hep[p].caller \in Guests \cup {Nobody}
         /\ \A h \in Handlers : ht[h] \in HandlerRec /\ ht[h].guest \in Guests \cup {Nobody}
  BY DEF CTypes, GuestRec, EpRec, HandlerRec

\* The slots of two live guests are different places.
LEMMA OtherSlot ==
  ASSUME CTypes, Bindings, NEW g \in Guests, NEW x \in Guests, g # x, Live(g), Live(x),
         th[g].bind.hp # Nobody
  PROVE  th[x].bind.hp = th[g].bind.hp => th[x].bind.slot # th[g].bind.slot
PROOF
  <1>1. th[g].bind \in Bind /\ th[x].bind \in Bind BY CallTypes
  <1>2. th[g].bind # th[x].bind BY DEF Bindings
  <1> QED BY <1>1, <1>2 DEF Bind

\* Guest g goes on in its trap and has not yet reached the endpoint.
OnTheWay(g) ==
  /\ th[g].st \in {"user", "ablegen", "mark", "call"} /\ th[g].bind.hp \in Pds
  /\ th'[g].st \in {"ablegen", "mark", "call", "stuck"}
  /\ th'[g].bind = th[g].bind /\ th'[g].b = th[g].bind
  /\ \A x \in Guests : x # g => th'[x] = th[x]
  /\ \A p \in Pds, s \in Slots : [hp |-> p, slot |-> s] # th[g].bind => sidecar'[p][s] = sidecar[p][s]
  /\ UNCHANGED <<pds, hep, ht, ctl>>

LEMMA TrapStep ==
  ASSUME RedirectAssumption, CInv, NEW g \in Guests, OnTheWay(g), CTypes', GuestTrue(g)'
  PROVE  CInv'
PROOF
  <1>0. CTypes /\ Bindings BY DEF CInv
  <1>1. Live(g) /\ Live(g)' /\ \A x \in Guests : Live(x)' <=> Live(x) BY DEF OnTheWay, Live
  <1>2. \A x \in Guests : th'[x].bind = th[x].bind BY DEF OnTheWay
  <1>3. Bindings'
    <2>1. ASSUME NEW x \in Guests, th'[x].st \notin {"user", "dead"}
          PROVE  th'[x].b = th'[x].bind /\ th'[x].bind.hp \in Pds
      BY <2>1, <1>0 DEF OnTheWay, Bindings
    <2>2. ASSUME NEW x \in Guests, NEW y \in Guests, x # y, Live(x)', Live(y)', th'[x].bind.hp # Nobody
          PROVE  th'[x].bind # th'[y].bind
      BY <2>2, <1>0, <1>1, <1>2 DEF Bindings
    <2> QED BY <2>1, <2>2 DEF Bindings
  <1>4. ASSUME NEW x \in Guests, x # g, th[x].st \notin {"user", "dead"}
        PROVE  \A k : InSlot(x, k)' <=> InSlot(x, k)
    <2>1. Live(x) /\ th[x].bind.hp \in Pds /\ th[x].bind \in Bind BY <1>0, <1>4, CallTypes DEF Bindings, Live
    <2>2. [hp |-> th[x].bind.hp, slot |-> th[x].bind.slot] = th[x].bind /\ th[x].bind.slot \in Slots
      BY <2>1 DEF Bind
    <2>3. th[x].bind # th[g].bind
      BY <2>1, <1>0, <1>1, <1>4, OtherSlot DEF OnTheWay, RedirectAssumption
    <2>4. sidecar'[th[x].bind.hp][th[x].bind.slot] = sidecar[th[x].bind.hp][th[x].bind.slot]
      BY <2>1, <2>2, <2>3 DEF OnTheWay
    <2> QED BY <2>4, <1>4 DEF InSlot, OnTheWay
  <1>5. ASSUME NEW x \in Guests, NEW p, Asks(x, p) PROVE x # g /\ Asks(x, p)'
    BY <1>5 DEF Asks, OnTheWay
  <1>6. \A x \in Guests : GuestTrue(x)'
    <2> SUFFICES ASSUME NEW x \in Guests, x # g PROVE GuestTrue(x)' OBVIOUS
    <2>1. GuestTrue(x) BY DEF CInv
    <2>2. Where(x)' <=> Where(x) BY DEF Where, OnTheWay
    <2>3. th'[x] = th[x] /\ pds' = pds BY DEF OnTheWay
    <2> QED BY <2>1, <2>2, <2>3, <1>4 DEF GuestTrue
  <1>7. \A p \in Pds : EpTrue(p)'
    <2> SUFFICES ASSUME NEW p \in Pds PROVE EpTrue(p)' OBVIOUS
    <2>1. EpTrue(p) /\ hep'[p] = hep[p] /\ ht' = ht BY DEF CInv, OnTheWay
    <2>2. ToSet(hep[p].senders) \subseteq Guests /\ hep[p].caller \in Guests \cup {Nobody}
      BY <1>0, CallTypes, SeqSet
    <2>3. \A x \in ToSet(hep[p].senders) : Asks(x, p)' /\ InSlot(x, "req")'
      BY <2>1, <2>2, <1>4, <1>5 DEF EpTrue, Asks
    <2>4. hep[p].caller # Nobody => Asks(hep[p].caller, p)' BY <2>1, <2>2, <1>5 DEF EpTrue
    <2> QED BY <2>1, <2>3, <2>4 DEF EpTrue
  <1>8. \A h \in Handlers : HandlerTrue(h)'
    <2> SUFFICES ASSUME NEW h \in Handlers PROVE HandlerTrue(h)' OBVIOUS
    <2> DEFINE p == PdOf[h]
    <2>1. HandlerTrue(h) /\ UNCHANGED <<hep, ht, pds>> /\ p \in Pds BY DEF CInv, OnTheWay, RedirectAssumption
    <2>0. PICK c \in Guests \cup {Nobody}, k \in Guests \cup {Nobody} : c = hep[p].caller /\ k = ht[h].guest
      BY <2>1, <1>0, CallTypes
    <2>2. EpTrue(p) BY <2>1 DEF CInv
    <2>3. c # Nobody => c # g /\ th'[c] = th[c] /\ th[c].st = "wait" /\ \A i : InSlot(c, i)' <=> InSlot(c, i)
      BY <2>0, <2>2, <1>4, <1>5 DEF EpTrue, Asks, OnTheWay
    <2>4. k # Nobody /\ ~Live(k) => ~Live(k)' BY <1>1
    <2>5. k # Nobody /\ HalfWay(k, p) => HalfWay(k, p)'
      <3> SUFFICES ASSUME k \in Guests, HalfWay(k, p) PROVE HalfWay(k, p)' OBVIOUS
      <3>1. th[k].st = "wait" /\ k # g BY DEF HalfWay, OnTheWay
      <3>2. th'[k] = th[k] BY <3>1 DEF OnTheWay
      <3>3. InSlot(k, "res")' <=> InSlot(k, "res") BY <3>1, <1>4
      <3> QED BY <3>2, <3>3 DEF HalfWay
    <2>6. ht[h].at = "transfer" => k = c \/ (c = Nobody /\ ~Live(k)')
      BY <2>0, <2>1, <2>4 DEF HandlerTrue
    <2>7. ht[h].at = "wake" => k = Nobody \/ ~Live(k)' \/ HalfWay(k, p)'
      BY <2>0, <2>1, <2>4, <2>5 DEF HandlerTrue
    <2>8. ht[h].at \in {"got", "serve"} =>
            \A x \in Guests : Live(x)' /\ th'[x].bind = [hp |-> p, slot |-> ht[h].slot] => c = x
      BY <2>0, <2>1, <1>1, <1>2 DEF HandlerTrue
    <2> QED BY <2>0, <2>1, <2>3, <2>6, <2>7, <2>8 DEF HandlerTrue
  <1> QED BY <1>3, <1>6, <1>7, <1>8 DEF CInv

LEMMA DispatchInv == ASSUME RedirectAssumption, CInv, NEW g \in Guests, dispatch(g) PROVE CInv'
PROOF
  <1> DEFINE used == handler_lebt(th[g].bind.hp)
             st == IF used THEN "ablegen" ELSE "stuck"
             w == IF used THEN {} ELSE {"HANDLER"}
             m == th[g].n + 1
             r == [th[g] EXCEPT !.n = m, !.b = th[g].bind, !.st = st, !.why = w]
  <1>0. CTypes /\ Bindings /\ GuestTrue(g) BY DEF CInv
  <1>1. th[g] \in GuestRec /\ th[g].n \in Nat /\ th[g].bind \in Bind BY <1>0, CallTypes
  <1>2. w \in SUBSET Full /\ st \in {"ablegen", "stuck"} /\ m \in Nat /\ (st = "ablegen" => w = {})
    BY <1>1 DEF Full
  <1>3. th' = [th EXCEPT ![g] = r] BY <1>0, <1>1 DEF dispatch, CTypes, GuestRec
  <1> HIDE DEF st, w, m, used
  <1>4. r \in GuestRec /\ r.bind = th[g].bind /\ r.b = th[g].bind /\ r.st = st /\ r.why = w
    BY <1>1, <1>2 DEF GuestRec
  <1> HIDE DEF r
  <1>5. th'[g] = r /\ th' \in [Guests -> GuestRec] /\ \A x \in Guests : x # g => th'[x] = th[x]
    BY <1>0, <1>3, <1>4 DEF CTypes
  <1>6. UNCHANGED <<pds, sidecar, hep, ht, ctl>> BY DEF dispatch
  <1>7. CTypes' BY <1>0, <1>5, <1>6 DEF CTypes
  <1>8. th[g].st = "user" /\ th[g].bind.hp \in Pds BY <1>1 DEF dispatch, Bind
  <1>9. OnTheWay(g) BY <1>2, <1>4, <1>5, <1>6, <1>8 DEF OnTheWay
  <1>10. GuestTrue(g)' BY <1>2, <1>4, <1>5 DEF GuestTrue
  <1> QED BY <1>7, <1>9, <1>10, TrapStep

LEMMA AblegenInv == ASSUME RedirectAssumption, CInv, NEW g \in Guests, sidecar_ablegen(g) PROVE CInv'
PROOF
  <1> DEFINE p == th[g].bind.hp
             s == th[g].bind.slot
             f == <<g, th[g].n, "req">>
  <1>0. CTypes /\ Bindings /\ GuestTrue(g) BY DEF CInv
  <1>1. th[g] \in GuestRec /\ th[g].n \in Nat /\ th[g].bind \in Bind BY <1>0, CallTypes
  <1>2. th[g].st = "ablegen" /\ th[g].b = th[g].bind /\ p \in Pds /\ s \in Slots
    BY <1>0, <1>1 DEF sidecar_ablegen, Bindings, Bind
  <1>3. th[g].why = {} BY <1>0, <1>2 DEF GuestTrue
  <1>4. th' = [th EXCEPT ![g].st = "mark"] /\ sidecar' = [sidecar EXCEPT ![p][s] = f]
    BY <1>2 DEF sidecar_ablegen
  <1>5. /\ th' \in [Guests -> GuestRec] /\ \A x \in Guests : x # g => th'[x] = th[x]
        /\ th'[g].st = "mark" /\ th'[g].why = {} /\ th'[g].n = th[g].n
        /\ th'[g].bind = th[g].bind /\ th'[g].b = th[g].bind
    BY <1>0, <1>1, <1>2, <1>3, <1>4 DEF CTypes, GuestRec
  <1>6. UNCHANGED <<pds, hep, ht, ctl>> BY DEF sidecar_ablegen
  <1>7. f \in Frame BY <1>1 DEF Frame
  <1> HIDE DEF f, p, s
  <1>8. /\ sidecar' \in [Pds -> [Slots -> Frame]] /\ sidecar'[p][s] = f
        /\ \A q \in Pds, i \in Slots : q # p \/ i # s => sidecar'[q][i] = sidecar[q][i]
    BY <1>0, <1>2, <1>4, <1>7 DEF CTypes
  <1>9. CTypes' BY <1>0, <1>5, <1>6, <1>8 DEF CTypes
  <1>10. [hp |-> p, slot |-> s] = th[g].bind BY <1>1 DEF Bind, p, s
  <1>11. OnTheWay(g) BY <1>2, <1>5, <1>6, <1>8, <1>10 DEF OnTheWay, p
  <1>12. GuestTrue(g)' BY <1>5, <1>8 DEF GuestTrue, InSlot, p, s, f
  <1> QED BY <1>9, <1>11, <1>12, TrapStep

LEMMA MarkInv == ASSUME RedirectAssumption, CInv, NEW g \in Guests, mark_handler_wait(g) PROVE CInv'
PROOF
  <1>0. CTypes /\ Bindings /\ GuestTrue(g) BY DEF CInv
  <1>1. th[g] \in GuestRec BY <1>0, CallTypes
  <1>2. th[g].st = "mark" /\ th[g].b = th[g].bind /\ th[g].bind.hp \in Pds BY <1>0 DEF mark_handler_wait, Bindings
  <1>3. InSlot(g, "req") BY <1>0, <1>2 DEF GuestTrue
  <1>4. /\ th' \in [Guests -> GuestRec] /\ \A x \in Guests : x # g => th'[x] = th[x]
        /\ th'[g].st = "call" /\ th'[g].why = {"HANDLER"} /\ th'[g].n = th[g].n
        /\ th'[g].bind = th[g].bind /\ th'[g].b = th[g].bind
    BY <1>0, <1>1, <1>2 DEF mark_handler_wait, CTypes, GuestRec, Full
  <1>5. UNCHANGED <<pds, sidecar, hep, ht, ctl>> BY DEF mark_handler_wait
  <1>6. CTypes' BY <1>0, <1>4, <1>5 DEF CTypes
  <1>7. OnTheWay(g) BY <1>2, <1>4, <1>5 DEF OnTheWay
  <1>8. GuestTrue(g)' BY <1>3, <1>4, <1>5 DEF GuestTrue, InSlot
  <1> QED BY <1>6, <1>7, <1>8, TrapStep

LEMMA RefusedInv ==
  ASSUME RedirectAssumption, CInv, NEW g \in Guests, th[g].st = "call",
         th' = [th EXCEPT ![g].st = "stuck"], UNCHANGED <<pds, sidecar, hep, ht, ctl>>
  PROVE  CInv'
PROOF
  <1>0. CTypes /\ Bindings BY DEF CInv
  <1>1. th[g] \in GuestRec BY <1>0, CallTypes
  <1>2. th[g].b = th[g].bind /\ th[g].bind.hp \in Pds BY <1>0 DEF Bindings
  <1>3. /\ th' \in [Guests -> GuestRec] /\ \A x \in Guests : x # g => th'[x] = th[x]
        /\ th'[g].st = "stuck" /\ th'[g].bind = th[g].bind /\ th'[g].b = th[g].bind
    BY <1>0, <1>1, <1>2 DEF CTypes, GuestRec
  <1>4. CTypes' BY <1>0, <1>3 DEF CTypes
  <1>5. OnTheWay(g) BY <1>2, <1>3 DEF OnTheWay
  <1>6. GuestTrue(g)' BY <1>3 DEF GuestTrue
  <1> QED BY <1>4, <1>5, <1>6, TrapStep

-----------------------------------------------------------------------------
(* Redirected calls: steps at one endpoint                                 *)

\* A step concerns p: its endpoint, its window, its handler threads, the guests bound to it.
LocalAt(p) ==
  /\ \A x \in Guests : /\ th'[x].bind = th[x].bind /\ (Live(x)' <=> Live(x))
                       /\ th[x].bind.hp # p => th'[x] = th[x]
                       /\ th'[x].st \notin {"user", "dead"} => th'[x].b = th'[x].bind /\ th'[x].bind.hp \in Pds
  /\ \A q \in Pds : q # p => hep'[q] = hep[q] /\ sidecar'[q] = sidecar[q]
  /\ \A h \in Handlers : PdOf[h] # p => ht'[h] = ht[h]

GuestsAt(p) == {x \in Guests : th[x].bind.hp = p}
HandlersAt(p) == {h \in Handlers : PdOf[h] = p}

LEMMA LocalStep ==
  ASSUME RedirectAssumption, CInv, NEW p \in Pds, LocalAt(p), CTypes',
         \A x \in GuestsAt(p) : GuestTrue(x)', EpTrue(p)', \A h \in HandlersAt(p) : HandlerTrue(h)'
  PROVE  CInv'
PROOF
  <1>0. CTypes /\ Bindings BY DEF CInv
  <1>1. Bindings' BY <1>0 DEF Bindings, LocalAt
  <1>2. ASSUME NEW x \in Guests, th[x].bind.hp # p, th[x].bind.hp \in Pds
        PROVE  \A k : InSlot(x, k)' <=> InSlot(x, k)
    BY <1>2 DEF InSlot, LocalAt
  <1>3. ASSUME NEW x \in Guests PROVE GuestTrue(x)'
    <2>1. CASE x \in GuestsAt(p) BY <2>1
    <2>2. CASE x \notin GuestsAt(p)
      <3>1. GuestTrue(x) /\ th'[x] = th[x] /\ th[x].bind.hp # p
        BY <2>2 DEF CInv, LocalAt, GuestsAt
      <3>2. th[x].st \notin {"user", "dead"} => th[x].bind.hp \in Pds BY <1>0 DEF Bindings
      <3>3. th[x].bind.hp \in Pds => (Where(x)' <=> Where(x)) BY <3>1 DEF Where, LocalAt
      <3> QED BY <3>1, <3>2, <3>3, <1>2 DEF GuestTrue
    <2> QED BY <2>1, <2>2
  <1>4. ASSUME NEW q \in Pds PROVE EpTrue(q)'
    <2>1. CASE q = p BY <2>1
    <2>2. CASE q # p
      <3>1. EpTrue(q) /\ hep'[q] = hep[q] BY <2>2 DEF CInv, LocalAt
      <3>2. ToSet(hep[q].senders) \subseteq Guests /\ hep[q].caller \in Guests \cup {Nobody}
        BY <1>0, CallTypes, SeqSet
      <3>3. \A x \in Guests : Asks(x, q) => Asks(x, q)' /\ (InSlot(x, "req") => InSlot(x, "req")')
        BY <2>2, <1>2 DEF Asks, LocalAt
      <3>4. \A h \in Handlers : PdOf[h] = q => ht'[h] = ht[h] BY <2>2 DEF LocalAt
      <3>5. \A x \in ToSet(hep[q].senders) : Asks(x, q)' /\ InSlot(x, "req")' BY <3>1, <3>2, <3>3 DEF EpTrue
      <3>6. hep[q].caller # Nobody => Asks(hep[q].caller, q)'
        <4>1. PICK c \in Guests \cup {Nobody} : c = hep[q].caller BY <3>2
        <4>2. c # Nobody => Asks(c, q)' BY <4>1, <3>1, <3>3 DEF EpTrue
        <4> QED BY <4>1, <4>2, <3>1
      <3> QED BY <3>1, <3>4, <3>5, <3>6 DEF EpTrue
    <2> QED BY <2>1, <2>2
  <1>5. ASSUME NEW h \in Handlers PROVE HandlerTrue(h)'
    <2>1. CASE h \in HandlersAt(p) BY <2>1
    <2>2. CASE h \notin HandlersAt(p)
      <3> DEFINE q == PdOf[h]
      <3>1. HandlerTrue(h) /\ ht'[h] = ht[h] /\ hep'[q] = hep[q] /\ q \in Pds /\ q # p
        BY <2>2 DEF CInv, LocalAt, HandlersAt, RedirectAssumption
      <3>2. PICK c \in Guests \cup {Nobody}, k \in Guests \cup {Nobody} : c = hep[q].caller /\ k = ht[h].guest
        BY <3>1, <1>0, CallTypes
      <3>3. c # Nobody => th'[c] = th[c] /\ \A i : InSlot(c, i)' <=> InSlot(c, i)
        <4>1. EpTrue(q) BY <3>1 DEF CInv
        <4>2. c # Nobody => th[c].bind.hp = q BY <3>2, <4>1 DEF EpTrue, Asks
        <4> QED BY <4>2, <3>1, <1>2 DEF LocalAt
      <3>4. k # Nobody /\ HalfWay(k, q) => HalfWay(k, q)'
        BY <3>1, <1>2 DEF HalfWay, LocalAt
      <3>5. k # Nobody /\ ~Live(k) => ~Live(k)' BY DEF LocalAt
      <3>6. ht[h].at = "transfer" => k = c \/ (c = Nobody /\ ~Live(k)')
        BY <3>1, <3>2, <3>5 DEF HandlerTrue
      <3>7. ht[h].at = "wake" => k = Nobody \/ ~Live(k)' \/ HalfWay(k, q)'
        BY <3>1, <3>2, <3>4, <3>5 DEF HandlerTrue
      <3>8. ht[h].at \in {"got", "serve"} =>
              \A x \in Guests : Live(x)' /\ th'[x].bind = [hp |-> q, slot |-> ht[h].slot] => c = x
        BY <3>1, <3>2 DEF HandlerTrue, LocalAt
      <3> QED BY <3>1, <3>2, <3>3, <3>6, <3>7, <3>8 DEF HandlerTrue
    <2> QED BY <2>1, <2>2
  <1> QED BY <1>1, <1>3, <1>4, <1>5 DEF CInv

\* With one handler thread at p: nobody else is there.
LEMMA OnlyHandler ==
  ASSUME FixedBindings, NEW h \in Handlers, NEW p, PdOf[h] = p
  PROVE  HandlersAt(p) = {h}
  BY DEF FixedBindings, HandlersAt

\* A waiting guest of the PD of a handler thread that answers nobody at the moment.
LEMMA StillWaiting ==
  ASSUME FixedBindings, CInv, NEW h \in Handlers, NEW p \in Pds, PdOf[h] = p, ht[h].at # "wake",
         NEW x \in Guests, Where(x), th[x].bind.hp = p
  PROVE  x \in ToSet(hep[p].senders) \/ hep[p].caller = x
PROOF
  <1>1. HandlersAt(p) = {h} BY OnlyHandler
  <1>2. \A k \in Handlers : PdOf[k] = p => k = h BY <1>1 DEF HandlersAt
  <1> QED BY <1>2 DEF Where

\* Endpoint::call finds a handler thread that waits.
LEMMA DeliverInv ==
  ASSUME RedirectAssumption, FixedBindings, CInv, NEW g \in Guests, zustellen(g),
         ~hep[th[g].bind.hp].shut, hep[th[g].bind.hp].receivers # <<>>
  PROVE  CInv'
PROOF
  <1>0. CTypes /\ Bindings /\ GuestTrue(g) BY DEF CInv
  <1>1. PICK p \in Pds, s \in Slots :
          /\ th[g].bind.hp = p /\ th[g].bind.slot = s
          /\ th[g].st = "call" /\ th[g].b = th[g].bind /\ th[g] \in GuestRec
    BY <1>0, CallTypes DEF zustellen, Bindings, Bind
  <1>2. EpTrue(p) /\ hep[p] \in EpRec /\ hep[p].senders \in Seq(Guests) BY <1>0, CallTypes DEF CInv
  <1>3. PICK h \in Handlers : PdOf[h] = p /\ hep[p].receivers = <<h>> /\ ht[h].at = "recv"
    BY <1>1, <1>2 DEF EpTrue
  <1>4. HandlerTrue(h) /\ ht[h] \in HandlerRec BY <1>0, CallTypes DEF CInv
  <1>5. Head(hep[p].receivers) = h /\ Tail(hep[p].receivers) = <<>> BY <1>3
  <1>6. /\ th' = [th EXCEPT ![g].why = {"HANDLER", "IPC"}, ![g].st = "wait"]
        /\ hep' = [hep EXCEPT ![p].receivers = Tail(@), ![p].caller = g, ![p].owner = h]
        /\ ht' = [ht EXCEPT ![h].at = "got", ![h].slot = s]
        /\ UNCHANGED <<pds, sidecar, ctl>>
    BY <1>1, <1>5 DEF zustellen
  <1>7. /\ th' \in [Guests -> GuestRec] /\ \A x \in Guests : x # g => th'[x] = th[x]
        /\ th'[g].st = "wait" /\ th'[g].why = Full /\ th'[g].n = th[g].n
        /\ th'[g].bind = th[g].bind /\ th'[g].b = th[g].bind
    BY <1>0, <1>1, <1>6 DEF CTypes, GuestRec, Full
  <1>8. /\ hep' \in [Pds -> EpRec] /\ \A q \in Pds : q # p => hep'[q] = hep[q]
        /\ hep'[p].senders = hep[p].senders /\ hep'[p].receivers = <<>> /\ hep'[p].caller = g
        /\ hep'[p].owner = h
    <2>1. <<>> \in Seq(Handlers) OBVIOUS
    <2>2. hep' = [hep EXCEPT ![p].receivers = <<>>, ![p].caller = g, ![p].owner = h] BY <1>1, <1>2, <1>5, <1>6 DEF EpRec
    <2> QED BY <2>1, <2>2, <1>0, <1>1, <1>2 DEF CTypes, EpRec
  <1>9. /\ ht' \in [Handlers -> HandlerRec] /\ \A k \in Handlers : k # h => ht'[k] = ht[k]
        /\ ht'[h].at = "got" /\ ht'[h].slot = s /\ ht'[h].guest = ht[h].guest
    BY <1>0, <1>1, <1>4, <1>6 DEF CTypes, HandlerRec
  <1>10. CTypes' BY <1>0, <1>6, <1>7, <1>8, <1>9 DEF CTypes
  <1>11. HandlersAt(p) = {h} BY <1>3, OnlyHandler
  <1>12. hep[p].caller = Nobody BY <1>3, <1>4 DEF HandlerTrue
  <1>13. \A x \in ToSet(hep[p].senders) : x \in Guests /\ x # g /\ Asks(x, p) /\ InSlot(x, "req")
    BY <1>1, <1>2, SeqSet DEF EpTrue, Asks
  <1>14. InSlot(g, "req")' /\ \A x \in Guests : \A k : InSlot(x, k)' <=> InSlot(x, k)
    BY <1>0, <1>1, <1>6, <1>7 DEF InSlot, GuestTrue
  <1>15. LocalAt(p)
    <2>1. \A x \in Guests : th[x].bind.hp # p => x # g BY <1>1
    <2>2. \A x \in Guests : th'[x].st \notin {"user", "dead"} => th'[x].b = th'[x].bind /\ th'[x].bind.hp \in Pds
      BY <1>0, <1>1, <1>7 DEF Bindings
    <2> QED BY <2>1, <2>2, <1>1, <1>3, <1>6, <1>7, <1>8, <1>9 DEF LocalAt, Live
  <1>16. \A x \in GuestsAt(p) : GuestTrue(x)'
    <2> SUFFICES ASSUME NEW x \in GuestsAt(p) PROVE GuestTrue(x)' OBVIOUS
    <2>1. CASE x = g
      <3>1. Where(g)' BY <1>1, <1>7, <1>8 DEF Where
      <3> QED BY <2>1, <3>1, <1>7 DEF GuestTrue, Full
    <2>2. CASE x # g
      <3>1. x \in Guests /\ th[x].bind.hp = p /\ GuestTrue(x) /\ th'[x] = th[x]
        BY <2>2, <1>7 DEF GuestsAt, CInv
      <3>2. x # Nobody BY <3>1 DEF RedirectAssumption
      <3>3. Where(x) => x \in ToSet(hep[p].senders) BY <3>1, <3>2, <1>1, <1>3, <1>12, StillWaiting
      <3>4. Where(x) => Where(x)' BY <3>1, <3>3, <1>8 DEF Where
      <3> QED BY <3>1, <3>4, <1>6, <1>14 DEF GuestTrue
    <2> QED BY <2>1, <2>2
  <1>17. EpTrue(p)'
    <2>1. g \notin ToSet(hep[p].senders) BY <1>13
    <2>2. \A x \in ToSet(hep[p].senders) : Asks(x, p)' /\ InSlot(x, "req")' BY <1>7, <1>13, <1>14 DEF Asks
    <2>3. Asks(g, p)' BY <1>1, <1>7 DEF Asks
    <2> QED BY <2>1, <2>2, <2>3, <1>2, <1>3, <1>8 DEF EpTrue
  <1>18. \A k \in HandlersAt(p) : HandlerTrue(k)'
    <2> SUFFICES HandlerTrue(h)' BY <1>11
    <2>2. ASSUME NEW x \in Guests, Live(x)', th'[x].bind = [hp |-> p, slot |-> s] PROVE x = g
      <3>1. th[x].bind = [hp |-> p, slot |-> s] /\ Live(x) BY <2>2, <1>15 DEF LocalAt
      <3>2. th[g].bind = [hp |-> p, slot |-> s] BY <1>1 DEF GuestRec, Bind
      <3>3. Live(g) /\ p # Nobody BY <1>1 DEF Live, RedirectAssumption
      <3> QED BY <3>1, <3>2, <3>3, <1>0 DEF Bindings
    <2> QED BY <2>2, <1>3, <1>6, <1>7, <1>8, <1>9, <1>14, <1>1 DEF HandlerTrue
  <1> QED BY <1>1, <1>10, <1>15, <1>16, <1>17, <1>18, LocalStep

\* Endpoint::call finds nobody and has room.
LEMMA QueueInv ==
  ASSUME RedirectAssumption, FixedBindings, CInv, NEW g \in Guests, zustellen(g),
         ~hep[th[g].bind.hp].shut, hep[th[g].bind.hp].receivers = <<>>,
         Len(hep[th[g].bind.hp].senders) # QCap
  PROVE  CInv'
PROOF
  <1>0. CTypes /\ Bindings /\ GuestTrue(g) BY DEF CInv
  <1>1. PICK p \in Pds : /\ th[g].bind.hp = p /\ th[g].st = "call" /\ th[g].b = th[g].bind
                         /\ th[g] \in GuestRec
    BY <1>0, CallTypes DEF zustellen, Bindings
  <1>2. EpTrue(p) /\ hep[p] \in EpRec /\ hep[p].senders \in Seq(Guests) BY <1>0, CallTypes DEF CInv
  <1> DEFINE Q == Append(hep[p].senders, g)
  <1>3. \A x \in ToSet(hep[p].senders) : x \in Guests /\ x # g /\ Asks(x, p) /\ InSlot(x, "req")
    BY <1>1, <1>2, SeqSet DEF EpTrue, Asks
  <1>4. Q \in Seq(Guests) /\ ToSet(Q) = ToSet(hep[p].senders) \cup {g} /\ SingleIn(Q)
    BY <1>2, <1>3, AppendSet, AppendSingle DEF EpTrue
  <1>5. Len(Q) <= QCap
    <2>1. Len(Q) = Len(hep[p].senders) + 1 /\ Len(hep[p].senders) \in Nat BY <1>2
    <2>2. Len(hep[p].senders) <= QCap /\ Len(hep[p].senders) # QCap /\ QCap \in Nat
      BY <1>1, <1>2 DEF EpTrue, RedirectAssumption
    <2> HIDE DEF Q
    <2> QED BY <2>1, <2>2
  <1>6. /\ th' = [th EXCEPT ![g].why = {"HANDLER", "IPC"}, ![g].st = "wait"]
        /\ hep' = [hep EXCEPT ![p].senders = Q]
        /\ UNCHANGED <<pds, sidecar, ht, ctl>>
    BY <1>1 DEF zustellen
  <1> HIDE DEF Q
  <1>7. /\ th' \in [Guests -> GuestRec] /\ \A x \in Guests : x # g => th'[x] = th[x]
        /\ th'[g].st = "wait" /\ th'[g].why = Full /\ th'[g].n = th[g].n
        /\ th'[g].bind = th[g].bind /\ th'[g].b = th[g].bind
    BY <1>0, <1>1, <1>6 DEF CTypes, GuestRec, Full
  <1>8. /\ hep' \in [Pds -> EpRec] /\ \A q \in Pds : q # p => hep'[q] = hep[q]
        /\ hep'[p].senders = Q /\ hep'[p].receivers = hep[p].receivers /\ hep'[p].caller = hep[p].caller
        /\ hep'[p].owner = hep[p].owner
    BY <1>0, <1>2, <1>4, <1>6 DEF CTypes, EpRec
  <1>9. CTypes' BY <1>0, <1>6, <1>7, <1>8 DEF CTypes
  <1>10. InSlot(g, "req")' /\ \A x \in Guests : \A k : InSlot(x, k)' <=> InSlot(x, k)
    BY <1>0, <1>1, <1>6, <1>7 DEF InSlot, GuestTrue
  <1>11. LocalAt(p)
    <2>1. \A x \in Guests : th[x].bind.hp # p => x # g BY <1>1
    <2>2. \A x \in Guests : th'[x].st \notin {"user", "dead"} => th'[x].b = th'[x].bind /\ th'[x].bind.hp \in Pds
      BY <1>0, <1>1, <1>7 DEF Bindings
    <2> QED BY <2>1, <2>2, <1>1, <1>6, <1>7, <1>8 DEF LocalAt, Live
  <1>12. \A x \in GuestsAt(p) : GuestTrue(x)'
    <2> SUFFICES ASSUME NEW x \in GuestsAt(p) PROVE GuestTrue(x)' OBVIOUS
    <2>1. CASE x = g
      <3>1. Where(g)' BY <1>1, <1>4, <1>7, <1>8 DEF Where
      <3> QED BY <2>1, <3>1, <1>7 DEF GuestTrue, Full
    <2>2. CASE x # g
      <3>1. x \in Guests /\ th[x].bind.hp = p /\ GuestTrue(x) /\ th'[x] = th[x]
        BY <2>2, <1>7 DEF GuestsAt, CInv
      <3>2. Where(x) => Where(x)' BY <3>1, <1>4, <1>6, <1>8 DEF Where
      <3> QED BY <3>1, <3>2, <1>6, <1>10 DEF GuestTrue
    <2> QED BY <2>1, <2>2
  <1>13. PICK c \in Guests \cup {Nobody} : c = hep[p].caller BY <1>2 DEF EpRec
  <1>14. c # Nobody => c # g /\ Asks(c, p) /\ th'[c] = th[c] BY <1>1, <1>2, <1>7, <1>13 DEF EpTrue, Asks
  <1>15. EpTrue(p)'
    <2>1. c \notin ToSet(Q)
      <3>1. Nobody # g BY DEF RedirectAssumption
      <3> QED BY <3>1, <1>2, <1>4, <1>13, <1>14 DEF EpTrue
    <2>2. \A x \in ToSet(Q) : Asks(x, p)' /\ InSlot(x, "req")' BY <1>1, <1>3, <1>4, <1>7, <1>10 DEF Asks
    <2>3. c # Nobody => Asks(c, p)' BY <1>14 DEF Asks
    <2> QED BY <2>1, <2>2, <2>3, <1>2, <1>4, <1>5, <1>6, <1>8, <1>13 DEF EpTrue
  <1>16. \A h \in HandlersAt(p) : HandlerTrue(h)'
    <2> SUFFICES ASSUME NEW h \in Handlers, PdOf[h] = p PROVE HandlerTrue(h)' BY DEF HandlersAt
    <2>1. HandlerTrue(h) BY DEF CInv
    <2>2. PICK k \in Guests \cup {Nobody} : k = ht[h].guest BY <1>0, CallTypes
    <2>3. k # Nobody /\ ~Live(k) => ~Live(k)' BY <1>11 DEF LocalAt
    <2>4. k # Nobody /\ HalfWay(k, p) => HalfWay(k, p)' BY <1>1, <1>7, <1>10 DEF HalfWay
    <2>5. ht[h].at = "transfer" => k = c \/ (c = Nobody /\ ~Live(k)')
      BY <1>13, <2>1, <2>2, <2>3 DEF HandlerTrue
    <2>6. ht[h].at = "wake" => k = Nobody \/ ~Live(k)' \/ HalfWay(k, p)'
      BY <2>1, <2>2, <2>3, <2>4 DEF HandlerTrue
    <2>7. ht[h].at \in {"got", "serve"} =>
            \A x \in Guests : Live(x)' /\ th'[x].bind = [hp |-> p, slot |-> ht[h].slot] => c = x
      BY <1>11, <1>13, <2>1 DEF HandlerTrue, LocalAt
    <2>8. ht' = ht /\ pds' = pds /\ hep'[p].caller = c /\ (c # Nobody => th'[c] = th[c])
      BY <1>6, <1>8, <1>13, <1>14
    <2>9. c # Nobody => \A i : InSlot(c, i)' <=> InSlot(c, i) BY <1>10
    <2> QED BY <2>1, <2>2, <2>5, <2>6, <2>7, <2>8, <2>9, <1>13 DEF HandlerTrue
  <1> QED BY <1>9, <1>11, <1>12, <1>15, <1>16, LocalStep

LEMMA ZustellenInv ==
  ASSUME RedirectAssumption, FixedBindings, CInv, NEW g \in Guests, zustellen(g)
  PROVE  CInv'
PROOF
  <1>1. th[g].st = "call" /\ th[g].b = th[g].bind BY DEF zustellen, CInv, Bindings
  <1> DEFINE e == hep[th[g].bind.hp]
  <1>2. CASE ~e.shut /\ e.receivers # <<>> BY <1>2, DeliverInv
  <1>3. CASE e.shut \/ (e.receivers = <<>> /\ Len(e.senders) = QCap)
    <2>1. th' = [th EXCEPT ![g].st = "stuck"] /\ UNCHANGED <<pds, sidecar, hep, ht, ctl>>
      BY <1>1, <1>3 DEF zustellen
    <2> QED BY <1>1, <2>1, RefusedInv
  <1>4. CASE ~e.shut /\ e.receivers = <<>> /\ Len(e.senders) # QCap
    BY <1>4, QueueInv
  <1> QED BY <1>2, <1>3, <1>4

-----------------------------------------------------------------------------
(* Redirected calls: steps of a handler thread                             *)

\* A step of handler thread h of p that leaves the guests alone: only the slot of the caller may
\* change, and who was queued or being served still is.
Quiet(h, p) ==
  /\ UNCHANGED <<th, pds, ctl>>
  /\ \A q \in Pds : q # p => hep'[q] = hep[q] /\ sidecar'[q] = sidecar[q]
  /\ \A k \in Handlers : k # h => ht'[k] = ht[k]
  /\ \A x \in Guests : th[x].bind.hp = p /\ Live(x) /\ x # hep[p].caller =>
       \A kind : InSlot(x, kind)' <=> InSlot(x, kind)
  /\ \A x \in Guests : x \in ToSet(hep[p].senders) \/ hep[p].caller = x =>
       x \in ToSet(hep'[p].senders) \/ hep'[p].caller = x

LEMMA QuietStep ==
  ASSUME RedirectAssumption, FixedBindings, CInv, NEW h \in Handlers, NEW p \in Pds, PdOf[h] = p,
         ht[h].at # "wake", Quiet(h, p), CTypes', EpTrue(p)', HandlerTrue(h)'
  PROVE  CInv'
PROOF
  <1>0. CTypes /\ Bindings BY DEF CInv
  <1>1. LocalAt(p) BY <1>0 DEF LocalAt, Quiet, Bindings, Live
  <1>2. \A k \in HandlersAt(p) : HandlerTrue(k)' BY OnlyHandler
  <1>3. ASSUME NEW x \in GuestsAt(p) PROVE GuestTrue(x)'
    <2>1. x \in Guests /\ th[x].bind.hp = p /\ GuestTrue(x) /\ EpTrue(p) BY DEF GuestsAt, CInv
    <2>2. UNCHANGED <<th, pds>> BY DEF Quiet
    <2>3. Where(x) => Where(x)' BY <2>1, <2>2, StillWaiting DEF Quiet, Where
    <2>4. th[x].st \in {"mark", "call"} => Live(x) /\ x # hep[p].caller
      BY <2>1 DEF EpTrue, Asks, Live, RedirectAssumption
    <2>5. th[x].st \in {"mark", "call"} /\ InSlot(x, "req") => InSlot(x, "req")' BY <2>1, <2>4 DEF Quiet
    <2> QED BY <2>1, <2>2, <2>3, <2>5 DEF GuestTrue
  <1> QED BY <1>1, <1>2, <1>3, LocalStep

\* Endpoint::recv without a caller: the thread waits.
LEMMA RecvBlocks ==
  ASSUME RedirectAssumption, FixedBindings, CInv, NEW h \in Handlers, recv(h), ~hep[PdOf[h]].shut,
         hep[PdOf[h]].senders = <<>>
  PROVE  CInv'
PROOF
  <1>0. CTypes /\ Bindings /\ HandlerTrue(h) BY DEF CInv
  <1>1. PICK p \in Pds : p = PdOf[h] BY DEF RedirectAssumption
  <1>2. EpTrue(p) /\ hep[p] \in EpRec /\ ht[h] \in HandlerRec /\ hep[p].receivers \in Seq(Handlers)
    BY <1>0, CallTypes DEF CInv
  <1>3. ht[h].at = "enter" /\ hep[p].senders = <<>> BY <1>1 DEF recv
  <1>4. hep[p].receivers = <<>> BY <1>1, <1>2, <1>3 DEF EpTrue, FixedBindings
  <1>5. /\ hep' = [hep EXCEPT ![p].receivers = <<h>>] /\ ht' = [ht EXCEPT ![h].at = "recv"]
        /\ UNCHANGED <<th, pds, sidecar, ctl>>
    <2>1. Append(hep[p].receivers, h) = <<h>> BY <1>4
    <2> QED BY <2>1, <1>1, <1>3 DEF recv
  <1>6. /\ hep' \in [Pds -> EpRec] /\ \A q \in Pds : q # p => hep'[q] = hep[q]
        /\ hep'[p].senders = <<>> /\ hep'[p].receivers = <<h>> /\ hep'[p].caller = hep[p].caller
    <2>1. <<h>> \in Seq(Handlers) OBVIOUS
    <2> QED BY <2>1, <1>0, <1>2, <1>3, <1>5 DEF CTypes, EpRec
  <1>7. /\ ht' \in [Handlers -> HandlerRec] /\ \A k \in Handlers : k # h => ht'[k] = ht[k]
        /\ ht'[h].at = "recv"
    BY <1>0, <1>2, <1>5 DEF CTypes, HandlerRec
  <1>8. CTypes' BY <1>0, <1>5, <1>6, <1>7 DEF CTypes
  <1>9. hep[p].caller = Nobody BY <1>0, <1>1, <1>3 DEF HandlerTrue
  <1>10. Quiet(h, p) BY <1>3, <1>5, <1>6, <1>7 DEF Quiet, InSlot
  <1>11. EpTrue(p)' BY <1>1, <1>2, <1>3, <1>6, <1>7, <1>9, EmptySet DEF EpTrue
  <1>12. HandlerTrue(h)' BY <1>1, <1>5, <1>6, <1>7, <1>9 DEF HandlerTrue
  <1> QED BY <1>1, <1>3, <1>8, <1>10, <1>11, <1>12, QuietStep

\* Endpoint::recv takes the first caller of the queue.
LEMMA RecvTakes ==
  ASSUME RedirectAssumption, FixedBindings, CInv, NEW h \in Handlers, recv(h), ~hep[PdOf[h]].shut,
         hep[PdOf[h]].senders # <<>>
  PROVE  CInv'
PROOF
  <1>0. CTypes /\ Bindings /\ HandlerTrue(h) BY DEF CInv
  <1>1. PICK p \in Pds : p = PdOf[h] BY DEF RedirectAssumption
  <1>2. EpTrue(p) /\ hep[p] \in EpRec /\ ht[h] \in HandlerRec /\ hep[p].senders \in Seq(Guests)
    BY <1>0, CallTypes DEF CInv
  <1>3. ht[h].at = "enter" /\ hep[p].senders # <<>> BY <1>1 DEF recv
  <1>4. PICK g \in Guests, T \in Seq(Guests) :
          /\ g = Head(hep[p].senders) /\ T = Tail(hep[p].senders)
          /\ ToSet(hep[p].senders) = {g} \cup ToSet(T) /\ SingleIn(T) /\ g \notin ToSet(T)
          /\ Len(T) <= Len(hep[p].senders)
    <2>1. Len(Tail(hep[p].senders)) <= Len(hep[p].senders) BY <1>2, <1>3
    <2>2. SingleIn(hep[p].senders) BY <1>2 DEF EpTrue
    <2>3. SingleIn(Tail(hep[p].senders)) /\ Head(hep[p].senders) \notin ToSet(Tail(hep[p].senders))
      BY <2>2, <1>2, <1>3, TailSingle
    <2>4. /\ Head(hep[p].senders) \in Guests /\ Tail(hep[p].senders) \in Seq(Guests)
          /\ ToSet(hep[p].senders) = {Head(hep[p].senders)} \cup ToSet(Tail(hep[p].senders))
      BY <1>2, <1>3, TailSet
    <2> QED BY <2>1, <2>3, <2>4
  <1>5. Asks(g, p) /\ InSlot(g, "req") BY <1>2, <1>4 DEF EpTrue
  <1>6. PICK s \in Slots : th[g].bind = [hp |-> p, slot |-> s] /\ th[g].b = th[g].bind
    <2>1. th[g].bind \in Bind /\ th[g].b = th[g].bind BY <1>0, <1>5, CallTypes DEF Bindings, Asks
    <2> QED BY <2>1, <1>5 DEF Bind, Asks
  <1>7. /\ hep' = [hep EXCEPT ![p].senders = T, ![p].caller = g, ![p].owner = h]
        /\ ht' = [ht EXCEPT ![h].at = "got", ![h].slot = s]
        /\ UNCHANGED <<th, pds, sidecar, ctl>>
    BY <1>1, <1>3, <1>4, <1>6 DEF recv
  <1>8. /\ hep' \in [Pds -> EpRec] /\ \A q \in Pds : q # p => hep'[q] = hep[q]
        /\ hep'[p].senders = T /\ hep'[p].receivers = hep[p].receivers /\ hep'[p].caller = g
        /\ hep'[p].owner = h
    BY <1>0, <1>2, <1>7 DEF CTypes, EpRec
  <1>9. /\ ht' \in [Handlers -> HandlerRec] /\ \A k \in Handlers : k # h => ht'[k] = ht[k]
        /\ ht'[h].at = "got" /\ ht'[h].slot = s
    BY <1>0, <1>2, <1>7 DEF CTypes, HandlerRec
  <1>10. CTypes' BY <1>0, <1>7, <1>8, <1>9 DEF CTypes
  <1>11. hep[p].caller = Nobody BY <1>0, <1>1, <1>3 DEF HandlerTrue
  <1>12. \A x \in Guests : \A kind : InSlot(x, kind)' <=> InSlot(x, kind) BY <1>7 DEF InSlot
  <1>13. Quiet(h, p)
    <2>1. \A x \in Guests : x # Nobody BY DEF RedirectAssumption
    <2> QED BY <2>1, <1>4, <1>7, <1>8, <1>9, <1>11, <1>12 DEF Quiet
  <1>14. EpTrue(p)'
    <2>1. \A x \in ToSet(T) : Asks(x, p)' /\ InSlot(x, "req")'
      <3>1. \A x \in ToSet(T) : x \in Guests /\ Asks(x, p) /\ InSlot(x, "req") BY <1>2, <1>4, SeqSet DEF EpTrue
      <3> QED BY <3>1, <1>7, <1>12 DEF Asks
    <2>2. Asks(g, p)' BY <1>5, <1>7 DEF Asks
    <2>3. hep[p].receivers = <<>> BY <1>1, <1>2, <1>3 DEF EpTrue, FixedBindings
    <2>4. Len(T) <= QCap
      <3>1. Len(T) \in Nat /\ Len(hep[p].senders) \in Nat BY <1>2
      <3> QED BY <3>1, <1>2, <1>4 DEF EpTrue, RedirectAssumption
    <2> QED BY <2>1, <2>2, <2>3, <2>4, <1>1, <1>4, <1>8 DEF EpTrue
  <1>15. HandlerTrue(h)'
    <2>1. ASSUME NEW x \in Guests, Live(x)', th'[x].bind = [hp |-> p, slot |-> s] PROVE g = x
      <3>1. Live(g) /\ Live(x) /\ th[x].bind = th[g].bind /\ th[g].bind.hp # Nobody
        BY <2>1, <1>5, <1>6, <1>7 DEF Live, Asks, RedirectAssumption
      <3> QED BY <3>1, <1>0 DEF Bindings
    <2>2. th'[g].bind.slot = s /\ InSlot(g, "req")' BY <1>5, <1>6, <1>7, <1>12
    <2> QED BY <2>1, <2>2, <1>1, <1>7, <1>8, <1>9, <1>11 DEF HandlerTrue
  <1> QED BY <1>1, <1>3, <1>10, <1>13, <1>14, <1>15, QuietStep

\* The endpoint is as before, as long as anybody can tell.
SameChannel(p) ==
  /\ hep'[p].senders = hep[p].senders /\ hep'[p].receivers = hep[p].receivers
  /\ hep'[p].caller = hep[p].caller /\ (hep[p].caller # Nobody => hep'[p].owner = hep[p].owner)

\* The endpoint at which the only handler thread is busy.
LEMMA EpStays ==
  ASSUME RedirectAssumption, FixedBindings, CInv, NEW h \in Handlers, NEW p \in Pds, PdOf[h] = p,
         ht[h].at # "recv", Quiet(h, p), SameChannel(p)
  PROVE  EpTrue(p)'
PROOF
  <1>0. CTypes /\ EpTrue(p) /\ UNCHANGED th BY DEF CInv, Quiet
  <1>1. hep[p].receivers = <<>> BY <1>0 DEF EpTrue, FixedBindings
  <1>2. ToSet(hep[p].senders) \subseteq Guests /\ hep[p].caller \in Guests \cup {Nobody}
    BY <1>0, CallTypes, SeqSet
  <1>3. ASSUME NEW x \in ToSet(hep[p].senders) PROVE Asks(x, p)' /\ InSlot(x, "req")'
    <2>1. x \in Guests /\ Asks(x, p) /\ InSlot(x, "req") /\ x # hep[p].caller BY <1>0, <1>2 DEF EpTrue
    <2>2. Live(x) /\ th[x].bind.hp = p BY <2>1 DEF Asks, Live
    <2>3. InSlot(x, "req")' BY <2>1, <2>2 DEF Quiet
    <2> QED BY <2>1, <2>3, <1>0 DEF Asks
  <1>4. PICK c \in Guests \cup {Nobody} : c = hep[p].caller BY <1>2
  <1>5. c # Nobody => Asks(c, p)' BY <1>0, <1>4 DEF EpTrue, Asks
  <1> QED BY <1>0, <1>1, <1>3, <1>4, <1>5 DEF EpTrue, SameChannel

\* The handler's program has read the slot.
LEMMA ServeReads ==
  ASSUME RedirectAssumption, FixedBindings, CInv, NEW h \in Handlers, serve(h), ht[h].at = "got"
  PROVE  CInv'
PROOF
  <1>0. CTypes /\ Bindings /\ HandlerTrue(h) BY DEF CInv
  <1>1. PICK p \in Pds, s \in Slots : p = PdOf[h] /\ s = ht[h].slot
    BY <1>0, CallTypes DEF RedirectAssumption, HandlerRec
  <1>2. ht[h] \in HandlerRec /\ hep[p] \in EpRec BY <1>0, CallTypes
  <1>3. PICK f \in Frame : f = sidecar[p][s] BY <1>0, <1>1 DEF CTypes
  <1>4. ht' = [ht EXCEPT ![h].at = "serve", ![h].req = f] /\ UNCHANGED <<th, pds, sidecar, hep, ctl>>
    BY <1>1, <1>3 DEF serve
  <1>5. /\ ht' \in [Handlers -> HandlerRec] /\ \A k \in Handlers : k # h => ht'[k] = ht[k]
        /\ ht'[h].at = "serve" /\ ht'[h].slot = s /\ ht'[h].req = f
    BY <1>0, <1>1, <1>2, <1>4 DEF CTypes, HandlerRec
  <1>6. CTypes' BY <1>0, <1>4, <1>5 DEF CTypes
  <1>7. Quiet(h, p) BY <1>4, <1>5 DEF Quiet, InSlot
  <1>8. EpTrue(p)' BY <1>1, <1>4, <1>7, EpStays DEF SameChannel
  <1>9. PICK c \in Guests \cup {Nobody} : c = hep[p].caller BY <1>2 DEF EpRec
  <1>10. c # Nobody => th[c].bind.slot = s /\ f = <<c, th[c].n, "req">>
    <2>1. c # Nobody => th[c].bind.hp = p BY <1>9 DEF CInv, EpTrue, Asks
    <2>2. c # Nobody => th[c].bind.slot = s /\ InSlot(c, "req") BY <1>0, <1>1, <1>9 DEF HandlerTrue
    <2> QED BY <2>1, <2>2, <1>3 DEF InSlot
  <1>11. \A x \in Guests : Live(x)' /\ th'[x].bind = [hp |-> p, slot |-> s] => c = x
    BY <1>0, <1>1, <1>4, <1>9 DEF HandlerTrue, Live
  <1>13. HandlerTrue(h)' BY <1>1, <1>4, <1>5, <1>9, <1>10, <1>11 DEF HandlerTrue
  <1> QED BY <1>1, <1>6, <1>7, <1>8, <1>13, QuietStep

\* What the program leaves in the slot: the frame with the result.
LEMMA ResultFrame ==
  ASSUME NEW f \in Frame
  PROVE  /\ (IF f = <<>> THEN <<>> ELSE [f EXCEPT ![3] = "res"]) \in Frame
         /\ \A g, n : f = <<g, n, "req">> =>
              (IF f = <<>> THEN <<>> ELSE [f EXCEPT ![3] = "res"]) = <<g, n, "res">>
PROOF
  <1>1. CASE f = <<>> BY <1>1 DEF Frame
  <1>2. CASE f # <<>>
    <2>1. PICK g \in Guests, n \in Nat, k \in {"req", "res", "ipc", "cap", "gone"} : f = <<g, n, k>> BY <1>2 DEF Frame
    <2>2. [f EXCEPT ![3] = "res"] = <<g, n, "res">> BY <2>1
    <2>3. <<g, n, "res">> \in Frame BY <2>1 DEF Frame
    <2> QED BY <1>2, <2>1, <2>2, <2>3
  <1> QED BY <1>1, <1>2

\* The handler's program has written the result.
LEMMA ServeWrites ==
  ASSUME RedirectAssumption, FixedBindings, CInv, NEW h \in Handlers, serve(h), ht[h].at = "serve"
  PROVE  CInv'
PROOF
  <1>0. CTypes /\ Bindings /\ HandlerTrue(h) BY DEF CInv
  <1>1. PICK p \in Pds, s \in Slots : p = PdOf[h] /\ s = ht[h].slot
    BY <1>0, CallTypes DEF RedirectAssumption, HandlerRec
  <1>2. ht[h] \in HandlerRec /\ hep[p] \in EpRec /\ ht[h].req \in Frame BY <1>0, CallTypes DEF HandlerRec
  <1>3. PICK f \in Frame :
          /\ f = IF ht[h].req = <<>> THEN <<>> ELSE [ht[h].req EXCEPT ![3] = "res"]
          /\ \A g, n : ht[h].req = <<g, n, "req">> => f = <<g, n, "res">>
    <2> DEFINE F == IF ht[h].req = <<>> THEN <<>> ELSE [ht[h].req EXCEPT ![3] = "res"]
    <2>1. F \in Frame /\ \A g, n : ht[h].req = <<g, n, "req">> => F = <<g, n, "res">> BY <1>2, ResultFrame
    <2> HIDE DEF F
    <2>2. \E f \in Frame : f = F /\ \A g, n : ht[h].req = <<g, n, "req">> => f = <<g, n, "res">> BY <2>1
    <2> QED BY <2>2 DEF F
  <1>4. /\ ht' = [ht EXCEPT ![h].at = "reply", ![h].req = <<>>] /\ UNCHANGED <<th, pds, hep, ctl>>
        /\ sidecar' = [sidecar EXCEPT ![p][s] = f]
    BY <1>1, <1>3 DEF serve
  <1>5. /\ ht' \in [Handlers -> HandlerRec] /\ \A k \in Handlers : k # h => ht'[k] = ht[k]
        /\ ht'[h].at = "reply"
    BY <1>0, <1>1, <1>2, <1>4 DEF CTypes, HandlerRec, Frame
  <1>6. /\ sidecar' \in [Pds -> [Slots -> Frame]] /\ sidecar'[p][s] = f
        /\ \A q \in Pds : q # p => sidecar'[q] = sidecar[q]
        /\ \A i \in Slots : i # s => sidecar'[p][i] = sidecar[p][i]
    BY <1>0, <1>1, <1>4 DEF CTypes
  <1>7. CTypes' BY <1>0, <1>4, <1>5, <1>6 DEF CTypes
  <1>8. PICK c \in Guests \cup {Nobody} : c = hep[p].caller BY <1>2 DEF EpRec
  <1>9. Quiet(h, p)
    <2>1. ASSUME NEW x \in Guests, th[x].bind.hp = p, Live(x), x # c PROVE \A k : InSlot(x, k)' <=> InSlot(x, k)
      <3>1. th[x].bind \in Bind BY <1>0, CallTypes
      <3>2. th[x].bind # [hp |-> p, slot |-> s] BY <2>1, <1>0, <1>1, <1>8 DEF HandlerTrue
      <3>3. th[x].bind.slot # s /\ th[x].bind.slot \in Slots BY <3>1, <3>2, <2>1 DEF Bind
      <3> QED BY <3>3, <2>1, <1>4, <1>6 DEF InSlot
    <2> QED BY <2>1, <1>4, <1>5, <1>6, <1>8 DEF Quiet
  <1>10. EpTrue(p)' BY <1>1, <1>4, <1>9, EpStays DEF SameChannel
  <1>11. c # Nobody => InSlot(c, "res")'
    <2>1. c # Nobody => th[c].bind.hp = p BY <1>8 DEF CInv, EpTrue, Asks
    <2>2. c # Nobody => th[c].bind.slot = s /\ ht[h].req = <<c, th[c].n, "req">>
      BY <1>0, <1>1, <1>8 DEF HandlerTrue
    <2>3. c # Nobody => f = <<c, th[c].n, "res">> BY <2>2, <1>3
    <2> QED BY <2>1, <2>2, <2>3, <1>4, <1>6 DEF InSlot
  <1>13. HandlerTrue(h)' BY <1>1, <1>4, <1>5, <1>8, <1>11 DEF HandlerTrue
  <1> QED BY <1>1, <1>7, <1>9, <1>10, <1>13, QuietStep

LEMMA ReadCallerInv ==
  ASSUME RedirectAssumption, FixedBindings, CInv, NEW h \in Handlers, read_caller(h) PROVE CInv'
PROOF
  <1>0. CTypes /\ Bindings /\ HandlerTrue(h) BY DEF CInv
  <1>1. PICK p \in Pds : p = PdOf[h] BY DEF RedirectAssumption
  <1>2. ht[h] \in HandlerRec /\ hep[p] \in EpRec /\ ht[h].at = "reply" BY <1>0, CallTypes DEF read_caller
  <1>3. PICK c \in Guests \cup {Nobody} : c = hep[p].caller BY <1>2 DEF EpRec
  <1>4. ht' = [ht EXCEPT ![h].at = "transfer", ![h].guest = c] /\ UNCHANGED <<th, pds, sidecar, hep, ctl>>
    BY <1>1, <1>3 DEF read_caller
  <1>5. /\ ht' \in [Handlers -> HandlerRec] /\ \A k \in Handlers : k # h => ht'[k] = ht[k]
        /\ ht'[h].at = "transfer" /\ ht'[h].guest = c
    BY <1>0, <1>2, <1>4 DEF CTypes, HandlerRec
  <1>6. CTypes' BY <1>0, <1>4, <1>5 DEF CTypes
  <1>7. Quiet(h, p) BY <1>4, <1>5 DEF Quiet, InSlot
  <1>8. EpTrue(p)' BY <1>1, <1>2, <1>4, <1>7, EpStays DEF SameChannel
  <1>9. c # Nobody => InSlot(c, "res")' BY <1>0, <1>1, <1>2, <1>3, <1>4 DEF HandlerTrue, InSlot
  <1>11. HandlerTrue(h)' BY <1>1, <1>3, <1>4, <1>5, <1>9 DEF HandlerTrue
  <1> QED BY <1>1, <1>2, <1>6, <1>7, <1>8, <1>11, QuietStep

\* REPLY while nobody is there to answer.
LEMMA ReplyToNobody ==
  ASSUME RedirectAssumption, FixedBindings, CInv, NEW h \in Handlers, reply(h), hep[PdOf[h]].caller = Nobody
  PROVE  CInv'
PROOF
  <1>0. CTypes /\ Bindings /\ HandlerTrue(h) BY DEF CInv
  <1>1. PICK p \in Pds : p = PdOf[h] BY DEF RedirectAssumption
  <1>2. ht[h] \in HandlerRec /\ hep[p] \in EpRec /\ ht[h].at = "transfer" BY <1>0, CallTypes DEF reply
  <1>3. PICK k \in Guests \cup {Nobody} : k = ht[h].guest BY <1>2 DEF HandlerRec
  <1>4. ht' = [ht EXCEPT ![h].at = "wake"] /\ UNCHANGED <<th, pds, sidecar, ctl>>
    BY <1>1 DEF reply, Answered
  <1>5. /\ hep' \in [Pds -> EpRec] /\ \A q \in Pds : q # p => hep'[q] = hep[q]
        /\ SameChannel(p) /\ hep'[p].caller = Nobody
    BY <1>0, <1>1, <1>2 DEF reply, CTypes, EpRec, SameChannel
  <1>6. /\ ht' \in [Handlers -> HandlerRec] /\ \A i \in Handlers : i # h => ht'[i] = ht[i]
        /\ ht'[h].at = "wake" /\ ht'[h].guest = k
    BY <1>0, <1>2, <1>3, <1>4 DEF CTypes, HandlerRec
  <1>7. CTypes' BY <1>0, <1>4, <1>5, <1>6 DEF CTypes
  <1>8. Quiet(h, p) BY <1>4, <1>5, <1>6 DEF Quiet, InSlot, SameChannel
  <1>9. EpTrue(p)' BY <1>1, <1>2, <1>5, <1>8, EpStays
  <1>10. k = Nobody \/ ~Live(k)' BY <1>0, <1>1, <1>2, <1>3, <1>4 DEF HandlerTrue, Live
  <1>12. HandlerTrue(h)' BY <1>1, <1>4, <1>5, <1>6, <1>10 DEF HandlerTrue
  <1> QED BY <1>1, <1>2, <1>7, <1>8, <1>9, <1>12, QuietStep

\* The caller of p is answered, by a REPLY or because handler thread h has died.
AnsweredBy(h, p, kind) ==
  /\ th' = Answered(hep[p].caller, kind) /\ UNCHANGED <<sidecar, ctl>>
  /\ hep' \in [Pds -> EpRec] /\ \A q \in Pds : q # p => hep'[q] = hep[q]
  /\ hep'[p].senders = hep[p].senders /\ hep'[p].receivers = <<>> /\ hep'[p].caller = Nobody
  /\ ht' \in [Handlers -> HandlerRec] /\ \A k \in Handlers : k # h => ht'[k] = ht[k]
  /\ kind = "ipc" => ht[h].at = "transfer" /\ ht'[h].at = "wake" /\ ht'[h].guest = ht[h].guest
  /\ kind # "ipc" => ht'[h].at \in {"idle", "dead"}

LEMMA CallerAnswered ==
  ASSUME RedirectAssumption, FixedBindings, CInv, NEW h \in Handlers, NEW p \in Pds, p = PdOf[h],
         NEW kind \in {"ipc", "cap", "gone"}, ht[h].at # "wake", hep[p].caller # Nobody,
         AnsweredBy(h, p, kind)
  PROVE  CInv'
PROOF
  <1>0. CTypes /\ Bindings /\ HandlerTrue(h) BY DEF CInv
  <1>2. /\ ht[h] \in HandlerRec /\ hep[p] \in EpRec /\ EpTrue(p) /\ hep[p].senders \in Seq(Guests)
    BY <1>0, CallTypes DEF CInv
  <1>3. PICK c \in Guests : c = hep[p].caller BY <1>2 DEF EpRec
  <1>4. c # Nobody /\ Asks(c, p) /\ th[c] \in GuestRec /\ th[c].n \in Nat
    BY <1>0, <1>2, <1>3, CallTypes DEF EpTrue, RedirectAssumption
  <1>5. kind = "ipc" => ht[h].guest = c /\ InSlot(c, "res")
    BY <1>0, <1>3, <1>4 DEF HandlerTrue, AnsweredBy
  <1> DEFINE f == <<c, th[c].n, kind>>
             r == [th[c] EXCEPT !.frame = f, !.why = {"HANDLER"}]
  <1>6. f \in Frame BY <1>4 DEF Frame
  <1>7. th' = [th EXCEPT ![c] = Woken([@ EXCEPT !.frame = f], "IPC")] /\ UNCHANGED <<sidecar, ctl>>
    <2>1. "IPC" \in th[c].why BY <1>4 DEF Asks, Full
    <2> QED BY <2>1, <1>3, <1>4 DEF AnsweredBy, Answered
  <1> HIDE DEF f
  <1>8. Woken([th[c] EXCEPT !.frame = f], "IPC") = r
    <2>1. th[c].why \ {"IPC"} = {"HANDLER"} /\ th[c].st = "wait" BY <1>4 DEF Asks, Full
    <2> QED BY <2>1, <1>4, <1>6 DEF Woken, GuestRec
  <1>9. /\ r \in GuestRec /\ r.st = "wait" /\ r.why = {"HANDLER"} /\ r.n = th[c].n /\ r.frame = f
        /\ r.bind = th[c].bind /\ r.b = th[c].b
    BY <1>4, <1>6 DEF GuestRec, Asks, Full
  <1> HIDE DEF r
  <1>10. /\ th' \in [Guests -> GuestRec] /\ \A x \in Guests : x # c => th'[x] = th[x]
         /\ th'[c].st = "wait" /\ th'[c].why = {"HANDLER"} /\ th'[c].n = th[c].n
         /\ th'[c].bind = th[c].bind /\ th'[c].b = th[c].b /\ th'[c].frame = f
    BY <1>0, <1>7, <1>8, <1>9 DEF CTypes
  <1>13. CTypes' BY <1>0, <1>7, <1>10 DEF CTypes, AnsweredBy
  <1>14. \A x \in Guests : \A k : InSlot(x, k)' <=> InSlot(x, k) BY <1>7, <1>10 DEF InSlot
  <1>15. th[c].bind.hp = p /\ th[c].st = "wait" /\ th[c].b = th[c].bind BY <1>0, <1>4 DEF Asks, Bindings
  <1>16. LocalAt(p)
    <2>1. \A x \in Guests : th[x].bind.hp # p => x # c BY <1>15
    <2>2. \A x \in Guests : th'[x].st \notin {"user", "dead"} => th'[x].b = th'[x].bind /\ th'[x].bind.hp \in Pds
      BY <1>0, <1>10, <1>15 DEF Bindings
    <2> QED BY <2>1, <2>2, <1>7, <1>10, <1>15 DEF LocalAt, Live, AnsweredBy
  <1>17. \A x \in GuestsAt(p) : GuestTrue(x)'
    <2> SUFFICES ASSUME NEW x \in GuestsAt(p) PROVE GuestTrue(x)' OBVIOUS
    <2>1. CASE x = c
      <3>1. CASE kind = "ipc"
        <4>1. Where(c)' BY <3>1, <1>5, <1>10, <1>15 DEF Where, AnsweredBy
        <4> QED BY <2>1, <4>1, <1>10 DEF GuestTrue
      <3>2. CASE kind # "ipc"
        <4>1. th'[c].frame \in {<<c, th'[c].n, "cap">>, <<c, th'[c].n, "gone">>} BY <3>2, <1>10 DEF f
        <4> QED BY <2>1, <4>1, <1>10 DEF GuestTrue
      <3> QED BY <3>1, <3>2
    <2>2. CASE x # c
      <3>1. x \in Guests /\ th[x].bind.hp = p /\ GuestTrue(x) /\ th'[x] = th[x]
        BY <2>2, <1>10 DEF GuestsAt, CInv
      <3>2. Where(x) => x \in ToSet(hep[p].senders) BY <2>2, <3>1, <1>2, <1>3, StillWaiting
      <3>3. Where(x) => Where(x)' BY <3>1, <3>2 DEF Where, AnsweredBy
      <3> QED BY <3>1, <3>3, <1>7, <1>14 DEF GuestTrue
    <2> QED BY <2>1, <2>2
  <1>18. EpTrue(p)'
    <2>1. \A x \in ToSet(hep[p].senders) : x \in Guests /\ x # c /\ Asks(x, p) /\ InSlot(x, "req")
      BY <1>2, <1>3, SeqSet DEF EpTrue
    <2>2. \A x \in ToSet(hep[p].senders) : Asks(x, p)' /\ InSlot(x, "req")' BY <2>1, <1>10, <1>14 DEF Asks
    <2>3. Nobody \notin ToSet(hep[p].senders) BY <2>1 DEF RedirectAssumption
    <2> QED BY <2>2, <2>3, <1>2 DEF EpTrue, AnsweredBy
  <1>19. \A k \in HandlersAt(p) : HandlerTrue(k)'
    <2> SUFFICES HandlerTrue(h)' BY OnlyHandler
    <2>1. kind = "ipc" => HalfWay(c, p)' BY <1>5, <1>10, <1>14, <1>15 DEF HalfWay
    <2>2. hep'[p].caller = Nobody BY DEF AnsweredBy
    <2>3. CASE kind = "ipc"
      <3>1. ht'[h].at = "wake" /\ ht'[h].guest = c /\ HalfWay(c, p)' BY <2>1, <2>3, <1>5 DEF AnsweredBy
      <3> QED BY <2>2, <3>1 DEF HandlerTrue
    <2>4. CASE kind # "ipc"
      <3>1. ht'[h].at \in {"idle", "dead"} BY <2>4 DEF AnsweredBy
      <3> QED BY <2>2, <3>1 DEF HandlerTrue
    <2> QED BY <2>3, <2>4
  <1> QED BY <1>13, <1>16, <1>17, <1>18, <1>19, LocalStep

\* At a busy handler thread's endpoint nobody else waits for a call.
LEMMA NoReceiver ==
  ASSUME FixedBindings, CInv, NEW h \in Handlers, NEW p \in Pds, p = PdOf[h], ht[h].at # "recv"
  PROVE  hep[p].receivers = <<>>
  BY DEF CInv, EpTrue, FixedBindings

\* REPLY takes away the first reason of the caller.
LEMMA ReplyToCaller ==
  ASSUME RedirectAssumption, FixedBindings, CInv, NEW h \in Handlers, reply(h), hep[PdOf[h]].caller # Nobody
  PROVE  CInv'
PROOF
  <1>0. CTypes BY DEF CInv
  <1>1. PICK p \in Pds : p = PdOf[h] BY DEF RedirectAssumption
  <1>2. ht[h] \in HandlerRec /\ hep[p] \in EpRec /\ ht[h].at = "transfer" BY <1>0, CallTypes DEF reply
  <1>3. hep[p].receivers = <<>> BY <1>1, <1>2, NoReceiver
  <1>4. /\ hep' \in [Pds -> EpRec] /\ \A q \in Pds : q # p => hep'[q] = hep[q]
        /\ hep'[p].senders = hep[p].senders /\ hep'[p].receivers = <<>> /\ hep'[p].caller = Nobody
    BY <1>0, <1>1, <1>2, <1>3 DEF reply, CTypes, EpRec
  <1>5. /\ ht' \in [Handlers -> HandlerRec] /\ \A k \in Handlers : k # h => ht'[k] = ht[k]
        /\ ht'[h].at = "wake" /\ ht'[h].guest = ht[h].guest
    BY <1>0, <1>2 DEF reply, CTypes, HandlerRec
  <1>6. th' = Answered(hep[p].caller, "ipc") /\ UNCHANGED <<sidecar, ctl>> BY <1>1 DEF reply
  <1>7. AnsweredBy(h, p, "ipc") BY <1>2, <1>4, <1>5, <1>6 DEF AnsweredBy
  <1> QED BY <1>1, <1>2, <1>7, CallerAnswered

LEMMA IdleTyped ==
  ASSUME RedirectAssumption
  PROVE  /\ HIdle \in HandlerRec /\ HIdle.at = "idle"
         /\ [HIdle EXCEPT !.at = "dead"] \in HandlerRec /\ [HIdle EXCEPT !.at = "dead"].at = "dead"
  BY DEF HIdle, HandlerRec, Slots, RedirectAssumption, Frame

\* Handler thread h lets go of its call, if it has one: REPLY with a grant, or death.
LEMMA LetsGo ==
  ASSUME RedirectAssumption, FixedBindings, CInv, NEW h \in Handlers, NEW p \in Pds, p = PdOf[h],
         NEW kind \in {"cap", "gone"}, ht[h].at # "wake", AnsweredBy(h, p, kind), UNCHANGED pds
  PROVE  CInv'
PROOF
  <1>1. CASE hep[p].caller # Nobody BY <1>1, CallerAnswered
  <1>2. CASE hep[p].caller = Nobody
    <2>0. CTypes /\ EpTrue(p) BY DEF CInv
    <2>1. th' = th BY <1>2 DEF AnsweredBy, Answered
    <2>2. CTypes' BY <2>0, <2>1 DEF CTypes, AnsweredBy
    <2>3. Quiet(h, p) BY <1>2, <2>1 DEF Quiet, AnsweredBy, InSlot
    <2>4. HandlerTrue(h)'
      <3>1. hep'[p].caller = Nobody /\ ht'[h].at \in {"idle", "dead"} BY DEF AnsweredBy
      <3> QED BY <3>1 DEF HandlerTrue
    <2>5. EpTrue(p)'
      <3>1. ToSet(hep[p].senders) \subseteq Guests BY <2>0, CallTypes, SeqSet
      <3>2. \A x \in ToSet(hep[p].senders) : Asks(x, p)' /\ InSlot(x, "req")'
        BY <2>0, <2>1, <3>1 DEF EpTrue, Asks, InSlot, AnsweredBy
      <3> QED BY <2>0, <3>2, <1>2 DEF EpTrue, AnsweredBy
    <2> QED BY <2>2, <2>3, <2>4, <2>5, QuietStep
  <1> QED BY <1>1, <1>2

LEMMA GrantInv ==
  ASSUME RedirectAssumption, FixedBindings, CInv, NEW h \in Handlers, reply_grant(h) PROVE CInv'
PROOF
  <1>0. CTypes BY DEF CInv
  <1>1. PICK p \in Pds : p = PdOf[h] BY DEF RedirectAssumption
  <1>2. hep[p] \in EpRec /\ ht[h].at = "reply" BY <1>0, CallTypes DEF reply_grant
  <1>3. hep[p].receivers = <<>> BY <1>1, <1>2, NoReceiver
  <1>4. /\ hep' \in [Pds -> EpRec] /\ \A q \in Pds : q # p => hep'[q] = hep[q]
        /\ hep'[p].senders = hep[p].senders /\ hep'[p].receivers = <<>> /\ hep'[p].caller = Nobody
    BY <1>0, <1>1, <1>2, <1>3 DEF reply_grant, CTypes, EpRec
  <1>5. /\ ht' \in [Handlers -> HandlerRec] /\ \A k \in Handlers : k # h => ht'[k] = ht[k]
        /\ ht'[h].at = "idle"
    <2>1. ht' = [ht EXCEPT ![h] = HIdle] BY DEF reply_grant
    <2> HIDE DEF HIdle
    <2> QED BY <2>1, <1>0, IdleTyped DEF CTypes
  <1>6. th' = Answered(hep[p].caller, "cap") /\ UNCHANGED <<pds, sidecar, ctl>> BY <1>1 DEF reply_grant
  <1>7. AnsweredBy(h, p, "cap") BY <1>4, <1>5, <1>6 DEF AnsweredBy
  <1> QED BY <1>1, <1>2, <1>6, <1>7, LetsGo

\* RECV passes the gate of the PD, or is turned away at that of the endpoint.
LEMMA EnterInv ==
  ASSUME RedirectAssumption, FixedBindings, CInv, NEW h \in Handlers,
         enter(h) \/ (recv(h) /\ hep[PdOf[h]].shut)
  PROVE  CInv'
PROOF
  <1>0. CTypes /\ HandlerTrue(h) BY DEF CInv
  <1>1. PICK p \in Pds : p = PdOf[h] BY DEF RedirectAssumption
  <1>2. ht[h] \in HandlerRec /\ ht[h].at \in {"idle", "enter"} BY <1>0, CallTypes DEF enter, recv
  <1>3. PICK a \in {"idle", "enter"} : ht' = [ht EXCEPT ![h].at = a] /\ UNCHANGED <<th, pds, sidecar, hep, ctl>>
    BY DEF enter, recv
  <1>4. /\ ht' \in [Handlers -> HandlerRec] /\ \A k \in Handlers : k # h => ht'[k] = ht[k]
        /\ ht'[h].at = a
    BY <1>0, <1>2, <1>3 DEF CTypes, HandlerRec
  <1>5. CTypes' BY <1>0, <1>3, <1>4 DEF CTypes
  <1>6. Quiet(h, p) BY <1>3, <1>4 DEF Quiet, InSlot
  <1>7. EpTrue(p)' BY <1>1, <1>2, <1>3, <1>6, EpStays DEF SameChannel
  <1>8. hep'[p].caller = Nobody BY <1>0, <1>1, <1>2, <1>3 DEF HandlerTrue
  <1>9. HandlerTrue(h)' BY <1>1, <1>4, <1>8 DEF HandlerTrue
  <1> QED BY <1>1, <1>2, <1>5, <1>6, <1>7, <1>9, QuietStep

\* The result reaches the frame and the second reason falls.
LEMMA HandlerReplyInv ==
  ASSUME RedirectAssumption, FixedBindings, CInv, NEW h \in Handlers, handler_reply(h) PROVE CInv'
PROOF
  <1>0. CTypes /\ Bindings /\ HandlerTrue(h) BY DEF CInv
  <1>1. PICK p \in Pds : p = PdOf[h] BY DEF RedirectAssumption
  <1>2. /\ ht[h] \in HandlerRec /\ hep[p] \in EpRec /\ ht[h].at = "wake" /\ EpTrue(p)
        /\ hep[p].senders \in Seq(Guests)
    BY <1>0, CallTypes DEF handler_reply, CInv
  <1>3. PICK k \in Guests \cup {Nobody} : k = ht[h].guest BY <1>2 DEF HandlerRec
  <1>4. /\ k = Nobody \/ ~Live(k) \/ HalfWay(k, p)
        /\ hep[p].caller = Nobody
    BY <1>0, <1>1, <1>2, <1>3 DEF HandlerTrue
  <1>5. ht' = [ht EXCEPT ![h] = HIdle] /\ UNCHANGED <<pds, sidecar, hep, ctl>> BY DEF handler_reply
  <1>6. /\ ht' \in [Handlers -> HandlerRec] /\ \A i \in Handlers : i # h => ht'[i] = ht[i]
        /\ ht'[h].at = "idle"
    <2>1. HIdle \in HandlerRec /\ HIdle.at = "idle" BY IdleTyped
    <2> HIDE DEF HIdle
    <2> QED BY <2>1, <1>0, <1>5 DEF CTypes
  <1>7. /\ th' \in [Guests -> GuestRec] /\ \A x \in Guests : x # k \/ ~Live(x) => th'[x] = th[x]
        /\ \A x \in Guests : th'[x].bind = th[x].bind /\ th'[x].b = th[x].b /\ th'[x].n = th[x].n
        /\ k # Nobody /\ Live(k) => th'[k].st = "user" /\ th'[k].why = {} /\ th'[k].frame = <<k, th[k].n, "res">>
    <2>1. CASE k = Nobody \/ ~Live(k) BY <2>1, <1>0, <1>3 DEF handler_reply, CTypes
    <2>2. CASE k # Nobody /\ Live(k)
      <3> DEFINE f == <<k, th[k].n, "res">>
                 r == [th[k] EXCEPT !.frame = f, !.why = {}, !.st = "user"]
      <3>1. HalfWay(k, p) /\ k \in Guests /\ th[k] \in GuestRec /\ th[k].n \in Nat
        BY <2>2, <1>0, <1>4, CallTypes
      <3>2. th[k].st = "wait" /\ th[k].why = {"HANDLER"} /\ th[k].bind.hp = p BY <3>1 DEF HalfWay
      <3>3. sidecar[th[k].bind.hp][th[k].bind.slot] = f /\ f # <<>> /\ f \in Frame /\ th[k].bind.hp # Nobody
        BY <3>1, <3>2 DEF HalfWay, InSlot, Frame, RedirectAssumption
      <3> HIDE DEF f
      <3>4. th' = [th EXCEPT ![k] = Woken([@ EXCEPT !.frame = f], "HANDLER")]
        BY <2>2, <3>3, <1>3 DEF handler_reply
      <3>5. Woken([th[k] EXCEPT !.frame = f], "HANDLER") = r
        BY <3>1, <3>2, <3>3 DEF Woken, GuestRec
      <3>6. /\ r \in GuestRec /\ r.st = "user" /\ r.why = {} /\ r.n = th[k].n /\ r.frame = f
            /\ r.bind = th[k].bind /\ r.b = th[k].b
        BY <3>1, <3>3 DEF GuestRec
      <3> HIDE DEF r
      <3>7. th' = [th EXCEPT ![k] = r] BY <3>4, <3>5, <3>1, <1>0 DEF CTypes
      <3>8. /\ th' \in [Guests -> GuestRec] /\ th'[k] = r /\ \A x \in Guests : x # k => th'[x] = th[x]
        BY <3>1, <3>6, <3>7, <1>0 DEF CTypes
      <3> QED BY <2>2, <3>1, <3>6, <3>8 DEF f
    <2> QED BY <2>1, <2>2
  <1>8. CTypes' BY <1>0, <1>5, <1>6, <1>7 DEF CTypes
  <1>9. \A x \in Guests : \A i : InSlot(x, i)' <=> InSlot(x, i) BY <1>5, <1>7 DEF InSlot
  <1>10. \A x \in Guests : th'[x] # th[x] => x = k /\ k # Nobody /\ Live(k) /\ HalfWay(k, p)
    BY <1>4, <1>7 DEF RedirectAssumption
  <1>11. LocalAt(p)
    <2>1. ASSUME NEW x \in Guests
          PROVE  /\ th[x].bind.hp # p => th'[x] = th[x]
                 /\ Live(x)' <=> Live(x)
                 /\ th'[x].st \notin {"user", "dead"} => th'[x].b = th'[x].bind /\ th'[x].bind.hp \in Pds
      <3>1. CASE th'[x] = th[x] BY <3>1, <1>0 DEF Live, Bindings
      <3>2. CASE th'[x] # th[x]
        <4>1. x = k /\ HalfWay(x, p) /\ Live(x) /\ th'[x].st = "user" BY <3>2, <1>7, <1>10
        <4> QED BY <4>1 DEF HalfWay, Live
      <3> QED BY <3>1, <3>2
    <2> QED BY <2>1, <1>1, <1>5, <1>6, <1>7 DEF LocalAt
  <1>12. \A x \in GuestsAt(p) : GuestTrue(x)'
    <2> SUFFICES ASSUME NEW x \in GuestsAt(p) PROVE GuestTrue(x)' OBVIOUS
    <2>0. x \in Guests /\ th[x].bind.hp = p /\ GuestTrue(x) /\ x # Nobody BY DEF GuestsAt, CInv, RedirectAssumption
    <2>1. CASE th'[x] # th[x]
      <3>1. x = k /\ th'[k].st = "user" /\ th'[k].why = {} /\ th'[k].frame = <<k, th'[k].n, "res">>
        BY <2>0, <2>1, <1>7, <1>10
      <3> QED BY <3>1 DEF GuestTrue
    <2>2. CASE th'[x] = th[x]
      <3>1. th[x].st = "wait" => x # k \/ ~Live(x) BY <2>0, <2>2, <1>7
      <3>2. th[x].st = "wait" => x # k BY <3>1 DEF Live
      <3>3. th[x].st = "wait" /\ Where(x) => x \in ToSet(hep[p].senders)
        <4>1. \A i \in Handlers : PdOf[i] = p => i = h BY <1>1 DEF FixedBindings
        <4> QED BY <4>1, <3>2, <2>0, <1>3, <1>4 DEF Where
      <3>4. th[x].st = "wait" /\ Where(x) => Where(x)' BY <2>0, <2>2, <3>3, <1>5 DEF Where
      <3> QED BY <2>0, <2>2, <3>4, <1>5, <1>9 DEF GuestTrue
    <2> QED BY <2>1, <2>2
  <1>13. EpTrue(p)'
    <2>1. \A x \in ToSet(hep[p].senders) : x \in Guests /\ Asks(x, p) /\ InSlot(x, "req")
      BY <1>2, SeqSet DEF EpTrue
    <2>2. \A x \in ToSet(hep[p].senders) : th'[x] = th[x]
      <3> SUFFICES ASSUME NEW x \in ToSet(hep[p].senders), th'[x] # th[x] PROVE FALSE OBVIOUS
      <3>1. HalfWay(x, p) /\ Asks(x, p) BY <2>1, <1>10
      <3> QED BY <3>1 DEF HalfWay, Asks, Full
    <2>3. \A x \in ToSet(hep[p].senders) : Asks(x, p)' /\ InSlot(x, "req")' BY <2>1, <2>2, <1>9 DEF Asks
    <2>4. hep[p].receivers = <<>> BY <1>1, <1>2 DEF EpTrue, FixedBindings
    <2> QED BY <2>3, <2>4, <1>2, <1>4, <1>5 DEF EpTrue
  <1>14. \A i \in HandlersAt(p) : HandlerTrue(i)'
    <2> SUFFICES HandlerTrue(h)' BY <1>1, OnlyHandler
    <2> QED BY <1>1, <1>4, <1>5, <1>6 DEF HandlerTrue
  <1> QED BY <1>8, <1>11, <1>12, <1>13, <1>14, LocalStep

-----------------------------------------------------------------------------
(* Redirected calls: deaths                                                *)

LEMMA KillInv == ASSUME RedirectAssumption, FixedBindings, CInv, NEW g \in Guests, kill(g) PROVE CInv'
PROOF
  <1>0. CTypes /\ Bindings BY DEF CInv
  <1> DEFINE r == [th[g] EXCEPT !.st = "dead", !.bind = NoBind, !.b = NoBind, !.why = {}, !.frame = <<>>]
             S(p) == Without(hep[p].senders, g)
             C(p) == IF hep[p].caller = g THEN Nobody ELSE hep[p].caller
             O(p) == IF hep[p].caller = g THEN Nobody ELSE hep[p].owner
  <1>1. th' = [th EXCEPT ![g] = r] /\ UNCHANGED <<pds, sidecar, ht, ctl>> BY DEF kill
  <1>2. r \in GuestRec /\ r.st = "dead"
    <2>1. NoBind \in Bind BY DEF NoBind, Bind, Slots, RedirectAssumption
    <2>2. {} \in SUBSET Full /\ <<>> \in Frame BY DEF Frame
    <2> HIDE DEF NoBind
    <2> QED BY <2>1, <2>2, <1>0, CallTypes DEF GuestRec
  <1> HIDE DEF r
  <1>3. th' \in [Guests -> GuestRec] /\ th'[g].st = "dead" /\ \A x \in Guests : x # g => th'[x] = th[x]
    BY <1>0, <1>1, <1>2 DEF CTypes
  <1>4. ASSUME NEW p \in Pds
        PROVE  /\ hep[p] \in EpRec /\ hep[p].senders \in Seq(Guests) /\ S(p) \in Seq(Guests) /\ Len(S(p)) <= Len(hep[p].senders)
               /\ ToSet(S(p)) = ToSet(hep[p].senders) \ {g} /\ C(p) \in Guests \cup {Nobody}
               /\ O(p) \in Handlers \cup {Nobody}
    <2>1. hep[p].owner \in Handlers \cup {Nobody} BY <1>0, CallTypes DEF EpRec
    <2> QED BY <2>1, <1>0, CallTypes, WithoutLeaves
  <1>5. /\ hep' \in [Pds -> EpRec]
        /\ \A p \in Pds : /\ hep'[p].senders = S(p) /\ hep'[p].receivers = hep[p].receivers
                          /\ hep'[p].caller = C(p) /\ hep'[p].owner = O(p)
    <2>1. hep' = [p \in Pds |-> [hep[p] EXCEPT !.senders = S(p), !.caller = C(p), !.owner = O(p)]]
      BY <1>4 DEF kill, EpRec
    <2> HIDE DEF S, C, O
    <2>2. ASSUME NEW p \in Pds
          PROVE  /\ [hep[p] EXCEPT !.senders = S(p), !.caller = C(p), !.owner = O(p)] \in EpRec
                 /\ hep'[p].senders = S(p) /\ hep'[p].receivers = hep[p].receivers /\ hep'[p].caller = C(p)
                 /\ hep'[p].owner = O(p)
      BY <2>1, <1>4 DEF EpRec
    <2> QED BY <2>1, <2>2
  <1> HIDE DEF S
  <1>6. CTypes' BY <1>0, <1>1, <1>3, <1>5 DEF CTypes
  <1>7. ~Live(g)' /\ \A x \in Guests : x # g => (Live(x)' <=> Live(x)) BY <1>3 DEF Live
  <1>8. Bindings' BY <1>0, <1>3, <1>7 DEF Bindings
  <1>9. ASSUME NEW x \in Guests, x # g
        PROVE  /\ \A i : InSlot(x, i)' <=> InSlot(x, i)
               /\ \A p : Asks(x, p) => Asks(x, p)'
               /\ \A p : HalfWay(x, p) => HalfWay(x, p)'
    BY <1>1, <1>3, <1>9 DEF InSlot, Asks, HalfWay
  <1>10. ASSUME NEW x \in Guests PROVE GuestTrue(x)'
    <2>1. CASE x = g BY <2>1, <1>3 DEF GuestTrue
    <2>2. CASE x # g
      <3>1. GuestTrue(x) /\ th'[x] = th[x] BY <2>2, <1>3 DEF CInv
      <3>2. th[x].bind.hp \in Pds /\ Where(x) => Where(x)'
        <4> SUFFICES ASSUME NEW p \in Pds, th[x].bind.hp = p, Where(x) PROVE Where(x)' OBVIOUS
        <4>1. x \in ToSet(hep[p].senders) => x \in ToSet(S(p)) BY <2>2, <1>4
        <4>2. hep[p].caller = x => C(p) = x BY <2>2
        <4> QED BY <4>1, <4>2, <3>1, <1>1, <1>5 DEF Where
      <3>3. th[x].st = "wait" => th[x].bind.hp \in Pds BY <1>0 DEF Bindings
      <3> QED BY <2>2, <3>1, <3>2, <3>3, <1>1, <1>9 DEF GuestTrue
    <2> QED BY <2>1, <2>2
  <1>11. ASSUME NEW p \in Pds PROVE EpTrue(p)'
    <2>1. EpTrue(p) BY DEF CInv
    <2>2. Len(S(p)) <= QCap
      <3>1. Len(S(p)) \in Nat /\ Len(hep[p].senders) \in Nat BY <1>4
      <3> QED BY <3>1, <2>1, <1>4 DEF EpTrue, RedirectAssumption
    <2>3. SingleIn(S(p)) BY <2>1, <1>4, WithoutSingle DEF EpTrue, S
    <2>4. \A x \in ToSet(S(p)) : x \in Guests /\ x # g /\ x # Nobody BY <1>4, SeqSet DEF RedirectAssumption
    <2>5. C(p) \notin ToSet(S(p)) BY <2>1, <2>4, <1>4 DEF EpTrue
    <2>6. \A x \in ToSet(S(p)) : Asks(x, p)' /\ InSlot(x, "req")' BY <2>1, <2>4, <1>4, <1>9 DEF EpTrue
    <2>7. PICK c \in Guests \cup {Nobody} : c = C(p) BY <1>4
    <2>8. c # Nobody => c # g /\ c = hep[p].caller BY <2>7
    <2>9. c # Nobody => Asks(c, p)' BY <2>1, <2>8, <1>9 DEF EpTrue
    <2>10. c # Nobody => \E h \in Handlers : PdOf[h] = p /\ O(p) = h BY <2>1, <2>8 DEF EpTrue
    <2> HIDE DEF C, O
    <2>11. hep[p].receivers = <<>> \/ \E h \in Handlers :
             PdOf[h] = p /\ hep[p].receivers = <<h>> /\ ht'[h].at = "recv"
      BY <2>1, <1>1 DEF EpTrue
    <2> QED BY <2>2, <2>3, <2>5, <2>6, <2>7, <2>9, <2>10, <2>11, <1>5 DEF EpTrue
  <1>12. ASSUME NEW h \in Handlers PROVE HandlerTrue(h)'
    <2>1. PICK p \in Pds : p = PdOf[h] BY DEF RedirectAssumption
    <2>2. HandlerTrue(h) /\ EpTrue(p) BY DEF CInv
    <2>3. PICK c \in Guests \cup {Nobody}, d \in Guests \cup {Nobody}, k \in Guests \cup {Nobody} :
            c = hep[p].caller /\ d = C(p) /\ k = ht[h].guest
      BY <1>0, <1>4, CallTypes
    <2>4. d = (IF c = g THEN Nobody ELSE c) /\ g # Nobody BY <2>3 DEF RedirectAssumption
    <2> HIDE DEF C
    <2>5. d # Nobody => d = c /\ th'[d] = th[d] /\ \A i : InSlot(d, i)' <=> InSlot(d, i) BY <2>4, <1>3, <1>9
    <2>6. hep'[p].caller = d /\ ht' = ht /\ pds' = pds BY <2>3, <1>1, <1>5
    <2>7. ht[h].at \in {"got", "serve"} =>
            \A x \in Guests : Live(x)' /\ th'[x].bind = [hp |-> p, slot |-> ht[h].slot] => d = x
      <3> SUFFICES ASSUME ht[h].at \in {"got", "serve"}, NEW x \in Guests, Live(x)',
                          th'[x].bind = [hp |-> p, slot |-> ht[h].slot]
                   PROVE  d = x
        OBVIOUS
      <3>1. x # g /\ Live(x) /\ th[x].bind = [hp |-> p, slot |-> ht[h].slot] BY <1>3, <1>7
      <3>2. c = x BY <3>1, <2>1, <2>2, <2>3 DEF HandlerTrue
      <3> QED BY <3>1, <3>2, <2>4
    <2>8. ht[h].at = "transfer" => k = d \/ (d = Nobody /\ ~Live(k)')
      <3>1. ht[h].at = "transfer" => k = c \/ (c = Nobody /\ ~Live(k)) BY <2>1, <2>2, <2>3 DEF HandlerTrue
      <3>2. k = c /\ c = g => d = Nobody /\ ~Live(k)' BY <2>4, <1>7
      <3>3. k # Nobody /\ ~Live(k) => ~Live(k)' BY <1>7
      <3> QED BY <3>1, <3>2, <3>3, <2>4
    <2>9. ht[h].at = "wake" => k = Nobody \/ ~Live(k)' \/ HalfWay(k, p)'
      <3>1. ht[h].at = "wake" => k = Nobody \/ ~Live(k) \/ HalfWay(k, p) BY <2>1, <2>2, <2>3 DEF HandlerTrue
      <3>2. k # Nobody /\ k # g => (~Live(k) => ~Live(k)') /\ (HalfWay(k, p) => HalfWay(k, p)') BY <1>7, <1>9
      <3> QED BY <3>1, <3>2, <1>7
    <2>10. d # Nobody => c # Nobody /\ d = c BY <2>4
    <2> QED BY <2>1, <2>2, <2>3, <2>4, <2>5, <2>6, <2>7, <2>8, <2>9 DEF HandlerTrue
  <1> QED BY <1>6, <1>8, <1>10, <1>11, <1>12 DEF CInv

\* A handler thread dies.
LEMMA ExitInv ==
  ASSUME RedirectAssumption, FixedBindings, CInv, NEW h \in Handlers, exit(h) PROVE CInv'
PROOF
  <1>0. CTypes /\ HandlerTrue(h) BY DEF CInv
  <1>1. PICK p \in Pds : p = PdOf[h] BY DEF RedirectAssumption
  <1>2. /\ hep[p] \in EpRec /\ EpTrue(p) /\ hep[p].receivers \in Seq(Handlers)
        /\ ht[h].at \notin {"wake", "transfer"}
    BY <1>0, CallTypes DEF CInv, exit
  <1>3. Without(hep[p].receivers, h) = <<>>
    <2>1. ToSet(hep[p].receivers) \subseteq {h} BY <1>1, <1>2 DEF EpTrue, FixedBindings, ToSet
    <2>2. /\ Without(hep[p].receivers, h) \in Seq(Handlers)
          /\ ToSet(Without(hep[p].receivers, h)) = ToSet(hep[p].receivers) \ {h}
      BY <1>2, WithoutLeaves
    <2>3. ToSet(Without(hep[p].receivers, h)) = {} BY <2>1, <2>2
    <2> QED BY <2>2, <2>3, EmptyOnly
  <1>4. hep[p].owner # h => hep[p].caller = Nobody
    BY <1>1, <1>2 DEF EpTrue, FixedBindings
  <1> DEFINE C == IF hep[p].owner = h THEN Nobody ELSE hep[p].caller
             O == IF hep[p].owner = h THEN Nobody ELSE hep[p].owner
  <1>5. C = Nobody /\ O \in Handlers \cup {Nobody} BY <1>2, <1>4 DEF EpRec
  <1>6. hep' = [hep EXCEPT ![p].receivers = <<>>, ![p].caller = C, ![p].owner = O]
    BY <1>0, <1>1, <1>2, <1>3 DEF exit, CTypes, EpRec
  <1> HIDE DEF C, O
  <1>7. /\ hep' \in [Pds -> EpRec] /\ \A q \in Pds : q # p => hep'[q] = hep[q]
        /\ hep'[p].senders = hep[p].senders /\ hep'[p].receivers = <<>> /\ hep'[p].caller = Nobody
    <2>1. <<>> \in Seq(Handlers) OBVIOUS
    <2> QED BY <2>1, <1>0, <1>2, <1>5, <1>6 DEF CTypes, EpRec
  <1>8. /\ ht' \in [Handlers -> HandlerRec] /\ \A k \in Handlers : k # h => ht'[k] = ht[k]
        /\ ht'[h].at = "dead"
    <2> DEFINE d == [HIdle EXCEPT !.at = "dead"]
    <2>1. ht' = [ht EXCEPT ![h] = d] /\ d \in HandlerRec /\ d.at = "dead" BY IdleTyped DEF exit
    <2> HIDE DEF d
    <2> QED BY <2>1, <1>0 DEF CTypes
  <1>9. th' = Answered(hep[p].caller, "gone") /\ UNCHANGED <<pds, sidecar, ctl>>
    BY <1>1, <1>4 DEF exit, Answered
  <1>10. AnsweredBy(h, p, "gone") BY <1>7, <1>8, <1>9 DEF AnsweredBy
  <1> QED BY <1>1, <1>2, <1>9, <1>10, LetsGo

\* Nothing has happened to the queues of q.
LEMMA SameEndpoint ==
  ASSUME CInv, NEW q \in Pds, UNCHANGED <<th, sidecar, ht>>,
         hep'[q].senders = hep[q].senders, hep'[q].receivers = hep[q].receivers,
         hep'[q].caller = hep[q].caller, hep'[q].owner = hep[q].owner
  PROVE  EpTrue(q)'
PROOF
  <1>1. EpTrue(q) BY DEF CInv
  <1>2. \A x : (Asks(x, q)' <=> Asks(x, q)) /\ (InSlot(x, "req")' <=> InSlot(x, "req")) BY DEF Asks, InSlot
  <1>3. hep[q].caller # Nobody => Asks(hep[q].caller, q)' /\ \E h \in Handlers : PdOf[h] = q /\ hep[q].owner = h
    BY <1>1, <1>2 DEF EpTrue
  <1>4. \A x \in ToSet(hep[q].senders) : Asks(x, q)' /\ InSlot(x, "req")' BY <1>1, <1>2 DEF EpTrue
  <1> QED BY <1>1, <1>3, <1>4 DEF EpTrue

\* A gate closes or opens, or the entry of a PD is freed: the calls under way are as they were.
LEMMA GateInv ==
  ASSUME RedirectAssumption, CInv, NEW p \in Pds,
         pd_free(p) \/ set_quiescing(p) \/ close_endpoint(p) \/ open_endpoint(p)
  PROVE  CInv'
PROOF
  <1>0. CTypes BY DEF CInv
  <1>1. UNCHANGED <<th, sidecar, ht, ctl>> BY DEF pd_free, set_quiescing, close_endpoint, open_endpoint
  <1>2. /\ hep' \in [Pds -> EpRec]
        /\ \A q \in Pds : /\ hep'[q].senders = hep[q].senders /\ hep'[q].receivers = hep[q].receivers
                          /\ hep'[q].caller = hep[q].caller /\ hep'[q].owner = hep[q].owner
    <2>1. PICK b \in BOOLEAN : hep' = hep \/ hep' = [hep EXCEPT ![p].shut = b]
      BY DEF pd_free, set_quiescing, close_endpoint, open_endpoint
    <2>2. \A q \in Pds : hep[q] \in EpRec BY <1>0, CallTypes
    <2>3. CASE hep' = hep BY <2>3, <1>0 DEF CTypes
    <2>4. CASE hep' = [hep EXCEPT ![p].shut = b]
      <3> DEFINE e == [hep[p] EXCEPT !.shut = b]
      <3>1. /\ e \in EpRec /\ e.senders = hep[p].senders /\ e.receivers = hep[p].receivers
            /\ e.caller = hep[p].caller /\ e.owner = hep[p].owner
        BY <2>2 DEF EpRec
      <3>2. hep' = [hep EXCEPT ![p] = e] BY <2>4
      <3> HIDE DEF e
      <3> QED BY <3>1, <3>2, <1>0 DEF CTypes
    <2> QED BY <2>1, <2>3, <2>4
  <1>3. CTypes' BY <1>0, <1>1, <1>2 DEF CTypes
  <1>4. Bindings' BY <1>1 DEF CInv, Bindings, Live
  <1>5. \A g \in Guests : GuestTrue(g)'
    <2> SUFFICES ASSUME NEW g \in Guests PROVE GuestTrue(g)' OBVIOUS
    <2>1. GuestTrue(g) /\ (th[g].st = "wait" => th[g].bind.hp \in Pds) BY DEF CInv, Bindings
    <2>2. th[g].bind.hp \in Pds => (Where(g)' <=> Where(g)) BY <1>1, <1>2 DEF Where
    <2> QED BY <2>1, <2>2, <1>1 DEF GuestTrue, InSlot
  <1>6. \A q \in Pds : EpTrue(q)' BY <1>1, <1>2, SameEndpoint
  <1>7. \A h \in Handlers : HandlerTrue(h)'
    <2> SUFFICES ASSUME NEW h \in Handlers PROVE HandlerTrue(h)' OBVIOUS
    <2>1. HandlerTrue(h) /\ PdOf[h] \in Pds BY DEF CInv, RedirectAssumption
    <2>2. hep'[PdOf[h]].caller = hep[PdOf[h]].caller BY <2>1, <1>2
    <2> QED BY <2>1, <2>2, <1>1 DEF HandlerTrue, HalfWay, InSlot, Live
  <1> QED BY <1>3, <1>4, <1>5, <1>6, <1>7 DEF CInv

-----------------------------------------------------------------------------
(* Redirected calls: the theorem                                           *)

LEMMA CallsInit == ASSUME RedirectAssumption, RedirectInit PROVE CInv
PROOF
  <1>1. PICK s \in [Guests -> Slots] :
          /\ \A g, h \in Guests : g # h /\ Bound[g] = Bound[h] /\ Bound[g] # Nobody => s[g] # s[h]
          /\ th = [g \in Guests |-> [st |-> "user", bind |-> [hp |-> Bound[g], slot |-> s[g]],
                                     b |-> NoBind, why |-> {}, n |-> 0, frame |-> <<>>]]
          /\ pds = [p \in Pds |->
               LET of == {g \in Guests : PdOf[g] = p /\ Bound[g] # Nobody} IN
               [used |-> TRUE, quiet |-> FALSE, bound |-> Cardinality(of),
                edge |-> IF of = {} THEN Nobody ELSE Bound[CHOOSE g \in of : TRUE],
                mask |-> {s[g] : g \in {x \in Guests : Bound[x] = p}}]]
          /\ sidecar = [p \in Pds |-> [x \in Slots |-> <<>>]]
          /\ hep = [p \in Pds |-> [senders |-> <<>>, receivers |-> <<>>, caller |-> Nobody, owner |-> Nobody,
                                    shut |-> FALSE]]
          /\ ht = [h \in Handlers |-> HIdle]
          /\ ctl = [c \in Ctls |-> CIdle]
    BY Zenon DEF RedirectInit
  <1>2. 0 \in Slots /\ <<>> \in Frame /\ NoBind \in Bind
    BY DEF Slots, RedirectAssumption, Frame, NoBind, Bind
  <1>3. th \in [Guests -> GuestRec]
    <2>1. \A g \in Guests : [hp |-> Bound[g], slot |-> s[g]] \in Bind BY DEF Bind, RedirectAssumption
    <2> HIDE DEF NoBind
    <2> QED BY <2>1, <1>1, <1>2 DEF GuestRec
  <1>4. hep \in [Pds -> EpRec]
    <2>1. <<>> \in Seq(Guests) /\ <<>> \in Seq(Handlers) OBVIOUS
    <2> QED BY <2>1, <1>1 DEF EpRec
  <1>5. CTypes
    <2>1. ht \in [Handlers -> HandlerRec] BY <1>1, <1>2 DEF HIdle, HandlerRec
    <2>2. sidecar \in [Pds -> [Slots -> Frame]] BY <1>1, <1>2
    <2> QED BY <2>1, <2>2, <1>1, <1>3, <1>4 DEF CTypes
  <1>6. \A g \in Guests : /\ th[g].st = "user" /\ th[g].why = {} /\ th[g].n = 0
                          /\ th[g].bind = [hp |-> Bound[g], slot |-> s[g]]
    BY <1>1
  <1>7. Bindings
    <2>1. ASSUME NEW g \in Guests, NEW x \in Guests, g # x, th[g].bind.hp # Nobody
          PROVE  th[g].bind # th[x].bind
      BY <2>1, <1>1, <1>6
    <2> QED BY <2>1, <1>6 DEF Bindings
  <1>8. \A g \in Guests : GuestTrue(g)
    <2> SUFFICES ASSUME NEW g \in Guests PROVE GuestTrue(g) OBVIOUS
    <2>1. th[g].st = "user" /\ th[g].why = {} /\ th[g].n = 0 BY <1>6
    <2>2. ~(th[g].n > 0) BY <2>1
    <2> QED BY <2>1, <2>2 DEF GuestTrue
  <1>9. \A p \in Pds : EpTrue(p)
    <2> SUFFICES ASSUME NEW p \in Pds PROVE EpTrue(p) OBVIOUS
    <2>1. hep[p].senders = <<>> /\ hep[p].receivers = <<>> /\ hep[p].caller = Nobody BY <1>1
    <2>2. 0 <= QCap BY DEF RedirectAssumption
    <2> QED BY <2>1, <2>2, EmptySet DEF EpTrue
  <1>10. \A h \in Handlers : HandlerTrue(h)
    <2> SUFFICES ASSUME NEW h \in Handlers PROVE HandlerTrue(h) OBVIOUS
    <2>1. PdOf[h] \in Pds BY DEF RedirectAssumption
    <2>2. ht[h].at = "idle" /\ hep[PdOf[h]].caller = Nobody BY <2>1, <1>1 DEF HIdle
    <2> QED BY <2>2 DEF HandlerTrue
  <1> QED BY <1>5, <1>7, <1>8, <1>9, <1>10 DEF CInv

LEMMA CallsStep ==
  ASSUME RedirectAssumption, FixedBindings, CInv, [RedirectNext]_redirectVars
  PROVE  CInv'
PROOF
  <1>1. ASSUME NEW g \in Guests, Trap(g) PROVE CInv'
    BY <1>1, DispatchInv, AblegenInv, MarkInv, ZustellenInv DEF Trap
  <1>2. ASSUME NEW g \in Guests, kill(g) PROVE CInv' BY <1>2, KillInv
  <1>3. ASSUME NEW h \in Handlers, Handle(h) PROVE CInv'
    <2>0. CASE enter(h) BY <2>0, EnterInv
    <2>1. CASE recv(h) BY <2>1, EnterInv, RecvBlocks, RecvTakes
    <2>2. CASE serve(h)
      <3>1. ht[h].at \in {"got", "serve"} BY <2>2 DEF serve
      <3> QED BY <2>2, <3>1, ServeReads, ServeWrites
    <2>3. CASE read_caller(h) BY <2>3, ReadCallerInv
    <2>4. CASE reply(h) BY <2>4, ReplyToNobody, ReplyToCaller
    <2>5. CASE handler_reply(h) BY <2>5, HandlerReplyInv
    <2>6. CASE reply_grant(h) BY <2>6, GrantInv
    <2> QED BY <1>3, <2>0, <2>1, <2>2, <2>3, <2>4, <2>5, <2>6 DEF Handle
  <1>4. ASSUME NEW c \in Ctls, set_handler(c) \/ unbind_clear(c) \/ unbind_tables(c) PROVE FALSE
    <2>1. ctl[c].at = "idle" BY DEF CInv, CTypes, CIdle
    <2> QED BY <1>4, <2>1 DEF set_handler, unbind_clear, unbind_tables
  <1>5. ASSUME NEW c, NEW g, unbind_read(c, g) \/ \E hp \in Pds : bind_tables(c, g, hp) PROVE FALSE
    BY <1>5 DEF unbind_read, bind_tables, FixedBindings
  <1>6. ASSUME NEW p \in Pds, pd_free(p) \/ set_quiescing(p) \/ close_endpoint(p) \/ open_endpoint(p)
        PROVE  CInv'
    BY <1>6, GateInv
  <1>8. ASSUME NEW h \in Handlers, exit(h) PROVE CInv' BY <1>8, ExitInv
  <1>7. ASSUME UNCHANGED redirectVars PROVE CInv'
    <2>1. UNCHANGED <<th, pds, sidecar, hep, ht, ctl>> BY <1>7 DEF redirectVars
    <2>2. CTypes' BY <2>1 DEF CInv, CTypes
    <2>3. Bindings' BY <2>1 DEF CInv, Bindings, Live
    <2>4. \A g \in Guests : GuestTrue(g)' BY <2>1 DEF CInv, GuestTrue, Where, InSlot
    <2>5. \A p \in Pds : EpTrue(p)' BY <2>1, SameEndpoint
    <2>6. \A h \in Handlers : HandlerTrue(h)' BY <2>1 DEF CInv, HandlerTrue, HalfWay, InSlot, Live
    <2> QED BY <2>2, <2>3, <2>4, <2>5, <2>6 DEF CInv
  <1> QED BY <1>1, <1>2, <1>3, <1>4, <1>5, <1>6, <1>7, <1>8 DEF RedirectNext

LEMMA CallsAnswered == ASSUME RedirectAssumption, CInv PROVE NoGuestLost /\ OwnAnswer
PROOF
  <1>0. Bindings /\ \A g \in Guests : GuestTrue(g) BY DEF CInv
  <1>1. OwnAnswer BY <1>0 DEF OwnAnswer, GuestTrue
  <1>2. ASSUME NEW g \in Guests, th[g].st = "wait"
        PROVE  \/ g \in ToSet(hep[th[g].b.hp].senders) \/ hep[th[g].b.hp].caller = g
               \/ \E h \in Handlers : ht[h].guest = g /\ ht[h].at = "wake" /\ "IPC" \notin th[g].why
               \/ Adrift(g, "cap") \/ Adrift(g, "gone")
    <2>1. th[g].b = th[g].bind /\ Live(g) /\ g # Nobody BY <1>0, <1>2 DEF Bindings, Live, RedirectAssumption
    <2>2. Where(g) \/ Adrift(g, "cap") \/ Adrift(g, "gone") BY <1>0, <1>2, <2>1 DEF GuestTrue, Adrift
    <2>3. ASSUME NEW h \in Handlers, ht[h].guest = g, ht[h].at = "wake" PROVE "IPC" \notin th[g].why
      <3>1. HandlerTrue(h) BY DEF CInv
      <3>2. HalfWay(g, PdOf[h]) BY <2>1, <2>3, <3>1 DEF HandlerTrue
      <3> QED BY <3>2 DEF HalfWay
    <2> QED BY <2>1, <2>2, <2>3 DEF Where
  <1> QED BY <1>1, <1>2 DEF NoGuestLost

-----------------------------------------------------------------------------
(* SETHANDLER: the invariant                                               *)

PdRec == [used : BOOLEAN, quiet : BOOLEAN, bound : Nat, edge : Pds \cup {Nobody}, mask : SUBSET Slots]
CtlRec == [at : {"idle", "set", "clear", "free"}, g : Guests \cup {Nobody}, b : Bind]

\* The bindings of g the tables know of: the one at the thread, and one on its way there or back.
Entry(g) ==
  {b \in Bind : b.hp # Nobody /\ \/ th[g].bind = b
                                 \/ \E c \in Ctls : ctl[c].at \in {"set", "free"} /\ ctl[c].g = g /\ ctl[c].b = b}
Entered(p) == {g \in Guests : PdOf[g] = p /\ Entry(g) # {}}

TTypes ==
  /\ DOMAIN th = Guests
  /\ \A g \in Guests : {"st", "bind", "why"} \subseteq DOMAIN th[g] /\ th[g].bind \in Bind /\ Live(g)
  /\ pds \in [Pds -> PdRec] /\ \A g \in Guests : pds[PdOf[g]].used
  /\ ctl \in [Ctls -> CtlRec]

CtlTrue(c) ==
  /\ ctl[c].at = "idle" => ctl[c] = CIdle
  /\ ctl[c].at # "idle" => ctl[c].g \in Holds[c] /\ ctl[c].b.hp # Nobody
  /\ ctl[c].at \in {"set", "free"} => th[ctl[c].g].bind.hp = Nobody
  /\ ctl[c].at = "clear" => th[ctl[c].g].bind = ctl[c].b

EdgesEntered ==
  \A p \in Pds : /\ pds[p].bound = Cardinality(Entered(p))
                 /\ pds[p].edge = Nobody <=> Entered(p) = {}
                 /\ \A g \in Entered(p) : \A b \in Entry(g) : b.hp = pds[p].edge
SlotsEntered ==
  /\ \A p \in Pds, s \in Slots : pds[p].used =>
       (s \in pds[p].mask <=> \E g \in Guests : [hp |-> p, slot |-> s] \in Entry(g))
  /\ \A p \in Pds : ~pds[p].used => pds[p].mask = {}
  /\ \A g, x \in Guests : g # x => Entry(g) \cap Entry(x) = {}
EdgesGrounded == \A S \in SUBSET Pds : S # {} => \E p \in S : pds[p].edge \notin S

TInv ==
  /\ TTypes /\ \A c \in Ctls : CtlTrue(c)
  /\ EdgesEntered /\ SlotsEntered /\ EdgesGrounded

-----------------------------------------------------------------------------
(* SETHANDLER: the verdict                                                 *)

Chain(e, h, n, f) ==
  [i \in 0 .. n |-> IF i = 0 THEN h ELSE IF f[i - 1] = Nobody THEN Nobody ELSE e[f[i - 1]].edge]

LEMMA ChainExists ==
  ASSUME NEW e, NEW h, NEW N \in Nat
  PROVE  \A n \in 0 .. N : \E f : f = Chain(e, h, n, f)
PROOF
  <1> DEFINE Bad == {n \in 0 .. N : ~\E f : f = Chain(e, h, n, f)}
  <1>1. SUFFICES ASSUME Bad # {} PROVE FALSE OBVIOUS
  <1>2. Bad \in SUBSET Nat OBVIOUS
  <1>3. PICK n \in Bad : \A m \in Bad : n <= m BY <1>1, <1>2, LeastNatural
  <1>4. n # 0
    <2> SUFFICES ASSUME n = 0 PROVE FALSE OBVIOUS
    <2> DEFINE f == [i \in 0 .. 0 |-> h]
    <2>1. f = Chain(e, h, 0, f) BY DEF Chain
    <2> QED BY <2>1
  <1>5. PICK g : g = Chain(e, h, n - 1, g)
    <2>1. n - 1 \in 0 .. N /\ n - 1 \notin Bad BY <1>2, <1>3, <1>4
    <2> QED BY <2>1
  <1> DEFINE last == IF g[n - 1] = Nobody THEN Nobody ELSE e[g[n - 1]].edge
  <1> HIDE DEF last
  <1> DEFINE f == [i \in 0 .. n |-> IF i = n THEN last ELSE g[i]]
  <1>6. f = Chain(e, h, n, f)
    <2>0. n \in Nat /\ n # 0 BY <1>2, <1>4
    <2> SUFFICES ASSUME NEW i \in 0 .. n
                 PROVE  f[i] = IF i = 0 THEN h ELSE IF f[i - 1] = Nobody THEN Nobody ELSE e[f[i - 1]].edge
      BY DEF Chain
    <2>1. CASE i = n
      <3>1. f[i] = last /\ f[i - 1] = g[n - 1] BY <2>0, <2>1
      <3> QED BY <3>1, <2>1, <2>0 DEF last
    <2>2. CASE i # n
      <3>1. i \in 0 .. n - 1 /\ f[i] = g[i] BY <2>0, <2>2
      <3>2. i # 0 => f[i - 1] = g[i - 1] BY <2>0, <2>2
      <3>3. g[i] = IF i = 0 THEN h ELSE IF g[i - 1] = Nobody THEN Nobody ELSE e[g[i - 1]].edge
        BY <1>5, <3>1 DEF Chain
      <3> QED BY <3>1, <3>2, <3>3
    <2> QED BY <2>1, <2>2
  <1> HIDE DEF f
  <1> QED BY <1>3, <1>6

\* What the walk along the edges sees.
LEMMA KetteStep ==
  ASSUME NEW hp, Cardinality(Pds) \in Nat, NEW i \in 0 .. Cardinality(Pds)
  PROVE  kette(hp)[i] = IF i = 0 THEN hp
                        ELSE IF kette(hp)[i - 1] = Nobody THEN Nobody ELSE pds[kette(hp)[i - 1]].edge
PROOF
  <1>1. PICK N \in Nat : N = Cardinality(Pds) OBVIOUS
  <1>2. kette(hp) = CHOOSE f : f = Chain(pds, hp, N, f) BY <1>1 DEF kette, Chain
  <1>3. N \in 0 .. N BY <1>1
  <1>4. \E f : f = Chain(pds, hp, N, f) BY <1>3, ChainExists
  <1>5. kette(hp) = Chain(pds, hp, N, kette(hp)) BY <1>2, <1>4
  <1> QED BY <1>1, <1>5 DEF Chain

\* A handler the verdict admits does not lead back: with the new edge from P to hp there is still
\* no ring.
LEMMA NoNewRing ==
  ASSUME RedirectAssumption, EdgesGrounded, NEW P \in Pds, NEW hp \in Pds,
         \A n \in 0 .. Cardinality(Pds) : kette(hp)[n] # P, kette(hp)[Cardinality(Pds)] = Nobody,
         NEW e, \A p \in Pds : e[p] = IF p = P THEN hp ELSE pds[p].edge
  PROVE  \A S \in SUBSET Pds : S # {} => \E p \in S : e[p] \notin S
PROOF
  <1> SUFFICES ASSUME NEW S \in SUBSET Pds, S # {}, \A p \in S : e[p] \in S PROVE FALSE OBVIOUS
  <1>1. P \in S BY DEF EdgesGrounded
  <1>2. hp \in S BY <1>1
  <1>3. PICK N \in Nat : N = Cardinality(Pds) BY FS_CardinalityType DEF RedirectAssumption
  <1> DEFINE Bad == {n \in 0 .. N : kette(hp)[n] \notin S}
  <1>4. N \in Bad BY <1>3 DEF RedirectAssumption
  <1>5. Bad \in SUBSET Nat /\ Bad # {} BY <1>4
  <1>6. PICK n \in Bad : \A m \in Bad : n <= m BY <1>5, LeastNatural
  <1>7. n \in 0 .. N /\ n \in Nat /\ kette(hp)[n] \notin S BY <1>3
  <1>8. n # 0 BY <1>2, <1>3, <1>7, KetteStep
  <1>9. n - 1 \in 0 .. N /\ n - 1 \notin Bad BY <1>3, <1>6, <1>7, <1>8
  <1>10. PICK q \in S : q = kette(hp)[n - 1] BY <1>9
  <1>11. q # P /\ q # Nobody /\ q \in Pds BY <1>3, <1>9, <1>10 DEF RedirectAssumption
  <1>12. kette(hp)[n] = pds[q].edge BY <1>3, <1>7, <1>8, <1>10, <1>11, KetteStep
  <1>13. e[q] \in S /\ e[q] = pds[q].edge BY <1>11
  <1> QED BY <1>7, <1>12, <1>13

\* The slot that is given out is free.
LEMMA BelegenFree ==
  ASSUME RedirectAssumption, NEW hp, pds[hp].mask \in SUBSET Slots, Cardinality(pds[hp].mask) < NSlots
  PROVE  sidecar_belegen(hp) \in Slots /\ sidecar_belegen(hp) \notin pds[hp].mask
PROOF
  <1> DEFINE F == Slots \ pds[hp].mask
  <1>1. NSlots \in Nat \ {0} /\ Slots = 0 .. NSlots - 1 BY DEF RedirectAssumption, Slots
  <1>2. Cardinality(Slots) = NSlots
    <2>1. 0 \in Int /\ NSlots - 1 \in Int /\ ~(0 > NSlots - 1) /\ (NSlots - 1) - 0 + 1 = NSlots BY <1>1
    <2>2. Cardinality(0 .. NSlots - 1) = (NSlots - 1) - 0 + 1 BY <2>1, FS_Interval
    <2> QED BY <2>1, <2>2, <1>1
  <1>3. F # {}
    <2> SUFFICES ASSUME F = {} PROVE FALSE OBVIOUS
    <2>1. pds[hp].mask = Slots OBVIOUS
    <2> QED BY <2>1, <1>1, <1>2
  <1>4. F \in SUBSET Nat BY <1>1
  <1>5. \E x \in F : \A y \in F : x <= y BY <1>3, <1>4, LeastNatural
  <1>6. sidecar_belegen(hp) \in F BY <1>5 DEF sidecar_belegen, Min
  <1> QED BY <1>6

-----------------------------------------------------------------------------
(* SETHANDLER: entries                                                     *)

\* A guest is in the hands of one caller at most.
LEMMA OneHolder ==
  ASSUME OwnThreads, \A c \in Ctls : CtlTrue(c), NEW c \in Ctls, NEW d \in Ctls,
         ctl[c].at # "idle", ctl[d].at # "idle", ctl[c].g = ctl[d].g
  PROVE  c = d
  BY DEF OwnThreads, CtlTrue

\* The entry of a guest whose binding is on its way, and of one that nobody changes.
LEMMA EntryOnTheWay ==
  ASSUME OwnThreads, TTypes, \A c \in Ctls : CtlTrue(c), NEW c \in Ctls, ctl[c].at \in {"set", "free"}
  PROVE  Entry(ctl[c].g) = {ctl[c].b}
PROOF
  <1>1. ctl[c].b \in Bind /\ ctl[c].b.hp # Nobody /\ th[ctl[c].g].bind.hp = Nobody
    BY DEF TTypes, CtlRec, CtlTrue
  <1>2. \A d \in Ctls : ctl[d].at \in {"set", "free"} /\ ctl[d].g = ctl[c].g => d = c BY OneHolder
  <1> QED BY <1>1, <1>2 DEF Entry

LEMMA EntryAtRest ==
  ASSUME TTypes, NEW g \in Guests, \A c \in Ctls : ~(ctl[c].at \in {"set", "free"} /\ ctl[c].g = g)
  PROVE  Entry(g) = IF th[g].bind.hp # Nobody THEN {th[g].bind} ELSE {}
  BY DEF Entry, TTypes

\* The tables stand still and so do the entries.
LEMMA EntriesSame ==
  ASSUME TInv, TTypes', \A c \in Ctls : CtlTrue(c)', \A g \in Guests : Entry(g)' = Entry(g), pds' = pds
  PROVE  TInv'
PROOF
  <1>1. \A p : Entered(p)' = Entered(p) BY DEF Entered
  <1>2. EdgesEntered'
    <2> SUFFICES ASSUME NEW p \in Pds
                 PROVE  /\ pds[p].bound = Cardinality(Entered(p)) /\ (pds[p].edge = Nobody <=> Entered(p) = {})
                        /\ \A g \in Entered(p) : \A b \in Entry(g)' : b.hp = pds[p].edge
      BY <1>1 DEF EdgesEntered
    <2>1. \A g \in Entered(p) : Entry(g)' = Entry(g) BY DEF Entered
    <2> QED BY <2>1 DEF TInv, EdgesEntered
  <1>3. SlotsEntered'
    <2>1. SlotsEntered BY DEF TInv
    <2> QED BY <2>1 DEF SlotsEntered
  <1>4. EdgesGrounded' BY DEF TInv, EdgesGrounded
  <1> QED BY <1>2, <1>3, <1>4 DEF TInv

\* What the calls leave alone: the bindings, and that everybody lives.
BindKept ==
  /\ DOMAIN th' = Guests /\ ctl' = ctl
  /\ \A g \in Guests : {"st", "bind", "why"} \subseteq DOMAIN th'[g] /\ th'[g].bind = th[g].bind /\ Live(g)'

LEMMA CallsKeepBind ==
  ASSUME RedirectAssumption, TInv, BindKept
  PROVE  (\A c \in Ctls : CtlTrue(c)') /\ (\A g \in Guests : Entry(g)' = Entry(g))
PROOF
  <1>1. \A g \in Guests : Entry(g)' = Entry(g) BY DEF Entry, BindKept
  <1>2. ASSUME NEW c \in Ctls PROVE CtlTrue(c)'
    <2>1. CtlTrue(c) /\ ctl' = ctl /\ ctl[c] \in CtlRec BY DEF TInv, BindKept, TTypes
    <2>2. PICK k \in Guests \cup {Nobody} : k = ctl[c].g BY <2>1 DEF CtlRec
    <2>3. k # Nobody => th'[k].bind = th[k].bind BY DEF BindKept
    <2>4. ctl[c].at # "idle" => k \in Guests BY <2>1, <2>2 DEF CtlTrue, RedirectAssumption
    <2>5. k \in Guests => k # Nobody BY DEF RedirectAssumption
    <2> QED BY <2>1, <2>2, <2>3, <2>4, <2>5 DEF CtlTrue
  <1> QED BY <1>1, <1>2

LEMMA CallsTables ==
  ASSUME RedirectAssumption, TInv, BindKept, pds' = pds
  PROVE  TInv'
PROOF
  <1>1. TTypes' BY DEF TInv, TTypes, BindKept
  <1> QED BY <1>1, CallsKeepBind, EntriesSame

LEMMA WokenKeeps ==
  ASSUME NEW t, NEW reason, {"st", "bind", "why"} \subseteq DOMAIN t, t.st # "dead"
  PROVE  /\ {"st", "bind", "why"} \subseteq DOMAIN Woken(t, reason)
         /\ Woken(t, reason).bind = t.bind /\ Woken(t, reason).st # "dead"
  BY DEF Woken

\* The thread x takes the record r.
LEMMA OneThread ==
  ASSUME TInv, NEW x, NEW r, th' = [th EXCEPT ![x] = r], ctl' = ctl,
         x \in Guests => {"st", "bind", "why"} \subseteq DOMAIN r /\ r.bind = th[x].bind /\ r.st # "dead"
  PROVE  BindKept
  BY DEF BindKept, TInv, TTypes, Live

LEMMA AnsweredKeeps ==
  ASSUME TInv, NEW x, NEW kind, th' = Answered(x, kind), ctl' = ctl
  PROVE  BindKept
PROOF
  <1>0. \A y \in Guests : {"st", "bind", "why"} \subseteq DOMAIN th[y] /\ th[y].st # "dead"
    BY DEF TInv, TTypes, Live
  <1> DEFINE u == [th[x] EXCEPT !.frame = <<x, th[x].n, kind>>]
  <1>1. th' = th \/ th' = [th EXCEPT ![x] = Woken(u, "IPC")] BY DEF Answered
  <1>2. x \in Guests => {"st", "bind", "why"} \subseteq DOMAIN u /\ u.bind = th[x].bind /\ u.st # "dead"
    BY <1>0
  <1> HIDE DEF u
  <1>3. x \in Guests => /\ {"st", "bind", "why"} \subseteq DOMAIN Woken(u, "IPC")
                        /\ Woken(u, "IPC").bind = th[x].bind /\ Woken(u, "IPC").st # "dead"
    BY <1>2, WokenKeeps
  <1>4. th' = th => BindKept BY DEF BindKept, TInv, TTypes, Live
  <1> QED BY <1>1, <1>3, <1>4, OneThread

LEMMA TrapTables == ASSUME RedirectAssumption, TInv, NEW g \in Guests, Trap(g) PROVE TInv'
PROOF
  <1>0. {"st", "bind", "why"} \subseteq DOMAIN th[g] /\ Live(g) /\ DOMAIN th = Guests BY DEF TInv, TTypes
  <1>1. pds' = pds /\ ctl' = ctl BY DEF Trap, dispatch, sidecar_ablegen, mark_handler_wait, zustellen
  <1>2. BindKept
    <2>1. CASE dispatch(g) BY <2>1, <1>0, <1>1 DEF dispatch, BindKept, TInv, TTypes, Live
    <2>2. CASE sidecar_ablegen(g) BY <2>2, <1>0, <1>1 DEF sidecar_ablegen, BindKept, TInv, TTypes, Live
    <2>3. CASE mark_handler_wait(g) BY <2>3, <1>0, <1>1 DEF mark_handler_wait, BindKept, TInv, TTypes, Live
    <2>4. CASE zustellen(g)
      <3>1. \/ th' = [th EXCEPT ![g].st = "stuck"]
            \/ th' = [th EXCEPT ![g].why = {"HANDLER", "IPC"}, ![g].st = "wait"]
        BY <2>4 DEF zustellen
      <3> QED BY <3>1, <1>0, <1>1 DEF BindKept, TInv, TTypes, Live
    <2> QED BY <2>1, <2>2, <2>3, <2>4 DEF Trap
  <1> QED BY <1>1, <1>2, CallsTables

LEMMA HandleTables == ASSUME RedirectAssumption, TInv, NEW h \in Handlers, Handle(h) PROVE TInv'
PROOF
  <1>0. \A x \in Guests : {"st", "bind", "why"} \subseteq DOMAIN th[x] /\ th[x].st # "dead"
    BY DEF TInv, TTypes, Live
  <1>1. pds' = pds /\ ctl' = ctl 
    BY DEF Handle, enter, recv, serve, read_caller, reply, handler_reply, reply_grant
  <1>2. th' = th => BindKept BY <1>1 DEF BindKept, TInv, TTypes, Live
  <1>3. CASE enter(h) \/ recv(h) \/ serve(h) \/ read_caller(h)
    <2>1. th' = th BY <1>3 DEF enter, recv, serve, read_caller
    <2> QED BY <2>1, <1>1, <1>2, CallsTables
  <1>4. CASE reply(h) \/ reply_grant(h)
    <2>1. BindKept BY <1>1, <1>4, AnsweredKeeps DEF reply, reply_grant
    <2> QED BY <2>1, <1>1, CallsTables
  <1>5. CASE handler_reply(h)
    <2> DEFINE x == ht[h].guest
               b == th[x].bind
               f == IF b.hp = Nobody \/ sidecar[b.hp][b.slot] = <<>> THEN th[x].frame ELSE sidecar[b.hp][b.slot]
               u == [th[x] EXCEPT !.frame = f]
    <2>1. th' = th \/ th' = [th EXCEPT ![x] = Woken(u, "HANDLER")] BY <1>5, Zenon DEF handler_reply
    <2> HIDE DEF f
    <2>2. x \in Guests => {"st", "bind", "why"} \subseteq DOMAIN u /\ u.bind = th[x].bind /\ u.st # "dead"
      BY <1>0
    <2> HIDE DEF u
    <2>3. x \in Guests => /\ {"st", "bind", "why"} \subseteq DOMAIN Woken(u, "HANDLER")
                          /\ Woken(u, "HANDLER").bind = th[x].bind /\ Woken(u, "HANDLER").st # "dead"
      BY <2>2, WokenKeeps
    <2> HIDE DEF x
    <2>4. BindKept BY <2>1, <2>3, <1>1, <1>2, OneThread
    <2> QED BY <2>4, <1>1, CallsTables
  <1> QED BY <1>3, <1>4, <1>5 DEF Handle

-----------------------------------------------------------------------------
(* SETHANDLER: steps between tables and thread                             *)

\* The binding of g becomes b, and nothing else happens to the threads.
BindsOnly(g, b) ==
  /\ DOMAIN th' = Guests /\ \A x \in Guests : x # g => th'[x] = th[x]
  /\ th'[g].bind = b /\ {"st", "bind", "why"} \subseteq DOMAIN th'[g] /\ Live(g)'

\* One caller goes on with its guest g: what is then the entry of g.
LEMMA EntryAfter ==
  ASSUME RedirectAssumption, OwnThreads, TInv, NEW c \in Ctls, NEW g \in Holds[c], NEW r, NEW b, NEW w \in Bind,
         ctl' = [ctl EXCEPT ![c] = r], BindsOnly(g, b), w.hp # Nobody,
         \/ r.at \in {"set", "free"} /\ r.g = g /\ r.b = w /\ b.hp = Nobody
         \/ r.at \notin {"set", "free"} /\ b = w
  PROVE  Entry(g)' = {w}
PROOF
  <1>0. TTypes /\ (\A d \in Ctls : CtlTrue(d)) /\ g \in Guests BY DEF TInv, RedirectAssumption
  <1>1. th'[g].bind = b BY DEF BindsOnly
  <1>2. ctl'[c] = r /\ \A d \in Ctls : d # c => ctl'[d] = ctl[d] BY <1>0 DEF TTypes
  <1>3. \A d \in Ctls : d # c => ~(ctl'[d].at \in {"set", "free"} /\ ctl'[d].g = g)
    BY <1>0, <1>2 DEF CtlTrue, OwnThreads
  <1> QED BY <1>1, <1>2, <1>3 DEF Entry

LEMMA EntryGone ==
  ASSUME RedirectAssumption, OwnThreads, TInv, NEW c \in Ctls, NEW g \in Holds[c], NEW r, NEW b,
         ctl' = [ctl EXCEPT ![c] = r], BindsOnly(g, b), r.at \notin {"set", "free"}, b.hp = Nobody
  PROVE  Entry(g)' = {}
PROOF
  <1>0. TTypes /\ (\A d \in Ctls : CtlTrue(d)) /\ g \in Guests BY DEF TInv, RedirectAssumption
  <1>1. th'[g].bind = b BY DEF BindsOnly
  <1>2. ctl'[c] = r /\ \A d \in Ctls : d # c => ctl'[d] = ctl[d] BY <1>0 DEF TTypes
  <1>3. \A d \in Ctls : d # c => ~(ctl'[d].at \in {"set", "free"} /\ ctl'[d].g = g)
    BY <1>0, <1>2 DEF CtlTrue, OwnThreads
  <1> QED BY <1>1, <1>2, <1>3 DEF Entry

\* What it is for the others, and that the callers are where they should be.
LEMMA CtlOthers ==
  ASSUME RedirectAssumption, OwnThreads, TInv, NEW c \in Ctls, NEW g \in Holds[c], NEW r \in CtlRec, NEW b \in Bind,
         ctl' = [ctl EXCEPT ![c] = r], BindsOnly(g, b),
         ctl[c].at = "idle" \/ ctl[c].g = g, r = CIdle \/ (r.at # "idle" /\ r.g = g /\ r.b.hp # Nobody),
         r.at \in {"set", "free"} => b.hp = Nobody, r.at = "clear" => b = r.b
  PROVE  /\ ctl' \in [Ctls -> CtlRec] /\ \A d \in Ctls : CtlTrue(d)'
         /\ \A x \in Guests : x # g => Entry(x)' = Entry(x)
         /\ \A x \in Guests : {"st", "bind", "why"} \subseteq DOMAIN th'[x] /\ th'[x].bind \in Bind /\ Live(x)'
PROOF
  <1>0. TTypes /\ (\A d \in Ctls : CtlTrue(d)) /\ g \in Guests BY DEF TInv, RedirectAssumption
  <1>1. th'[g].bind = b /\ \A x \in Guests : x # g => th'[x] = th[x] BY DEF BindsOnly
  <1>2. ctl' \in [Ctls -> CtlRec] /\ ctl'[c] = r /\ \A d \in Ctls : d # c => ctl'[d] = ctl[d]
    BY <1>0 DEF TTypes
  <1>3. \A x \in Guests : {"st", "bind", "why"} \subseteq DOMAIN th'[x] /\ th'[x].bind \in Bind /\ Live(x)'
    BY <1>0 DEF TTypes, Live, BindsOnly
  <1>4. \A d \in Ctls : d # c /\ ctl[d].at # "idle" => ctl[d].g \in Guests /\ ctl[d].g # g
    BY <1>0 DEF CtlTrue, OwnThreads, RedirectAssumption
  <1>5. ASSUME NEW d \in Ctls PROVE CtlTrue(d)'
    <2>1. CASE d = c BY <2>1, <1>0, <1>1, <1>2 DEF CtlTrue, CIdle
    <2>2. CASE d # c
      <3>1. ctl'[d] = ctl[d] /\ CtlTrue(d) BY <2>2, <1>0, <1>2
      <3>2. ctl[d].at # "idle" => th'[ctl[d].g] = th[ctl[d].g] BY <2>2, <1>1, <1>4
      <3> QED BY <3>1, <3>2 DEF CtlTrue
    <2> QED BY <2>1, <2>2
  <1>6. ASSUME NEW x \in Guests, x # g PROVE Entry(x)' = Entry(x)
    <2>1. ASSUME NEW d \in Ctls
          PROVE  \A y : ctl'[d].at \in {"set", "free"} /\ ctl'[d].g = x /\ ctl'[d].b = y
                        <=> ctl[d].at \in {"set", "free"} /\ ctl[d].g = x /\ ctl[d].b = y
      <3>1. CASE d # c BY <3>1, <1>2
      <3>2. CASE d = c
        <4>1. ~(r.at \in {"set", "free"} /\ r.g = x) BY <1>6 DEF CIdle
        <4>2. ~(ctl[c].at \in {"set", "free"} /\ ctl[c].g = x) BY <1>6
        <4> QED BY <3>2, <4>1, <4>2, <1>2
      <3> QED BY <3>1, <3>2
    <2>2. th'[x] = th[x] BY <1>1, <1>6
    <2> QED BY <2>1, <2>2 DEF Entry
  <1> QED BY <1>2, <1>3, <1>5, <1>6

LEMMA CtlStep ==
  ASSUME RedirectAssumption, OwnThreads, TInv, NEW c \in Ctls, NEW g \in Holds[c], NEW r \in CtlRec, NEW b \in Bind,
         ctl' = [ctl EXCEPT ![c] = r], BindsOnly(g, b), pds' = pds,
         ctl[c].at = "idle" \/ ctl[c].g = g, r = CIdle \/ (r.at # "idle" /\ r.g = g /\ r.b.hp # Nobody),
         r.at \in {"set", "free"} => b.hp = Nobody, r.at = "clear" => b = r.b,
         Entry(g)' = Entry(g)
  PROVE  TInv'
PROOF
  <1>1. /\ ctl' \in [Ctls -> CtlRec] /\ \A d \in Ctls : CtlTrue(d)'
        /\ \A x \in Guests : x # g => Entry(x)' = Entry(x)
        /\ \A x \in Guests : {"st", "bind", "why"} \subseteq DOMAIN th'[x] /\ th'[x].bind \in Bind /\ Live(x)'
    BY CtlOthers
  <1>2. TTypes' BY <1>1 DEF TTypes, TInv, BindsOnly
  <1>3. \A x \in Guests : Entry(x)' = Entry(x) BY <1>1
  <1> QED BY <1>1, <1>2, <1>3, EntriesSame

LEMMA SetHandlerInv ==
  ASSUME RedirectAssumption, OwnThreads, TInv, NEW c \in Ctls, set_handler(c) PROVE TInv'
PROOF
  <1>0. TTypes /\ (\A d \in Ctls : CtlTrue(d)) BY DEF TInv
  <1>1. ctl[c].at = "set" /\ ctl[c] \in CtlRec BY <1>0 DEF set_handler, TTypes
  <1>2. PICK g \in Holds[c], b \in Bind : g = ctl[c].g /\ b = ctl[c].b /\ b.hp # Nobody /\ g \in Guests
    BY <1>0, <1>1 DEF CtlTrue, CtlRec, RedirectAssumption
  <1>3. Live(g) BY <1>0, <1>2 DEF TTypes
  <1>4. th' = [th EXCEPT ![g].bind = b] /\ pds' = pds /\ ctl' = [ctl EXCEPT ![c] = CIdle]
    BY <1>2, <1>3 DEF set_handler
  <1>5. CIdle \in CtlRec /\ CIdle.at = "idle" BY DEF CIdle, CtlRec, NoBind, Bind, Slots, RedirectAssumption
  <1>6. Entry(g) = {b} BY <1>0, <1>1, <1>2, EntryOnTheWay
  <1> HIDE DEF CIdle
  <1>8. BindsOnly(g, b) BY <1>0, <1>2, <1>4 DEF BindsOnly, TTypes, Live
  <1>7. Entry(g)' = {b}
    <2>1. PICK r \in CtlRec : r = CIdle BY <1>5
    <2>2. ctl' = [ctl EXCEPT ![c] = r] /\ r.at \notin {"set", "free"} BY <2>1, <1>4, <1>5
    <2> QED BY <2>2, <1>2, <1>8, EntryAfter
  <1> QED BY <1>1, <1>2, <1>4, <1>5, <1>6, <1>7, <1>8, CtlStep

LEMMA UnbindReadInv ==
  ASSUME RedirectAssumption, OwnThreads, TInv, NEW c \in Ctls, NEW g \in Holds[c], unbind_read(c, g) PROVE TInv'
PROOF
  <1>0. TTypes /\ (\A d \in Ctls : CtlTrue(d)) /\ g \in Guests BY DEF TInv, RedirectAssumption
  <1>1. PICK b \in Bind : b = th[g].bind BY <1>0 DEF TTypes
  <1>2. ctl[c].at = "idle" /\ b.hp # Nobody BY <1>1 DEF unbind_read
  <1> DEFINE r == [at |-> "clear", g |-> g, b |-> b]
  <1>3. ctl' = [ctl EXCEPT ![c] = r] /\ pds' = pds /\ th' = th BY <1>1 DEF unbind_read
  <1>4. BindsOnly(g, b) BY <1>0, <1>1, <1>3 DEF BindsOnly, TTypes, Live
  <1>5. r \in CtlRec /\ r.at = "clear" /\ r.g = g /\ r.b = b BY <1>0 DEF CtlRec
  <1> HIDE DEF r
  <1>6. Entry(g)' = {b} BY <1>2, <1>3, <1>4, <1>5, EntryAfter
  <1>7. Entry(g) = {b}
    <2>1. \A d \in Ctls : ~(ctl[d].at \in {"set", "free"} /\ ctl[d].g = g)
      BY <1>0, <1>2 DEF CtlTrue, OwnThreads
    <2> QED BY <2>1, <1>0, <1>1, <1>2, EntryAtRest
  <1> QED BY <1>2, <1>3, <1>4, <1>5, <1>6, <1>7, CtlStep

LEMMA UnbindClearInv ==
  ASSUME RedirectAssumption, OwnThreads, TInv, NEW c \in Ctls, unbind_clear(c) PROVE TInv'
PROOF
  <1>0. TTypes /\ (\A d \in Ctls : CtlTrue(d)) BY DEF TInv
  <1>1. ctl[c].at = "clear" /\ ctl[c] \in CtlRec BY <1>0 DEF unbind_clear, TTypes
  <1>2. PICK g \in Holds[c], b \in Bind :
          g = ctl[c].g /\ b = ctl[c].b /\ b.hp # Nobody /\ g \in Guests /\ th[g].bind = b
    BY <1>0, <1>1 DEF CtlTrue, CtlRec, RedirectAssumption
  <1>3. Live(g) BY <1>0, <1>2 DEF TTypes
  <1> DEFINE r == [at |-> "free", g |-> g, b |-> b]
  <1>4. ctl' = [ctl EXCEPT ![c] = r] /\ pds' = pds /\ th' = [th EXCEPT ![g].bind = NoBind]
    <2>1. ctl' = [ctl EXCEPT ![c].at = "free"] BY <1>2, <1>3 DEF unbind_clear
    <2>2. [ctl[c] EXCEPT !.at = "free"] = r BY <1>1, <1>2 DEF CtlRec
    <2> QED BY <2>1, <2>2, <1>2, <1>3 DEF unbind_clear
  <1>5. r \in CtlRec /\ r.at = "free" /\ r.g = g /\ r.b = b BY <1>2 DEF CtlRec
  <1>6. NoBind \in Bind /\ NoBind.hp = Nobody BY DEF NoBind, Bind, Slots, RedirectAssumption
  <1> HIDE DEF r, NoBind
  <1>9. BindsOnly(g, NoBind) BY <1>0, <1>2, <1>4 DEF BindsOnly, TTypes, Live
  <1>7. Entry(g)' = {b} BY <1>2, <1>4, <1>5, <1>6, <1>9, EntryAfter
  <1>8. Entry(g) = {b}
    <2>1. \A d \in Ctls : ~(ctl[d].at \in {"set", "free"} /\ ctl[d].g = g)
      BY <1>0, <1>1, <1>2, OneHolder
    <2> QED BY <2>1, <1>0, <1>2, EntryAtRest
  <1> QED BY <1>1, <1>2, <1>4, <1>5, <1>6, <1>7, <1>8, <1>9, CtlStep

-----------------------------------------------------------------------------
(* SETHANDLER: steps that change the tables                                *)

LEMMA EnteredFinite ==
  ASSUME RedirectAssumption, NEW S \in SUBSET Guests
  PROVE  IsFiniteSet(S) /\ Cardinality(S) \in Nat
  BY FS_Subset, FS_CardinalityType DEF RedirectAssumption

LEMMA BindTablesInv ==
  ASSUME RedirectAssumption, OwnThreads, TInv, NEW c \in Ctls, NEW g \in Holds[c], NEW hp \in Pds,
         bind_tables(c, g, hp)
  PROVE  TInv'
PROOF
  <1>0. TTypes /\ (\A d \in Ctls : CtlTrue(d)) /\ g \in Guests /\ hp # Nobody BY DEF TInv, RedirectAssumption
  <1>1. PICK P \in Pds : P = PdOf[g] BY <1>0 DEF RedirectAssumption
  <1>2. pds[hp] \in PdRec /\ pds[P] \in PdRec /\ th[g].bind \in Bind BY <1>0 DEF TTypes
  <1>3. /\ ctl[c].at = "idle" /\ th[g].bind.hp = Nobody /\ pds[hp].used /\ pruefe_bindung(g, hp)
        /\ UNCHANGED th
    BY DEF bind_tables, OwnThreads
  <1>4. PICK s \in Slots : s = sidecar_belegen(hp) /\ s \notin pds[hp].mask
    BY <1>2, <1>3, BelegenFree DEF PdRec, pruefe_bindung
  <1> DEFINE nb == [hp |-> hp, slot |-> s]
             r == [at |-> "set", g |-> g, b |-> nb]
             M(p) == IF p = hp THEN pds[p].mask \cup {s} ELSE pds[p].mask
             E(p) == IF p = P THEN hp ELSE pds[p].edge
             B(p) == IF p = P THEN pds[p].bound + 1 ELSE pds[p].bound
  <1>5. /\ pds' = [p \in Pds |-> [pds[p] EXCEPT !.mask = M(p), !.edge = E(p), !.bound = B(p)]]
        /\ ctl' = [ctl EXCEPT ![c] = r]
    <2>1. \A p \in Pds : pds[p] \in PdRec BY <1>0 DEF TTypes
    <2> QED BY <2>1, <1>1, <1>4 DEF bind_tables, PdRec
  <1>6. nb \in Bind /\ nb.hp = hp /\ nb.slot = s BY DEF Bind
  <1>7. r \in CtlRec /\ r.at = "set" /\ r.g = g /\ r.b = nb BY <1>0, <1>6 DEF CtlRec
  <1>8. \A p \in Pds : M(p) \in SUBSET Slots /\ E(p) \in Pds \cup {Nobody} /\ B(p) \in Nat
    <2>1. \A p \in Pds : pds[p] \in PdRec BY <1>0 DEF TTypes
    <2> QED BY <2>1 DEF PdRec
  <1> HIDE DEF nb, r, M, E, B
  <1>9. /\ pds' \in [Pds -> PdRec]
        /\ \A p \in Pds : /\ pds'[p].mask = M(p) /\ pds'[p].edge = E(p) /\ pds'[p].bound = B(p)
                          /\ pds'[p].used = pds[p].used
    <2>1. \A p \in Pds : pds[p] \in PdRec BY <1>0 DEF TTypes
    <2>2. ASSUME NEW p \in Pds
          PROVE  /\ [pds[p] EXCEPT !.mask = M(p), !.edge = E(p), !.bound = B(p)] \in PdRec
                 /\ pds'[p].mask = M(p) /\ pds'[p].edge = E(p) /\ pds'[p].bound = B(p) /\ pds'[p].used = pds[p].used
      BY <2>1, <1>5, <1>8 DEF PdRec
    <2> QED BY <2>2, <1>5
  <1>10. PICK ob \in Bind : ob = th[g].bind /\ ob.hp = Nobody BY <1>2, <1>3
  <1>11. BindsOnly(g, ob) BY <1>0, <1>3, <1>10 DEF BindsOnly, TTypes, Live
  <1>12. /\ ctl' \in [Ctls -> CtlRec] /\ \A d \in Ctls : CtlTrue(d)'
         /\ \A x \in Guests : x # g => Entry(x)' = Entry(x)
         /\ \A x \in Guests : {"st", "bind", "why"} \subseteq DOMAIN th'[x] /\ th'[x].bind \in Bind /\ Live(x)'
    BY <1>0, <1>3, <1>5, <1>6, <1>7, <1>10, <1>11, CtlOthers
  <1>13. Entry(g)' = {nb} BY <1>0, <1>5, <1>6, <1>7, <1>10, <1>11, EntryAfter
  <1>14. Entry(g) = {}
    <2>1. \A d \in Ctls : ~(ctl[d].at \in {"set", "free"} /\ ctl[d].g = g)
      BY <1>0, <1>3 DEF CtlTrue, OwnThreads
    <2> QED BY <2>1, <1>0, <1>3, EntryAtRest
  <1>15. TTypes' BY <1>0, <1>3, <1>9, <1>12 DEF TTypes, RedirectAssumption
  <1>16. /\ Entered(P)' = Entered(P) \cup {g} /\ g \notin Entered(P)
         /\ \A p \in Pds : p # P => Entered(p)' = Entered(p)
    BY <1>0, <1>1, <1>12, <1>13, <1>14 DEF Entered
  <1>17. EdgesEntered'
    <2> SUFFICES ASSUME NEW p \in Pds
                 PROVE  /\ B(p) = Cardinality(Entered(p)') /\ (E(p) = Nobody <=> Entered(p)' = {})
                        /\ \A x \in Entered(p)' : \A b \in Entry(x)' : b.hp = E(p)
      BY <1>9 DEF EdgesEntered
    <2>0. /\ pds[p].bound = Cardinality(Entered(p)) /\ (pds[p].edge = Nobody <=> Entered(p) = {})
          /\ \A x \in Entered(p) : \A b \in Entry(x) : b.hp = pds[p].edge
          /\ Entered(p) \in SUBSET Guests
      BY DEF TInv, EdgesEntered, Entered
    <2>1. CASE p = P
      <3>1. Cardinality(Entered(p)') = pds[p].bound + 1
        BY <2>0, <2>1, <1>16, EnteredFinite, FS_AddElement
      <3>2. \A x \in Entered(p) : Entry(x)' = Entry(x) /\ Entry(x) # {} BY <2>0, <2>1, <1>12, <1>16 DEF Entered
      <3>3. Entered(p) # {} => pds[p].edge = hp BY <2>0, <2>1, <1>1, <1>3 DEF pruefe_bindung
      <3>4. \A x \in Entered(p)' : \A b \in Entry(x)' : b.hp = hp
        BY <2>0, <2>1, <3>2, <3>3, <1>6, <1>13, <1>16
      <3> QED BY <2>1, <3>1, <3>4, <1>0, <1>16 DEF B, E
    <2>2. CASE p # P
      <3>1. \A x \in Entered(p) : Entry(x)' = Entry(x) BY <2>2, <1>1, <1>12 DEF Entered
      <3> QED BY <2>0, <2>2, <3>1, <1>16 DEF B, E
    <2> QED BY <2>1, <2>2
  <1>18. SlotsEntered'
    <2>0. SlotsEntered BY DEF TInv
    <2>1. \A x \in Guests, p \in Pds, i \in Slots :
            [hp |-> p, slot |-> i] \in Entry(x)' <=> [hp |-> p, slot |-> i] \in Entry(x) \/ (x = g /\ p = hp /\ i = s)
      BY <1>12, <1>13, <1>14 DEF nb
    <2>2. ASSUME NEW p \in Pds, NEW i \in Slots, pds[p].used
          PROVE  i \in M(p) <=> \E x \in Guests : [hp |-> p, slot |-> i] \in Entry(x)'
      BY <2>0, <2>1, <2>2, <1>0 DEF M, SlotsEntered
    <2>3. \A p \in Pds : ~pds[p].used => M(p) = {} BY <2>0, <1>3 DEF M, SlotsEntered
    <2>4. \A x \in Guests : nb \notin Entry(x) BY <2>0, <1>3, <1>4 DEF nb, SlotsEntered
    <2>5. ASSUME NEW x \in Guests, NEW y \in Guests, x # y PROVE Entry(x)' \cap Entry(y)' = {}
      BY <2>0, <2>4, <2>5, <1>12, <1>13 DEF SlotsEntered
    <2> QED BY <2>2, <2>3, <2>5, <1>9 DEF SlotsEntered
  <1>19. EdgesGrounded'
    <2>1. PICK e : e = [p \in Pds |-> E(p)] OBVIOUS
    <2>2. \A p \in Pds : e[p] = IF p = P THEN hp ELSE pds[p].edge BY <2>1 DEF E
    <2>3. EdgesGrounded BY DEF TInv
    <2>4. (\A n \in 0 .. Cardinality(Pds) : kette(hp)[n] # P) /\ kette(hp)[Cardinality(Pds)] = Nobody
      BY <1>1, <1>3 DEF pruefe_bindung
    <2>5. \A S \in SUBSET Pds : S # {} => \E p \in S : e[p] \notin S BY <2>2, <2>3, <2>4, NoNewRing
    <2>6. \A p \in Pds : pds'[p].edge = e[p] BY <2>1, <1>9
    <2> QED BY <2>5, <2>6 DEF EdgesGrounded
  <1> QED BY <1>12, <1>15, <1>17, <1>18, <1>19 DEF TInv

\* What kante_loesen and sidecar_freigeben make of the tables.
Returned(t, P, b, u) ==
  /\ u \in [Pds -> PdRec]
  /\ \A p \in Pds :
       /\ u[p].used = t[p].used
       /\ u[p].bound = IF p = P THEN t[p].bound - 1 ELSE t[p].bound
       /\ u[p].edge = IF p = P /\ t[P].bound = 1 THEN Nobody ELSE t[p].edge
       /\ u[p].mask = IF p = b.hp /\ t[p].used THEN t[p].mask \ {b.slot} ELSE t[p].mask

LEMMA GivenBack ==
  ASSUME NEW t \in [Pds -> PdRec], NEW P \in Pds, NEW b, b.hp \in Pds, t[P].used, t[P].bound > 0
  PROVE  Returned(t, P, b, sidecar_freigeben(kante_loesen(t, P), b))
PROOF
  <1> DEFINE n == t[P].bound - 1
             e == IF t[P].bound = 1 THEN Nobody ELSE t[P].edge
             k == [t EXCEPT ![P].bound = n, ![P].edge = e]
             q == b.hp
             m == k[q].mask \ {b.slot}
             u == sidecar_freigeben(kante_loesen(t, P), b)
  <1>0. t[P] \in PdRec /\ \A p \in Pds : t[p] \in PdRec OBVIOUS
  <1>1. n \in Nat /\ e \in Pds \cup {Nobody} BY <1>0 DEF PdRec
  <1>2. kante_loesen(t, P) = k BY DEF kante_loesen
  <1> HIDE DEF n, e
  <1>3. /\ k \in [Pds -> PdRec] /\ \A p \in Pds : p # P => k[p] = t[p]
        /\ k[P].bound = n /\ k[P].edge = e /\ k[P].used = t[P].used /\ k[P].mask = t[P].mask
    BY <1>0, <1>1 DEF PdRec
  <1> HIDE DEF k
  <1>4. u = IF k[q].used THEN [k EXCEPT ![q].mask = m] ELSE k BY <1>2 DEF sidecar_freigeben
  <1> HIDE DEF u
  <1>5. k[q] \in PdRec /\ m \in SUBSET Slots /\ q \in Pds BY <1>3 DEF PdRec
  <1>6. k[q].used = t[q].used /\ k[q].mask = t[q].mask BY <1>3, <1>5
  <1> HIDE DEF m, q
  <1>7. /\ u \in [Pds -> PdRec] /\ \A p \in Pds : p # q => u[p] = k[p]
        /\ u[q].bound = k[q].bound /\ u[q].edge = k[q].edge /\ u[q].used = k[q].used
        /\ u[q].mask = IF k[q].used THEN m ELSE k[q].mask
    BY <1>3, <1>4, <1>5 DEF PdRec
  <1>8. ASSUME NEW p \in Pds
        PROVE  /\ u[p].used = t[p].used
               /\ u[p].bound = IF p = P THEN n ELSE t[p].bound
               /\ u[p].edge = IF p = P THEN e ELSE t[p].edge
               /\ u[p].mask = IF p = q /\ t[p].used THEN m ELSE t[p].mask
    BY <1>3, <1>5, <1>6, <1>7
  <1>9. m = t[q].mask \ {b.slot} BY <1>6 DEF m
  <1>10. Returned(t, P, b, u) BY <1>7, <1>8, <1>9 DEF n, e, q, Returned
  <1> QED BY <1>10 DEF u

LEMMA UnbindTablesInv ==
  ASSUME RedirectAssumption, OwnThreads, TInv, NEW c \in Ctls, unbind_tables(c) PROVE TInv'
PROOF
  <1>0. TTypes /\ (\A d \in Ctls : CtlTrue(d)) /\ EdgesEntered /\ SlotsEntered BY DEF TInv
  <1>1. ctl[c].at = "free" /\ ctl[c] \in CtlRec BY <1>0 DEF unbind_tables, TTypes
  <1>2. PICK g \in Holds[c], b \in Bind :
          /\ g = ctl[c].g /\ b = ctl[c].b /\ b.hp # Nobody /\ g \in Guests /\ th[g].bind.hp = Nobody
    BY <1>0, <1>1 DEF CtlTrue, CtlRec, RedirectAssumption
  <1>3. PICK P \in Pds : P = PdOf[g] BY <1>2 DEF RedirectAssumption
  <1>4. b.hp \in Pds /\ b = [hp |-> b.hp, slot |-> b.slot] /\ b.slot \in Slots BY <1>2 DEF Bind
  <1>5. Entry(g) = {b} BY <1>0, <1>1, <1>2, EntryOnTheWay
  <1>6. pds[P].used /\ pds[P] \in PdRec /\ pds \in [Pds -> PdRec] BY <1>0, <1>2, <1>3 DEF TTypes
  <1>7. g \in Entered(P) /\ Entered(P) \in SUBSET Guests BY <1>2, <1>3, <1>5 DEF Entered
  <1>8. /\ pds[P].bound \in Nat /\ pds[P].bound = Cardinality(Entered(P)) /\ pds[P].bound > 0
        /\ Cardinality(Entered(P) \ {g}) = pds[P].bound - 1
        /\ pds[P].bound = 1 <=> Entered(P) \ {g} = {}
    <2>1. pds[P].bound = Cardinality(Entered(P)) BY <1>0 DEF EdgesEntered
    <2>2. IsFiniteSet(Entered(P)) /\ Cardinality(Entered(P)) \in Nat BY <1>7, EnteredFinite
    <2>3. /\ IsFiniteSet(Entered(P) \ {g}) /\ Cardinality(Entered(P) \ {g}) = Cardinality(Entered(P)) - 1
      BY <2>2, <1>7, FS_RemoveElement
    <2>4. Cardinality(Entered(P)) # 0 BY <2>2, <1>7, FS_EmptySet
    <2>5. Cardinality(Entered(P) \ {g}) = 0 <=> Entered(P) \ {g} = {} BY <2>3, FS_EmptySet
    <2> QED BY <2>1, <2>2, <2>3, <2>4, <2>5
  <1>9. /\ pds' \in [Pds -> PdRec]
        /\ \A p \in Pds :
             /\ pds'[p].used = pds[p].used
             /\ pds'[p].bound = IF p = P THEN pds[p].bound - 1 ELSE pds[p].bound
             /\ pds'[p].edge = IF p = P /\ pds[P].bound = 1 THEN Nobody ELSE pds[p].edge
             /\ pds'[p].mask = IF p = b.hp /\ pds[p].used THEN pds[p].mask \ {b.slot} ELSE pds[p].mask
    <2>1. pds' = sidecar_freigeben(kante_loesen(pds, P), b) BY <1>2, <1>3 DEF unbind_tables
    <2>2. pds[P].bound > 0 /\ pds[P].used /\ pds \in [Pds -> PdRec] /\ b.hp \in Pds BY <1>4, <1>6, <1>8
    <2>3. Returned(pds, P, b, pds') BY <2>1, <2>2, GivenBack
    <2> QED BY <2>3 DEF Returned
  <1>10. PICK r \in CtlRec, ob \in Bind : r = CIdle /\ r.at = "idle" /\ ob = th[g].bind /\ ob.hp = Nobody
    <2>1. CIdle \in CtlRec /\ CIdle.at = "idle" BY DEF CIdle, CtlRec, NoBind, Bind, Slots, RedirectAssumption
    <2>2. th[g].bind \in Bind BY <1>0, <1>2 DEF TTypes
    <2> HIDE DEF CIdle
    <2> QED BY <2>1, <2>2, <1>2
  <1>11. ctl' = [ctl EXCEPT ![c] = r] /\ th' = th BY <1>10 DEF unbind_tables
  <1>12. BindsOnly(g, ob) BY <1>0, <1>2, <1>10, <1>11 DEF BindsOnly, TTypes, Live
  <1>13. /\ ctl' \in [Ctls -> CtlRec] /\ \A d \in Ctls : CtlTrue(d)'
         /\ \A x \in Guests : x # g => Entry(x)' = Entry(x)
         /\ \A x \in Guests : {"st", "bind", "why"} \subseteq DOMAIN th'[x] /\ th'[x].bind \in Bind /\ Live(x)'
    BY <1>2, <1>10, <1>11, <1>12, CtlOthers
  <1>14. Entry(g)' = {} BY <1>10, <1>11, <1>12, EntryGone
  <1>15. TTypes' BY <1>0, <1>9, <1>11, <1>13 DEF TTypes, RedirectAssumption
  <1>16. Entered(P)' = Entered(P) \ {g} /\ \A p \in Pds : p # P => Entered(p)' = Entered(p)
    BY <1>2, <1>3, <1>13, <1>14 DEF Entered
  <1>17. EdgesEntered'
    <2> SUFFICES ASSUME NEW p \in Pds
                 PROVE  /\ pds'[p].bound = Cardinality(Entered(p)') /\ (pds'[p].edge = Nobody <=> Entered(p)' = {})
                        /\ \A x \in Entered(p)' : \A y \in Entry(x)' : y.hp = pds'[p].edge
      BY DEF EdgesEntered
    <2>0. /\ pds[p].bound = Cardinality(Entered(p)) /\ (pds[p].edge = Nobody <=> Entered(p) = {})
          /\ \A x \in Entered(p) : \A y \in Entry(x) : y.hp = pds[p].edge
          /\ Entered(p) \in SUBSET Guests
      BY <1>0 DEF EdgesEntered, Entered
    <2>1. CASE p = P
      <3>1. pds'[p].bound = Cardinality(Entered(p)') BY <2>1, <1>8, <1>9, <1>16
      <3>2. pds'[p].edge = Nobody <=> Entered(p)' = {} BY <2>0, <2>1, <1>7, <1>8, <1>9, <1>16
      <3>3. \A x \in Entered(p) \ {g} : Entry(x)' = Entry(x) BY <2>0, <1>13
      <3>4. \A x \in Entered(p)' : \A y \in Entry(x)' : y.hp = pds'[p].edge
        BY <2>0, <2>1, <3>3, <1>8, <1>9, <1>16
      <3> QED BY <3>1, <3>2, <3>4
    <2>2. CASE p # P
      <3>1. \A x \in Entered(p) : Entry(x)' = Entry(x) BY <2>2, <1>3, <1>13 DEF Entered
      <3>2. pds'[p].bound = pds[p].bound /\ pds'[p].edge = pds[p].edge BY <2>2, <1>9
      <3>3. Entered(p)' = Entered(p) BY <2>2, <1>16
      <3> QED BY <2>0, <3>1, <3>2, <3>3
    <2> QED BY <2>1, <2>2
  <1>18. SlotsEntered'
    <2>1. \A x \in Guests, p \in Pds, i \in Slots :
            [hp |-> p, slot |-> i] \in Entry(x)' <=> [hp |-> p, slot |-> i] \in Entry(x) /\ ~(p = b.hp /\ i = b.slot)
      <3> SUFFICES ASSUME NEW x \in Guests, NEW p \in Pds, NEW i \in Slots
                   PROVE  [hp |-> p, slot |-> i] \in Entry(x)'
                            <=> [hp |-> p, slot |-> i] \in Entry(x) /\ ~(p = b.hp /\ i = b.slot)
        OBVIOUS
      <3>1. CASE x = g BY <3>1, <1>4, <1>5, <1>14
      <3>2. CASE x # g
        <4>1. Entry(x)' = Entry(x) /\ b \notin Entry(x) BY <3>2, <1>0, <1>2, <1>5, <1>13 DEF SlotsEntered
        <4>2. p = b.hp /\ i = b.slot => [hp |-> p, slot |-> i] = b BY <1>4
        <4> QED BY <4>1, <4>2
      <3> QED BY <3>1, <3>2
    <2>2. ASSUME NEW p \in Pds, NEW i \in Slots, pds[p].used
          PROVE  i \in pds'[p].mask <=> \E x \in Guests : [hp |-> p, slot |-> i] \in Entry(x)'
      <3>1. i \in pds[p].mask <=> \E x \in Guests : [hp |-> p, slot |-> i] \in Entry(x) BY <2>2, <1>0 DEF SlotsEntered
      <3>2. i \in pds'[p].mask <=> i \in pds[p].mask /\ ~(p = b.hp /\ i = b.slot) BY <2>2, <1>9
      <3> QED BY <2>1, <3>1, <3>2
    <2>3. \A p \in Pds : ~pds[p].used => pds'[p].mask = {} BY <1>0, <1>9 DEF SlotsEntered
    <2>4. ASSUME NEW x \in Guests, NEW y \in Guests, x # y PROVE Entry(x)' \cap Entry(y)' = {}
      BY <2>4, <1>0, <1>13, <1>14 DEF SlotsEntered
    <2> QED BY <2>2, <2>3, <2>4, <1>9 DEF SlotsEntered
  <1>19. EdgesGrounded'
    <2>1. EdgesGrounded /\ Nobody \notin Pds BY DEF TInv, RedirectAssumption
    <2>2. ASSUME NEW S \in SUBSET Pds, S # {} PROVE \E p \in S : pds'[p].edge \notin S
      <3>1. PICK p \in S : pds[p].edge \notin S BY <2>1, <2>2 DEF EdgesGrounded
      <3>2. pds'[p].edge \in {Nobody, pds[p].edge} BY <1>9
      <3> QED BY <2>1, <3>1, <3>2
    <2> QED BY <2>2 DEF EdgesGrounded
  <1> QED BY <1>13, <1>15, <1>17, <1>18, <1>19 DEF TInv

LEMMA ExitTables == ASSUME RedirectAssumption, TInv, NEW h \in Handlers, exit(h) PROVE TInv'
PROOF
  <1>1. pds' = pds /\ ctl' = ctl BY DEF exit
  <1>2. th' = th \/ th' = Answered(hep[PdOf[h]].caller, "gone") BY DEF exit
  <1>3. th' = th => BindKept BY <1>1 DEF BindKept, TInv, TTypes, Live
  <1>4. BindKept BY <1>1, <1>2, <1>3, AnsweredKeeps
  <1> QED BY <1>1, <1>4, CallsTables

\* A gate closes or opens.
LEMMA GateTables ==
  ASSUME RedirectAssumption, TInv, NEW p \in Pds, set_quiescing(p) \/ close_endpoint(p) \/ open_endpoint(p)
  PROVE  TInv'
PROOF
  <1>0. TTypes /\ EdgesEntered /\ SlotsEntered /\ EdgesGrounded BY DEF TInv
  <1>1. th' = th /\ ctl' = ctl BY DEF set_quiescing, close_endpoint, open_endpoint
  <1>2. BindKept BY <1>0, <1>1 DEF BindKept, TTypes, Live
  <1>3. (\A c \in Ctls : CtlTrue(c)') /\ (\A g \in Guests : Entry(g)' = Entry(g)) BY <1>2, CallsKeepBind
  <1>4. /\ pds' \in [Pds -> PdRec]
        /\ \A q \in Pds : /\ pds'[q].used = pds[q].used /\ pds'[q].edge = pds[q].edge
                          /\ pds'[q].bound = pds[q].bound /\ pds'[q].mask = pds[q].mask
    <2>1. PICK b \in BOOLEAN : pds' = pds \/ pds' = [pds EXCEPT ![p].quiet = b]
      <3>1. pds[p] \in PdRec /\ (~pds[p].quiet) \in BOOLEAN BY <1>0 DEF TTypes
      <3> QED BY <3>1 DEF set_quiescing, close_endpoint, open_endpoint
    <2>2. \A q \in Pds : pds[q] \in PdRec BY <1>0 DEF TTypes
    <2> QED BY <2>1, <2>2, <1>0 DEF TTypes, PdRec
  <1>5. TTypes' BY <1>0, <1>2, <1>4 DEF TTypes, BindKept, RedirectAssumption
  <1>6. \A q \in Pds : Entered(q)' = Entered(q) BY <1>3 DEF Entered
  <1>7. EdgesEntered'
    <2>1. \A q \in Pds : \A x \in Entered(q) : Entry(x)' = Entry(x) BY <1>3 DEF Entered
    <2> QED BY <2>1, <1>0, <1>4, <1>6 DEF EdgesEntered
  <1>8. SlotsEntered' BY <1>0, <1>3, <1>4 DEF SlotsEntered
  <1>9. EdgesGrounded' BY <1>0, <1>4 DEF EdgesGrounded
  <1> QED BY <1>3, <1>5, <1>7, <1>8, <1>9 DEF TInv

LEMMA FreeTables == ASSUME RedirectAssumption, TInv, NEW p \in Pds, pd_free(p) PROVE TInv'
PROOF
  <1>0. TTypes /\ EdgesEntered /\ SlotsEntered /\ EdgesGrounded BY DEF TInv
  <1>1. th' = th /\ ctl' = ctl BY DEF pd_free
  <1>2. BindKept BY <1>0, <1>1 DEF BindKept, TTypes, Live
  <1>3. (\A c \in Ctls : CtlTrue(c)') /\ (\A g \in Guests : Entry(g)' = Entry(g)) BY <1>2, CallsKeepBind
  <1>4. /\ pds' \in [Pds -> PdRec] /\ \A q \in Pds : q # p => pds'[q] = pds[q]
        /\ ~pds'[p].used /\ pds'[p].edge = Nobody /\ pds'[p].bound = 0 /\ pds'[p].mask = {}
    <2>1. [used |-> FALSE, quiet |-> FALSE, edge |-> Nobody, bound |-> 0, mask |-> {}] \in PdRec BY DEF PdRec
    <2> QED BY <2>1, <1>0 DEF pd_free, TTypes
  <1>5. \A g \in Guests : PdOf[g] # p BY DEF pd_free
  <1>6. TTypes' BY <1>0, <1>2, <1>4, <1>5 DEF TTypes, BindKept, RedirectAssumption
  <1>7. Entered(p)' = {} /\ \A q \in Pds : Entered(q)' = Entered(q) BY <1>3, <1>5 DEF Entered
  <1>8. EdgesEntered'
    <2> SUFFICES ASSUME NEW q \in Pds
                 PROVE  /\ pds'[q].bound = Cardinality(Entered(q)') /\ (pds'[q].edge = Nobody <=> Entered(q)' = {})
                        /\ \A x \in Entered(q)' : \A y \in Entry(x)' : y.hp = pds'[q].edge
      BY DEF EdgesEntered
    <2>1. CASE q = p BY <2>1, <1>4, <1>7, FS_EmptySet
    <2>2. CASE q # p
      <3>1. \A x \in Entered(q) : Entry(x)' = Entry(x) BY <1>3 DEF Entered
      <3> QED BY <2>2, <3>1, <1>0, <1>4, <1>7 DEF EdgesEntered
    <2> QED BY <2>1, <2>2
  <1>9. SlotsEntered' BY <1>0, <1>3, <1>4 DEF SlotsEntered
  <1>10. EdgesGrounded'
    <2>1. Nobody \notin Pds BY DEF RedirectAssumption
    <2>2. ASSUME NEW S \in SUBSET Pds, S # {} PROVE \E q \in S : pds'[q].edge \notin S
      <3>1. PICK q \in S : pds[q].edge \notin S BY <2>2, <1>0 DEF EdgesGrounded
      <3> QED BY <2>1, <3>1, <1>4
    <2> QED BY <2>2 DEF EdgesGrounded
  <1> QED BY <1>3, <1>6, <1>8, <1>9, <1>10 DEF TInv

-----------------------------------------------------------------------------
(* SETHANDLER: the theorem                                                 *)

LEMMA TablesInit == ASSUME RedirectAssumption, OwnThreads, RedirectInit PROVE TInv
PROOF
  <1>1. PICK s \in [Guests -> Slots] :
          /\ th = [g \in Guests |-> [st |-> "user", bind |-> [hp |-> Bound[g], slot |-> s[g]],
                                     b |-> NoBind, why |-> {}, n |-> 0, frame |-> <<>>]]
          /\ pds = [p \in Pds |->
               LET of == {g \in Guests : PdOf[g] = p /\ Bound[g] # Nobody} IN
               [used |-> TRUE, quiet |-> FALSE, bound |-> Cardinality(of),
                edge |-> IF of = {} THEN Nobody ELSE Bound[CHOOSE g \in of : TRUE],
                mask |-> {s[g] : g \in {x \in Guests : Bound[x] = p}}]]
          /\ ctl = [c \in Ctls |-> CIdle]
    BY Zenon DEF RedirectInit
  <1>2. \A p \in Pds : {g \in Guests : PdOf[g] = p /\ Bound[g] # Nobody} = {} BY DEF OwnThreads
  <1>3. \A p \in Pds : {s[g] : g \in {x \in Guests : Bound[x] = p}} = {} BY DEF OwnThreads, RedirectAssumption
  <1>4. pds = [p \in Pds |-> [used |-> TRUE, quiet |-> FALSE, bound |-> 0, edge |-> Nobody, mask |-> {}]]
    BY <1>1, <1>2, <1>3, FS_EmptySet
  <1>5. \A g \in Guests : /\ th[g].st = "user" /\ th[g].bind = [hp |-> Nobody, slot |-> s[g]]
                          /\ {"st", "bind", "why"} \subseteq DOMAIN th[g]
    BY <1>1 DEF OwnThreads
  <1>6. CIdle \in CtlRec /\ CIdle.at = "idle" BY DEF CIdle, CtlRec, NoBind, Bind, Slots, RedirectAssumption
  <1> HIDE DEF CIdle
  <1>7. TTypes
    <2>1. pds \in [Pds -> PdRec] /\ \A p \in Pds : pds[p].used BY <1>4 DEF PdRec
    <2>2. ASSUME NEW g \in Guests PROVE th[g].bind \in Bind /\ Live(g)
      <3>1. [hp |-> Nobody, slot |-> s[g]] \in Bind BY DEF Bind
      <3> QED BY <3>1, <1>5 DEF Live
    <2> QED BY <2>1, <2>2, <1>1, <1>5, <1>6 DEF TTypes, RedirectAssumption
  <1>8. \A c \in Ctls : CtlTrue(c) BY <1>1, <1>6 DEF CtlTrue
  <1>9. \A g \in Guests : Entry(g) = {}
    <2>1. \A c \in Ctls : ctl[c].at = "idle" BY <1>1, <1>6
    <2>2. ASSUME NEW g \in Guests PROVE th[g].bind.hp = Nobody
      <3>1. [hp |-> Nobody, slot |-> s[g]].hp = Nobody OBVIOUS
      <3> QED BY <3>1, <1>5
    <2> QED BY <2>1, <2>2, <1>7, EntryAtRest
  <1>10. \A p \in Pds : /\ Entered(p) = {} /\ pds[p].bound = 0 /\ pds[p].edge = Nobody /\ pds[p].mask = {}
                        /\ pds[p].used
    BY <1>4, <1>9 DEF Entered
  <1>11. EdgesEntered BY <1>10, FS_EmptySet DEF EdgesEntered
  <1>12. SlotsEntered BY <1>9, <1>10 DEF SlotsEntered
  <1>13. EdgesGrounded BY <1>10 DEF EdgesGrounded, RedirectAssumption
  <1> QED BY <1>7, <1>8, <1>11, <1>12, <1>13 DEF TInv

LEMMA TablesStep ==
  ASSUME RedirectAssumption, OwnThreads, TInv, [RedirectNext]_redirectVars
  PROVE  TInv'
PROOF
  <1>1. ASSUME NEW g \in Guests, Trap(g) PROVE TInv' BY <1>1, TrapTables
  <1>2. ASSUME NEW g \in Guests, kill(g) PROVE FALSE BY <1>2 DEF kill, OwnThreads
  <1>3. ASSUME NEW h \in Handlers, Handle(h) PROVE TInv' BY <1>3, HandleTables
  <1>4. ASSUME NEW c \in Ctls, set_handler(c) \/ unbind_clear(c) \/ unbind_tables(c) PROVE TInv'
    BY <1>4, SetHandlerInv, UnbindClearInv, UnbindTablesInv
  <1>5. ASSUME NEW c \in Ctls, NEW g \in Holds[c], unbind_read(c, g) PROVE TInv' BY <1>5, UnbindReadInv
  <1>6. ASSUME NEW c \in Ctls, NEW g \in Holds[c], NEW hp \in Pds, bind_tables(c, g, hp) PROVE TInv'
    BY <1>6, BindTablesInv
  <1>7. ASSUME NEW p \in Pds, pd_free(p) \/ set_quiescing(p) \/ close_endpoint(p) \/ open_endpoint(p)
        PROVE  TInv'
    BY <1>7, FreeTables, GateTables
  <1>9. ASSUME NEW h \in Handlers, exit(h) PROVE TInv' BY <1>9, ExitTables
  <1>8. ASSUME UNCHANGED redirectVars PROVE TInv'
    <2>1. pds' = pds /\ ctl' = ctl /\ th' = th BY <1>8 DEF redirectVars
    <2>2. BindKept BY <2>1 DEF BindKept, TInv, TTypes, Live
    <2> QED BY <2>1, <2>2, CallsTables
  <1> QED BY <1>1, <1>2, <1>3, <1>4, <1>5, <1>6, <1>7, <1>8, <1>9 DEF RedirectNext

LEMMA TablesSay == ASSUME RedirectAssumption, TInv PROVE SlotExclusive /\ EdgeTrue /\ SlotsOwned /\ NoRing
PROOF
  <1>0. TTypes /\ EdgesEntered /\ SlotsEntered /\ EdgesGrounded BY DEF TInv
  <1>1. \A g \in Guests : th[g].bind \in Bind /\ (th[g].bind.hp # Nobody => th[g].bind \in Entry(g))
    BY <1>0 DEF TTypes, Entry
  <1>2. SlotExclusive
    <2> SUFFICES ASSUME NEW g \in Guests, th[g].bind.hp # Nobody, pds[th[g].bind.hp].used
                 PROVE  /\ th[g].bind.slot \in pds[th[g].bind.hp].mask
                        /\ \A x \in Guests \ {g} : th[x].bind # th[g].bind
      BY DEF SlotExclusive
    <2>1. PICK p \in Pds, i \in Slots : th[g].bind = [hp |-> p, slot |-> i] BY <1>1 DEF Bind
    <2>2. th[g].bind.hp = p /\ th[g].bind.slot = i /\ [hp |-> p, slot |-> i] \in Entry(g) BY <2>1, <1>1
    <2>3. i \in pds[p].mask BY <2>2, <1>0 DEF SlotsEntered
    <2>4. \A x \in Guests \ {g} : th[x].bind # th[g].bind BY <1>0, <1>1 DEF SlotsEntered
    <2> QED BY <2>2, <2>3, <2>4
  <1>3. ASSUME NEW g \in Guests, \A c \in Ctls : ctl[c] = CIdle
        PROVE  Entry(g) = IF th[g].bind.hp # Nobody THEN {th[g].bind} ELSE {}
    <2>1. \A c \in Ctls : ctl[c].at = "idle" BY <1>3 DEF CIdle
    <2> QED BY <2>1, <1>0, EntryAtRest
  <1>4. EdgeTrue
    <2> SUFFICES ASSUME \A c \in Ctls : ctl[c] = CIdle, NEW p \in Pds
                 PROVE  /\ pds[p].bound = Cardinality(BoundIn(p))
                        /\ (pds[p].edge = Nobody) = (BoundIn(p) = {})
                        /\ \A g \in BoundIn(p) : th[g].bind.hp = pds[p].edge
      BY DEF EdgeTrue
    <2>1. Entered(p) = BoundIn(p) BY <1>3 DEF Entered, BoundIn
    <2>2. \A g \in BoundIn(p) : th[g].bind \in Entry(g) BY <1>1 DEF BoundIn
    <2>3. pds[p].bound = Cardinality(BoundIn(p)) /\ (pds[p].edge = Nobody <=> BoundIn(p) = {})
      BY <2>1, <1>0 DEF EdgesEntered
    <2>4. \A g \in BoundIn(p) : th[g].bind.hp = pds[p].edge BY <2>1, <2>2, <1>0 DEF EdgesEntered
    <2> QED BY <2>3, <2>4
  <1>5. SlotsOwned
    <2> SUFFICES ASSUME \A c \in Ctls : ctl[c] = CIdle, NEW p \in Pds, NEW i \in pds[p].mask
                 PROVE  \E g \in Guests : th[g].bind = [hp |-> p, slot |-> i]
      BY DEF SlotsOwned
    <2>1. pds[p].used /\ i \in Slots BY <1>0 DEF SlotsEntered, TTypes, PdRec
    <2>2. PICK g \in Guests : [hp |-> p, slot |-> i] \in Entry(g) BY <2>1, <1>0 DEF SlotsEntered
    <2> QED BY <2>2, <1>3
  <1>6. NoRing
    <2> SUFFICES ASSUME NEW S \in (SUBSET Pds) \ {{}}, \A p \in S : Serves(p) \cap S # {} PROVE FALSE
      BY DEF NoRing
    <2>1. PICK p \in S : pds[p].edge \notin S BY <1>0 DEF EdgesGrounded
    <2>2. PICK g \in BoundIn(p) : th[g].bind.hp \in S BY <2>1 DEF Serves
    <2>3. g \in Guests /\ PdOf[g] = p /\ th[g].bind \in Entry(g) BY <2>2, <1>1 DEF BoundIn
    <2>4. th[g].bind.hp = pds[p].edge BY <2>3, <1>0 DEF EdgesEntered, Entered
    <2> QED BY <2>1, <2>2, <2>4
  <1> QED BY <1>2, <1>4, <1>5, <1>6

-----------------------------------------------------------------------------
(* Redirected calls and SETHANDLER: the theorem                            *)

\* For any number of guests, handler PDs, slots, places in a queue and callers of SETHANDLER: where
\* bindings stay, a waiting guest is at its handler unless the reply came with a grant or the thread
\* that owed it died, and each guest that runs on has its own answer, though guests and handlers die
\* and gates close; where each caller has its own threads, the tables agree with the bindings and
\* handlers of handlers form no ring, while calls are under way and handlers die.
THEOREM RedirectsStayTrue ==
  ASSUME RedirectAssumption
  PROVE  RedirectSpec => []RedirectsTrue
PROOF
  <1> DEFINE RInv == (FixedBindings => CInv) /\ (OwnThreads => TInv)
  <1>1. RedirectInit => RInv BY CallsInit, TablesInit
  <1>2. RInv /\ [RedirectNext]_redirectVars => RInv'
    <2>1. ASSUME RInv, [RedirectNext]_redirectVars, FixedBindings PROVE CInv' BY <2>1, CallsStep
    <2>2. ASSUME RInv, [RedirectNext]_redirectVars, OwnThreads PROVE TInv' BY <2>2, TablesStep
    <2>3. (FixedBindings' <=> FixedBindings) /\ (OwnThreads' <=> OwnThreads) BY DEF FixedBindings, OwnThreads
    <2> QED BY <2>1, <2>2, <2>3
  <1>3. RInv => RedirectsTrue BY CallsAnswered, TablesSay DEF RedirectsTrue
  <1> QED BY <1>1, <1>2, <1>3, PTL DEF RedirectSpec
=============================================================================
