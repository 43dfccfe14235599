------------------------------ MODULE PdFreeze ------------------------------
(***************************************************************************)
(* The freezing and thawing of a whole protection domain                   *)
(* (kernel/src/system.rs: freeze_pd, thaw_pd, abort_freeze) against the    *)
(* IPC its threads and others are doing on other cores at the same time.   *)
(*                                                                         *)
(* The freezer takes one lock after the other: the domain table for the    *)
(* gate, each scheduler for the list of threads, each endpoint for the     *)
(* channels to close, each endpoint again for the judgement, and so on.    *)
(* Between two of its steps every other core goes on.  A system call looks *)
(* at the gate of its domain under one lock and enters the endpoint under  *)
(* another (Enter, Commit).  A thread is on a core (on) or not; which core *)
(* matters only for the list of threads, which is read core by core.       *)
(*                                                                         *)
(* SPAWN does not look at the gate: a thread of the domain may add another *)
(* one while the freezer is at work.  The new thread belongs to the domain *)
(* (spawn) before it may run (admit), and both lie in one system call.     *)
(***************************************************************************)
EXTENDS Naturals, Sequences, FiniteSets, Queues

CONSTANTS Members, Outside,  \* the threads the domain may ever have and the others
          Born,              \* the members there are from the start
          NEndpoints,        \* thread_partner asks them in ascending order
          Clients, Servers,  \* threads with the WRITE and the READ right
          NCores,
          Home,              \* the core a thread starts on
          Debuggable,        \* members a debugger may stop
          Balancing,         \* TRUE: ready threads move between the cores
          Reloading,         \* TRUE: a hot reload closes endpoints as well
          Deadline,          \* frist_ticks
          MaxThreads         \* FREEZE_MAX_THREADS

None == "none"
Endpoints == 0 .. NEndpoints - 1
KEIN_EP == NEndpoints
Threads == Members \cup Outside
Cores == 0 .. NCores - 1

PdFreezeAssumption ==
  /\ Members \cap Outside = {} /\ None \notin Threads
  /\ NEndpoints \in Nat \ {0} /\ NCores \in Nat \ {0}
  /\ Clients \cup Servers \subseteq Threads /\ Debuggable \subseteq Members
  /\ Born \subseteq Members
  /\ Home \in [Threads -> Cores]
  /\ Balancing \in BOOLEAN /\ Reloading \in BOOLEAN
  /\ Deadline \in Nat /\ MaxThreads \in Nat

VARIABLES
  birth,   \* how far a member has come, and the thread that is in SPAWN for it
  ep,      \* endpoints; closed names who set `quiescing`
  wait,    \* the endpoint and the role a thread is blocked in, or User
  entry,   \* the system call of a thread that has passed the gate
  on,      \* threads that are current on some core
  loc,     \* the core a thread belongs to
  debug,   \* BlockReasons::DEBUG
  marked,  \* BlockReasons::FREEZE
  gate,    \* ProtectionDomain::quiescing
  fz       \* the freezer: where it is and what it has collected

vars == <<birth, ep, wait, entry, on, loc, debug, marked, gate, fz>>

User == [k |-> "user", e |-> KEIN_EP]
Empty == [t \in {} |-> KEIN_EP]
Asleep == [pc |-> "idle", ticks |-> 0, cores |-> {}, tids |-> {}, todo |-> {}, cur |-> None,
           recv |-> Empty, shut |-> {}, seen |-> {}]

EndpointState == [closed : {None, "freezer", "reload"}, senders : Seq(Threads),
                  receivers : Seq(Threads), caller : Threads \cup {None},
                  owner : Threads \cup {None}]

\* A thread is in user code, or at an endpoint in one of the roles K.
Place(K) == {User} \cup [k : K, e : Endpoints]

\* parked: bound to the domain, not yet admitted; slipped: in a ready queue in spite of a reason
\* to stop; live: everything else.
BirthState == [st : {"none", "parked", "live", "slipped"}, by : Members \cup {None}]

FreezerPcs == {"idle", "list", "find", "close", "judge", "mark", "settle", "frozen", "bind",
               "open", "thaw", "ungate"}

FreezerState == [pc : FreezerPcs, ticks : 0 .. Deadline, cores : SUBSET Cores,
                 tids : SUBSET Members, todo : SUBSET Members, cur : Members \cup {None},
                 recv : UNION {[S -> 0 .. KEIN_EP] : S \in SUBSET Members},
                 shut : SUBSET Members, seen : SUBSET Members]

\* Threads, endpoints and the state of the freezer have their types.
TypeOK ==
  /\ birth \in [Members -> BirthState]
  /\ ep \in [Endpoints -> EndpointState]
  /\ wait \in [Threads -> Place({"call", "recv"})]
  /\ entry \in [Threads -> Place({"call", "recv", "reply"})]
  /\ on \subseteq Threads /\ loc \in [Threads -> Cores]
  /\ debug \subseteq Members /\ marked \subseteq Members /\ gate \in BOOLEAN
  /\ fz \in FreezerState

Init ==
  /\ birth = [t \in Members |-> [st |-> IF t \in Born THEN "live" ELSE "none", by |-> None]]
  /\ ep = [e \in Endpoints |-> [closed |-> None, senders |-> <<>>, receivers |-> <<>>,
                                caller |-> None, owner |-> None]]
  /\ wait = [t \in Threads |-> User]
  /\ entry = [t \in Threads |-> User]
  /\ on = {} /\ loc = Home
  /\ debug = {} /\ marked = {} /\ gate = FALSE
  /\ fz = Asleep

-----------------------------------------------------------------------------
(* The cores: threads come and go, move, and are stopped by a debugger     *)

Present(t) == t \in Members => birth[t].st # "none"
InSpawn(t) == \E u \in Members : birth[u].by = t

\* In its ready queue: woken or preempted with no reason left, or slipped.
Ready(t) ==
  \/ wait[t] = User /\ t \notin debug \cup marked /\ (t \in Members => birth[t].st = "live")
  \/ t \in Members /\ birth[t].st = "slipped"

InUser(t) == t \in on /\ entry[t] = User /\ ~InSpawn(t)

\* The core of a thread being spawned is in the kernel with its parent.
Queued(t) == t \notin on /\ Ready(t) /\ (t \in Members => birth[t].by = None)

\* The thread leaves its queue: dequeue_highest, remove_from_ready.
Dequeued(t) ==
  birth' = IF t \in Members /\ birth[t].st = "slipped"
           THEN [birth EXCEPT ![t].st = "live"] ELSE birth

\* wecke_falls_lauffaehig: with its last reason gone a thread is ready, admitted or not.
Roused(t, reasons) ==
  birth' = IF birth[t].st = "parked" /\ t \notin reasons
           THEN [birth EXCEPT ![t].st = "live"] ELSE birth

Dispatch(t) ==
  /\ Queued(t)
  /\ on' = on \cup {t} /\ Dequeued(t)
  /\ UNCHANGED <<ep, wait, entry, loc, debug, marked, gate, fz>>

\* The next trap of a thread takes it off its core; in the kernel it is not preempted.
Preempt(t) ==
  /\ InUser(t)
  /\ on' = on \ {t}
  /\ UNCHANGED <<birth, ep, wait, entry, loc, debug, marked, gate, fz>>

\* migrate_to: ready threads only; detach_for_migration refuses a thread of the cut.
Balance(t, c) ==
  /\ Balancing /\ Queued(t) /\ t \notin debug \cup marked /\ c # loc[t]
  /\ loc' = [loc EXCEPT ![t] = c]
  /\ UNCHANGED <<birth, ep, wait, entry, on, debug, marked, gate, fz>>

DebugStop(t) ==
  /\ t \in Debuggable \ debug /\ Present(t)
  /\ debug' = debug \cup {t} /\ Dequeued(t)
  /\ UNCHANGED <<ep, wait, entry, on, loc, marked, gate, fz>>

DebugResume(t) ==
  /\ t \in debug
  /\ debug' = debug \ {t} /\ Roused(t, marked)
  /\ UNCHANGED <<ep, wait, entry, on, loc, marked, gate, fz>>

\* SPAWN: the thread gets its slot on the core of its parent and its domain, still parked.
spawn(t, u) ==
  /\ t \in Members /\ InUser(t) /\ u \in Members /\ ~Present(u)
  /\ birth' = [birth EXCEPT ![u] = [st |-> "parked", by |-> t]]
  /\ loc' = [loc EXCEPT ![u] = loc[t]]
  /\ UNCHANGED <<ep, wait, entry, on, debug, marked, gate, fz>>

\* admit enters the thread in its ready queue and does not ask for reasons.
admit(u) ==
  /\ u \in Members /\ birth[u].by # None
  /\ birth' = [birth EXCEPT ![u] = [st |-> IF u \in debug \cup marked THEN "slipped" ELSE "live",
                                   by |-> None]]
  /\ UNCHANGED <<ep, wait, entry, on, loc, debug, marked, gate, fz>>

-----------------------------------------------------------------------------
(* System calls                                                            *)

\* While its domain is quiescing a thread may only REPLY.
GateOpen(t, k) == k = "reply" \/ ~(t \in Members /\ gate)

\* A server alternates RECV and REPLY at an endpoint.
MayUse(t, k, e) ==
  CASE k = "call" -> t \in Clients
    [] k = "recv" -> t \in Servers /\ ep[e].owner # t
    [] k = "reply" -> t \in Servers /\ ep[e].owner = t

\* The capability and the gate have been looked up under the lock of the domain table.
Enter(t, k, e) ==
  /\ InUser(t) /\ MayUse(t, k, e) /\ GateOpen(t, k)
  /\ entry' = [entry EXCEPT ![t] = [k |-> k, e |-> e]]
  /\ UNCHANGED <<birth, ep, wait, on, loc, debug, marked, gate, fz>>

Leave(t) == entry' = [entry EXCEPT ![t] = User]
Block(t, k, e) == on' = on \ {t} /\ wait' = [wait EXCEPT ![t] = [k |-> k, e |-> e]]

\* Mutant of Closed: quiescing endpoints take new transactions.
ClosedNever(e) == FALSE

\* gate_new_transaction
Closed(e) == ep[e].closed # None

\* ERR_QUIESCING from the endpoint.
CommitRefused(t) ==
  /\ entry[t].k \in {"call", "recv"} /\ Closed(entry[t].e)
  /\ Leave(t)
  /\ UNCHANGED <<birth, ep, wait, on, loc, debug, marked, gate, fz>>

CommitCall(t) ==
  LET e == entry[t].e IN
  /\ entry[t].k = "call" /\ ~Closed(e)
  /\ Leave(t) /\ on' = on \ {t}
  /\ \/ /\ ep[e].receivers # <<>>
        /\ LET s == Head(ep[e].receivers) IN
           /\ ep' = [ep EXCEPT ![e].receivers = Tail(@), ![e].caller = t, ![e].owner = s]
           /\ wait' = [wait EXCEPT ![t] = [k |-> "call", e |-> e], ![s] = User]
     \/ /\ ep[e].receivers = <<>>
        /\ ep' = [ep EXCEPT ![e].senders = Append(@, t)]
        /\ wait' = [wait EXCEPT ![t] = [k |-> "call", e |-> e]]
  /\ UNCHANGED <<birth, loc, debug, marked, gate, fz>>

CommitRecv(t) ==
  LET e == entry[t].e IN
  /\ entry[t].k = "recv" /\ ~Closed(e)
  /\ Leave(t)
  /\ \/ /\ ep[e].senders # <<>>
        /\ ep' = [ep EXCEPT ![e].senders = Tail(@), ![e].caller = Head(ep[e].senders),
                            ![e].owner = t]
        /\ UNCHANGED <<wait, on>>
     \/ /\ ep[e].senders = <<>>
        /\ ep' = [ep EXCEPT ![e].receivers = Append(@, t)]
        /\ Block(t, "recv", e)
  /\ UNCHANGED <<birth, loc, debug, marked, gate, fz>>

\* The token may have been taken over by a later call in the meantime.
CommitReply(t) ==
  LET e == entry[t].e
      c == ep[e].caller
  IN /\ entry[t].k = "reply"
     /\ Leave(t)
     /\ ep' = [ep EXCEPT ![e].caller = None, ![e].owner = None]
     /\ wait' = IF c # None THEN [wait EXCEPT ![c] = User] ELSE wait
     /\ UNCHANGED <<birth, on, loc, debug, marked, gate, fz>>

\* endpoint_begin_quiesce and endpoint_end_quiesce of an exchange of servers.
ReloadCloses(e) ==
  /\ Reloading /\ ep[e].closed = None
  /\ ep' = [ep EXCEPT ![e].closed = "reload"]
  /\ UNCHANGED <<birth, wait, entry, on, loc, debug, marked, gate, fz>>

ReloadOpens(e) ==
  /\ ep[e].closed = "reload"
  /\ ep' = [ep EXCEPT ![e].closed = None]
  /\ UNCHANGED <<birth, wait, entry, on, loc, debug, marked, gate, fz>>

-----------------------------------------------------------------------------
(* The freezer                                                             *)

threadState == <<birth, wait, entry, on, loc, debug>>

\* The clock of the freezer's core; deadlines are compared with it.
Elapse ==
  /\ fz.pc # "idle" /\ fz.ticks < Deadline
  /\ fz' = [fz EXCEPT !.ticks = @ + 1]
  /\ UNCHANGED <<ep, threadState, marked, gate>>
Late == fz.ticks >= Deadline

\* Every outcome but Frozen opens the gate and returns.
GiveUp == gate' = FALSE /\ fz' = Asleep

\* The threads of the domain whose SPAWN is over.
Admitted == {t \in Members : birth[t].st \in {"live", "slipped"} /\ birth[t].by = None}

\* One round of freeze_pd_innen; seen is a history variable.
Attempt(n) == [Asleep EXCEPT !.pc = "list", !.cores = Cores, !.ticks = n, !.seen = Admitted]

\* A domain whose gate is closed already, by another freezer, is refused (AlreadyQuiescing).
freeze_pd ==
  /\ fz.pc = "idle" /\ ~gate
  /\ gate' = TRUE
  /\ fz' = Attempt(0)
  /\ UNCHANGED <<ep, threadState, marked>>

\* live_thread_ids of core c, filtered by domain.
Mine(c) == {t \in Members : Present(t) /\ loc[t] = c}

\* pd_threads: core after core in ascending order.
pd_threads ==
  /\ fz.pc = "list" /\ fz.cores # {}
  /\ LET c == CHOOSE x \in fz.cores : \A y \in fz.cores : x <= y
     IN fz' = [fz EXCEPT !.cores = @ \ {c}, !.tids = @ \cup Mine(c)]
  /\ UNCHANGED <<ep, threadState, marked, gate>>

\* Empty and TooManyThreads; otherwise the channels are next.
Listed ==
  /\ fz.pc = "list" /\ fz.cores = {}
  /\ IF fz.tids = {} \/ Cardinality(fz.tids) > MaxThreads
     THEN GiveUp
     ELSE /\ fz' = [fz EXCEPT !.pc = "find", !.todo = fz.tids,
                              !.recv = [t \in fz.tids |-> KEIN_EP]]
          /\ UNCHANGED gate
  /\ UNCHANGED <<ep, threadState, marked>>

ReceiverAt(t) == {e \in Endpoints : t \in ToSet(ep[e].receivers)}

\* tore_auf: the channels this freezer has closed.
Reopened == [e \in Endpoints |->
  IF \E t \in fz.shut : fz.recv[t] = e THEN [ep[e] EXCEPT !.closed = None] ELSE ep[e]]

\* recv_endpoints; a thread in RECV at two endpoints (MultiReceiver) ends the attempt.
recv_endpoints(t) ==
  /\ fz.pc = "find" /\ t \in fz.todo
  /\ IF Cardinality(ReceiverAt(t)) > 1
     THEN ep' = Reopened /\ GiveUp
     ELSE /\ fz' = IF ReceiverAt(t) = {}
                   THEN [fz EXCEPT !.todo = @ \ {t}]
                   ELSE [fz EXCEPT !.todo = @ \ {t}, !.pc = "close", !.cur = t,
                                   !.recv[t] = CHOOSE e \in ReceiverAt(t) : TRUE]
          /\ UNCHANGED <<ep, gate>>
  /\ UNCHANGED <<threadState, marked>>

\* Where the domain serves alone, calls from outside are refused from now on.  Senders next
\* to a receiver (SenderQueued) end the attempt.
begin_quiesce ==
  LET t == fz.cur
      e == fz.recv[t]
  IN /\ fz.pc = "close"
     /\ IF ep[e].senders # <<>>
        THEN ep' = Reopened /\ GiveUp
        ELSE /\ IF Len(ep[e].receivers) = 1 /\ ep[e].closed = None
                THEN /\ ep' = [ep EXCEPT ![e].closed = "freezer"]
                     /\ fz' = [fz EXCEPT !.pc = "find", !.shut = @ \cup {t}]
                ELSE UNCHANGED ep /\ fz' = [fz EXCEPT !.pc = "find"]
             /\ UNCHANGED gate
     /\ UNCHANGED <<threadState, marked>>

StartJudging ==
  /\ fz.pc = "find" /\ fz.todo = {}
  /\ fz' = [fz EXCEPT !.pc = "judge", !.todo = fz.tids]
  /\ UNCHANGED <<ep, threadState, marked, gate>>

\* Quiescence, merged over all endpoints.
AsSender(t) == \E e \in Endpoints : t \in ToSet(ep[e].senders)
AsParty(t) == \E e \in Endpoints : t \in {ep[e].caller, ep[e].owner}

\* thread_partner: the first endpoint that answers.
PartnerAt(t, e) == CASE ep[e].caller = t -> ep[e].owner
                     [] ep[e].caller # t /\ ep[e].owner = t -> ep[e].caller
                     [] OTHER -> None
thread_partner(t) ==
  LET es == {e \in Endpoints : PartnerAt(t, e) # None}
  IN IF es = {} THEN None ELSE PartnerAt(t, CHOOSE e \in es : \A d \in es : e <= d)

\* A thread at rest, one that only waits for work, or one whose partner is in the domain.
Harmless(t) == \/ ~AsSender(t) /\ ~AsParty(t)
               \/ thread_partner(t) \in Members

\* Debugged and Deadline take everything back; an obstacle before the deadline means another
\* attempt one tick later.
Judge(t) ==
  /\ fz.pc = "judge" /\ t \in fz.todo
  /\ \/ /\ t \in debug \/ (~Harmless(t) /\ Late)
        /\ ep' = Reopened /\ GiveUp
     \/ /\ t \notin debug /\ ~Harmless(t) /\ ~Late
        /\ ep' = Reopened /\ UNCHANGED gate
        /\ fz' = Attempt(fz.ticks + 1)
     \/ /\ t \notin debug /\ Harmless(t)
        /\ fz' = [fz EXCEPT !.todo = @ \ {t}]
        /\ UNCHANGED <<ep, gate>>
  /\ UNCHANGED <<threadState, marked>>

StartMarking ==
  /\ fz.pc = "judge" /\ fz.todo = {}
  /\ fz' = [fz EXCEPT !.pc = "mark", !.todo = fz.tids]
  /\ UNCHANGED <<ep, threadState, marked, gate>>

\* retire_receiver (what it answers is not looked at) and freeze_group.
MarkThread(t) ==
  /\ fz.pc = "mark" /\ t \in fz.todo
  /\ ep' = IF fz.recv[t] = KEIN_EP THEN ep
           ELSE [ep EXCEPT ![fz.recv[t]].receivers = Without(@, t)]
  /\ marked' = marked \cup {t} /\ Dequeued(t)
  /\ fz' = [fz EXCEPT !.todo = @ \ {t}, !.pc = IF fz.todo = {t} THEN "settle" ELSE @]
  /\ UNCHANGED <<wait, entry, on, loc, debug, gate>>

\* Mutant of OffCore: marked is taken for stopped.
OffCoreBelieved == TRUE

\* No thread of the cut is current on any core.
OffCore == fz.tids \cap on = {}

\* Mutant of Settle: the wait for the cores has no deadline.
SettlePatient ==
  /\ fz.pc = "settle" /\ OffCore
  /\ fz' = [fz EXCEPT !.pc = "frozen"]
  /\ UNCHANGED <<ep, threadState, marked, gate>>

\* Wait for the marked threads to leave their cores, one tick at a time.
Settle ==
  /\ fz.pc = "settle"
  /\ fz' = IF OffCore THEN [fz EXCEPT !.pc = "frozen"]
           ELSE IF Late THEN [fz EXCEPT !.pc = "bind", !.todo = fz.tids]
           ELSE [fz EXCEPT !.ticks = @ + 1]
  /\ UNCHANGED <<ep, threadState, marked, gate>>

-----------------------------------------------------------------------------
(* Thawing, and giving up after the threads have been marked               *)

\* thaw_pd, abort_freeze
thaw_pd ==
  /\ fz.pc = "frozen"
  /\ fz' = [fz EXCEPT !.pc = "bind", !.todo = fz.tids]
  /\ UNCHANGED <<ep, threadState, marked, gate>>

\* Mutant of bind_receiver: the retired receivers stay out.
BindNobody(t) ==
  /\ fz.pc = "bind" /\ t \in fz.todo
  /\ fz' = [fz EXCEPT !.todo = @ \ {t}, !.pc = IF fz.todo = {t} THEN "open" ELSE @]
  /\ UNCHANGED <<ep, threadState, marked, gate>>

bind_receiver(t) ==
  /\ fz.pc = "bind" /\ t \in fz.todo
  /\ LET e == fz.recv[t] IN
     ep' = IF e = KEIN_EP THEN ep
           ELSE IF t \in ToSet(ep[e].receivers) THEN ep
           ELSE [ep EXCEPT ![e].receivers = Append(@, t)]
  /\ fz' = [fz EXCEPT !.todo = @ \ {t}, !.pc = IF fz.todo = {t} THEN "open" ELSE @]
  /\ UNCHANGED <<threadState, marked, gate>>

end_quiesce ==
  /\ fz.pc = "open"
  /\ ep' = Reopened
  /\ fz' = [fz EXCEPT !.pc = "thaw", !.todo = fz.tids, !.shut = {}]
  /\ UNCHANGED <<threadState, marked, gate>>

thaw_group(t) ==
  /\ fz.pc = "thaw" /\ t \in fz.todo
  /\ marked' = marked \ {t} /\ Roused(t, debug)
  /\ fz' = [fz EXCEPT !.todo = @ \ {t}, !.pc = IF fz.todo = {t} THEN "ungate" ELSE @]
  /\ UNCHANGED <<ep, wait, entry, on, loc, debug, gate>>

OpenGate ==
  /\ fz.pc = "ungate" /\ GiveUp
  /\ UNCHANGED <<ep, threadState, marked>>

Freezer ==
  \/ pd_threads \/ Listed \/ begin_quiesce \/ StartJudging \/ StartMarking \/ Settle
  \/ end_quiesce \/ OpenGate
  \/ \E t \in Members : recv_endpoints(t) \/ Judge(t) \/ MarkThread(t) \/ bind_receiver(t)
                        \/ thaw_group(t)

Next ==
  \/ freeze_pd \/ thaw_pd \/ Elapse \/ Freezer
  \/ \E t \in Threads : \/ Dispatch(t) \/ Preempt(t) \/ DebugStop(t) \/ DebugResume(t)
                        \/ CommitRefused(t) \/ CommitCall(t) \/ CommitRecv(t) \/ CommitReply(t)
                        \/ \E c \in Cores : Balance(t, c)
                        \/ admit(t) \/ \E u \in Members : spawn(t, u)
                        \/ \E e \in Endpoints, k \in {"call", "recv", "reply"} : Enter(t, k, e)
  \/ \E e \in Endpoints : ReloadCloses(e) \/ ReloadOpens(e)

\* The freezer runs in the kernel and is never preempted.
Spec == Init /\ [][Next]_vars /\ WF_vars(Freezer)

-----------------------------------------------------------------------------
(* Properties                                                              *)

\* What the witness of a frozen domain (FrozenPd) keeps of its promise: every thread whose SPAWN
\* was over before the freezer began to list is in the cut, and none of them is executing on any
\* core, until somebody thaws it.
FrozenStands == fz.pc = "frozen" => fz.seen \subseteq fz.tids /\ on \cap fz.seen = {}

\* What the witness says (FrozenPd): every thread of the domain is in the cut and stands.
EveryThreadStands ==
  fz.pc = "frozen" => \A t \in Members : Present(t) => t \in fz.tids \ on

\* A channel the freezer has closed on behalf of a receiver has no caller waiting in its sender
\* queue until it is opened again (begin_quiesce after the look at sender_count).
SealedChannel ==
  \A t \in fz.shut : ep[fz.recv[t]].senders = <<>>

\* While nothing migrates: every thread the domain had when its freezer began to list is in the
\* cut of a frozen domain, and none of them is executing on any core until somebody thaws it; and
\* no caller waits at a channel closed for it.
FrozenStandsStill == ~Balancing => FrozenStands /\ SealedChannel

\* freeze_pd promises all or nothing: whenever no freeze is under way, the gate is open, no
\* freeze reason and no closed channel is left behind, and a thread blocked in RECV is entered
\* at its endpoint.
AllOrNothing ==
  fz.pc = "idle" =>
    /\ ~gate /\ marked = {} /\ \A e \in Endpoints : ep[e].closed # "freezer"
    /\ \A t \in Threads : wait[t].k = "recv" => t \in ToSet(ep[wait[t].e].receivers)

\* The freezer never opens a channel that an exchange of servers has closed (ep_gesperrt).
AlienLockStands ==
  [][\A e \in Endpoints : ep[e].closed = "reload" /\ fz' # fz => ep'[e].closed = "reload"]_vars

\* "A freeze without a deadline cannot be told from a deadlock": every freeze comes to an end,
\* frozen or given up, whatever the threads of the domain and their partners do.
FreezeReturns == fz.pc = "list" ~> fz.pc \in {"frozen", "idle"}

\* What the judgement is for: no transaction leaves the cut.  In a frozen domain the partner of
\* a thread in a call is in the domain, and no thread is entered in a queue of an endpoint.
CutClosed ==
  fz.pc = "frozen" =>
    \A e \in Endpoints :
      /\ ep[e].caller # None => (ep[e].caller \in Members) = (ep[e].owner \in Members)
      /\ (ToSet(ep[e].senders) \cup ToSet(ep[e].receivers)) \cap Members = {}

\* The judgement itself, at its moment: a thread that passes it has no open transaction with a
\* thread outside the domain ("the first open relation is enough to prevent the freeze").
JudgedWhole ==
  [][\A t \in fz.todo :
       fz.pc = "judge" /\ fz'.pc = "judge" /\ t \notin fz'.todo =>
         \A e \in Endpoints : PartnerAt(t, e) \in Members \cup {None}]_vars

\* Thawing is the inverse of freezing: a thread entered as a receiver is blocked in RECV there.
NoGhostReceiver ==
  \A e \in Endpoints : \A t \in ToSet(ep[e].receivers) : wait[t] = [k |-> "recv", e |-> e]

\* Receivers are entered before the channel opens so that no caller ends up in the sender queue
\* of an endpoint with a receiver: at an open endpoint only one of the queues is occupied.
OneSideWaits ==
  \A e \in Endpoints : ep[e].closed = None => ep[e].senders = <<>> \/ ep[e].receivers = <<>>
=============================================================================
