------------------------------ MODULE Redirect ------------------------------
(***************************************************************************)
(* Redirected system calls: SETHANDLER binds a guest thread to the PD that *)
(* acts as its kernel.  A trap of the guest puts its frame into a slot of  *)
(* the window it shares with the handler (the sidecar), calls the handler's*)
(* endpoint, and the guest runs again when both the reply and the result   *)
(* in the slot have reached its frame.                                     *)
(*                                                                         *)
(* A frame is <<guest, number of the call, kind>>: "req" as it was in the  *)
(* trap, "res" with the result from the slot, "ipc" or "cap" with nothing  *)
(* but the words of a reply without or with a grant, "gone" with the error *)
(* of a server that died.  System call and fault take the same path; one   *)
(* endpoint stands for both.  The handler's program (serve) is external.   *)
(***************************************************************************)
EXTENDS Naturals, Sequences, FiniteSets, FiniteSetsExt, Queues

CONSTANTS Pds, Guests, Handlers, Ctls,   \* PDs, bindable threads, handler threads, callers of SETHANDLER
          PdOf,                          \* the PD of a guest or handler thread
          NSlots, QCap, MaxCalls,
          Holds,                         \* the threads a caller of SETHANDLER has a capability for
          Ops, Bound                     \* what may happen; the handler a guest has from the start

Nobody == "none"

RedirectAssumption ==
  /\ PdOf \in [Guests \cup Handlers -> Pds] /\ Nobody \notin Pds \cup Guests \cup Handlers
  /\ IsFiniteSet(Pds) /\ IsFiniteSet(Guests)
  /\ NSlots \in Nat \ {0} /\ QCap \in Nat \ {0} /\ MaxCalls \in Nat
  /\ Ops \subseteq {"call", "bind", "rebind", "unbind", "kill", "exit", "free", "grant", "quiesce"}
  /\ Bound \in [Guests -> Pds \cup {Nobody}] /\ Holds \in [Ctls -> SUBSET Guests]

Slots == 0 .. NSlots - 1

VARIABLES th,        \* guest threads: state, binding, block reasons, frame
          pds,       \* PD table: used, gate closed, handler edge, number of bound threads, sidecar mask
          sidecar,   \* the window of each handler PD
          hep,       \* the endpoint of each handler PD: queues, caller, who owes the reply, gate closed
          ht,        \* handler threads
          ctl        \* SETHANDLER calls under way

redirectVars == <<th, pds, sidecar, hep, ht, ctl>>

NoBind == [hp |-> Nobody, slot |-> 0]
HIdle == [at |-> "idle", slot |-> 0, req |-> <<>>, guest |-> Nobody]
CIdle == [at |-> "idle", g |-> Nobody, b |-> NoBind]

\* Guests bound from the start have the slots in some order.
RedirectInit ==
  \E s \in [Guests -> Slots] :
    /\ \A g, h \in Guests : g # h /\ Bound[g] = Bound[h] /\ Bound[g] # Nobody => s[g] # s[h]
    /\ \A g \in Guests : Bound[g] = Nobody => s[g] = 0
    /\ th = [g \in Guests |-> [st |-> "user", bind |-> [hp |-> Bound[g], slot |-> s[g]],
                               b |-> NoBind, why |-> {}, n |-> 0, frame |-> <<>>]]
    /\ pds = [p \in Pds |->
         LET of == {g \in Guests : PdOf[g] = p /\ Bound[g] # Nobody} IN
         [used |-> TRUE, quiet |-> FALSE, bound |-> Cardinality(of),
          edge |-> IF of = {} THEN Nobody ELSE Bound[CHOOSE g \in of : TRUE],
          mask |-> {s[g] : g \in {x \in Guests : Bound[x] = p}}]]
    /\ sidecar = [p \in Pds |-> [x \in Slots |-> <<>>]]
    /\ hep = [p \in Pds |-> [senders |-> <<>>, receivers |-> <<>>, caller |-> Nobody, owner |-> Nobody,
                              shut |-> FALSE]]
    /\ ht = [h \in Handlers |-> HIdle]
    /\ ctl = [c \in Ctls |-> CIdle]

Live(g) == th[g].st # "dead"

-----------------------------------------------------------------------------
(* The guest's trap                                                        *)

\* The handler's PD exists and its gate is open.
handler_lebt(p) == pds[p].used /\ ~pds[p].quiet

\* The binding is read under the scheduler lock, the handler's PD under that of the tables;
\* without a living handler the guest stays blocked, it never falls back to the native calls.
dispatch(g) ==
  /\ "call" \in Ops /\ th[g].st = "user" /\ th[g].bind.hp # Nobody /\ th[g].n < MaxCalls
  /\ th' = [th EXCEPT ![g].n = @ + 1, ![g].b = th[g].bind,
                      ![g].st = IF handler_lebt(th[g].bind.hp) THEN "ablegen" ELSE "stuck",
                      ![g].why = IF handler_lebt(th[g].bind.hp) THEN {} ELSE {"HANDLER"}]
  /\ UNCHANGED <<pds, sidecar, hep, ht, ctl>>

\* Mutant of sidecar_ablegen: the slot beside.
SlotBeside(g) ==
  LET b == th[g].b IN
  /\ th[g].st = "ablegen"
  /\ sidecar' = [sidecar EXCEPT ![b.hp][(b.slot + 1) % NSlots] = <<g, th[g].n, "req">>]
  /\ th' = [th EXCEPT ![g].st = "mark"]
  /\ UNCHANGED <<pds, hep, ht, ctl>>

\* The frame goes into the slot before the message goes out.
sidecar_ablegen(g) ==
  LET b == th[g].b IN
  /\ th[g].st = "ablegen"
  /\ sidecar' = [sidecar EXCEPT ![b.hp][b.slot] = <<g, th[g].n, "req">>]
  /\ th' = [th EXCEPT ![g].st = "mark"]
  /\ UNCHANGED <<pds, hep, ht, ctl>>

mark_handler_wait(g) ==
  /\ th[g].st = "mark"
  /\ th' = [th EXCEPT ![g].why = {"HANDLER"}, ![g].st = "call"]
  /\ UNCHANGED <<pds, sidecar, hep, ht, ctl>>

\* Mutant of zustellen: a refused call counts as delivered.
FullIsSent(g) ==
  LET p == th[g].b.hp e == hep[p] IN
  /\ th[g].st = "call"
  /\ IF e.receivers # <<>>
     THEN /\ hep' = [hep EXCEPT ![p].receivers = Tail(@), ![p].caller = g,
                                ![p].owner = Head(e.receivers)]
          /\ ht' = [ht EXCEPT ![Head(e.receivers)].at = "got",
                              ![Head(e.receivers)].slot = th[g].b.slot]
     ELSE /\ hep' = IF Len(e.senders) < QCap THEN [hep EXCEPT ![p].senders = Append(@, g)] ELSE hep
          /\ UNCHANGED ht
  /\ th' = [th EXCEPT ![g].why = {"HANDLER", "IPC"}, ![g].st = "wait"]
  /\ UNCHANGED <<pds, sidecar, ctl>>

\* Endpoint::call: to a waiting handler thread, else into the queue; when the queue is full or
\* the endpoint does not take calls the guest stays blocked.
zustellen(g) ==
  LET p == th[g].b.hp e == hep[p] IN
  /\ th[g].st = "call"
  /\ IF e.shut \/ (e.receivers = <<>> /\ Len(e.senders) = QCap)
     THEN /\ th' = [th EXCEPT ![g].st = "stuck"]
          /\ UNCHANGED <<hep, ht>>
     ELSE /\ th' = [th EXCEPT ![g].why = {"HANDLER", "IPC"}, ![g].st = "wait"]
          /\ IF e.receivers # <<>>
             THEN /\ hep' = [hep EXCEPT ![p].receivers = Tail(@), ![p].caller = g,
                                        ![p].owner = Head(e.receivers)]
                  /\ ht' = [ht EXCEPT ![Head(e.receivers)].at = "got",
                                      ![Head(e.receivers)].slot = th[g].b.slot]
             ELSE /\ hep' = [hep EXCEPT ![p].senders = Append(@, g)]
                  /\ UNCHANGED ht
  /\ UNCHANGED <<pds, sidecar, ctl>>

-----------------------------------------------------------------------------
(* The handler's side                                                      *)

\* RECV: the gate of the handler's PD is asked under the lock of the tables ...
enter(h) ==
  /\ ht[h].at = "idle" /\ ~pds[PdOf[h]].quiet
  /\ ht' = [ht EXCEPT ![h].at = "enter"]
  /\ UNCHANGED <<th, pds, sidecar, hep, ctl>>

\* ... and that of the endpoint under its own.
recv(h) ==
  LET p == PdOf[h] q == hep[p].senders IN
  /\ ht[h].at = "enter"
  /\ \/ /\ hep[p].shut
        /\ ht' = [ht EXCEPT ![h].at = "idle"]
        /\ UNCHANGED hep
     \/ /\ ~hep[p].shut /\ q = <<>>
        /\ hep' = [hep EXCEPT ![p].receivers = Append(@, h)]
        /\ ht' = [ht EXCEPT ![h].at = "recv"]
     \/ /\ ~hep[p].shut /\ q # <<>>
        /\ hep' = [hep EXCEPT ![p].senders = Tail(q), ![p].caller = Head(q), ![p].owner = h]
        /\ ht' = [ht EXCEPT ![h].at = "got", ![h].slot = th[Head(q)].b.slot]
  /\ UNCHANGED <<th, pds, sidecar, ctl>>

\* The program of the handler reads the frame in the slot and later writes the result there.
serve(h) ==
  /\ \/ /\ ht[h].at = "got"
        /\ ht' = [ht EXCEPT ![h].at = "serve", ![h].req = sidecar[PdOf[h]][ht[h].slot]]
        /\ UNCHANGED sidecar
     \/ /\ ht[h].at = "serve"
        /\ sidecar' = [sidecar EXCEPT ![PdOf[h]][ht[h].slot] =
                         IF ht[h].req = <<>> THEN <<>> ELSE [ht[h].req EXCEPT ![3] = "res"]]
        /\ ht' = [ht EXCEPT ![h].at = "reply", ![h].req = <<>>]
  /\ UNCHANGED <<th, pds, hep, ctl>>

\* REPLY over a handler capability: the caller is read under one lock of the endpoint ...
read_caller(h) ==
  /\ ht[h].at = "reply"
  /\ ht' = [ht EXCEPT ![h].at = "transfer", ![h].guest = hep[PdOf[h]].caller]
  /\ UNCHANGED <<th, pds, sidecar, hep, ctl>>

\* A waker takes away its own reason; the thread runs when none is left.
Woken(t, reason) ==
  LET w == t.why \ {reason} IN
  [t EXCEPT !.why = w, !.st = IF @ = "wait" /\ w = {} THEN "user" ELSE @]

\* What the caller g has of a reply, or of the death of the thread that owed it: a frame, and one
\* reason less.
Answered(g, kind) ==
  IF g # Nobody /\ "IPC" \in th[g].why
  THEN [th EXCEPT ![g] = Woken([@ EXCEPT !.frame = <<g, th[g].n, kind>>], "IPC")] ELSE th

\* ... answered under another ...
reply(h) ==
  /\ ht[h].at = "transfer"
  /\ hep' = [hep EXCEPT ![PdOf[h]].caller = Nobody, ![PdOf[h]].owner = Nobody]
  /\ th' = Answered(hep[PdOf[h]].caller, "ipc")
  /\ ht' = [ht EXCEPT ![h].at = "wake"]
  /\ UNCHANGED <<pds, sidecar, ctl>>

\* ... and then the result goes from the slot into the frame, and the second reason
\* falls.  Without a binding, or with no frame in the slot, there is nothing to copy.
handler_reply(h) ==
  LET g == ht[h].guest b == th[g].bind
      f == IF b.hp = Nobody \/ sidecar[b.hp][b.slot] = <<>> THEN th[g].frame ELSE sidecar[b.hp][b.slot]
  IN
  /\ ht[h].at = "wake"
  /\ th' = IF g = Nobody \/ ~Live(g) THEN th
           ELSE [th EXCEPT ![g] = Woken([@ EXCEPT !.frame = f], "HANDLER")]
  /\ ht' = [ht EXCEPT ![h] = HIdle]
  /\ UNCHANGED <<pds, sidecar, hep, ctl>>

\* REPLY with a grant: the caller is read and answered under one lock of the endpoint, the
\* capability goes over; the result in the slot does not, and the second reason stays.
reply_grant(h) ==
  /\ "grant" \in Ops /\ ht[h].at = "reply"
  /\ hep' = [hep EXCEPT ![PdOf[h]].caller = Nobody, ![PdOf[h]].owner = Nobody]
  /\ th' = Answered(hep[PdOf[h]].caller, "cap")
  /\ ht' = [ht EXCEPT ![h] = HIdle]
  /\ UNCHANGED <<pds, sidecar, ctl>>

-----------------------------------------------------------------------------
(* SETHANDLER                                                              *)

\* From hp along the edges, handler by handler.
kette(hp) ==
  LET f[n \in 0 .. Cardinality(Pds)] ==
        IF n = 0 THEN hp ELSE IF f[n - 1] = Nobody THEN Nobody ELSE pds[f[n - 1]].edge
  IN f

\* The verdict: not the own PD, no second handler for a PD, a free slot, no ring.
pruefe_bindung(g, hp) ==
  /\ PdOf[g] # hp
  /\ pds[PdOf[g]].edge \in {Nobody, hp}
  /\ Cardinality(pds[hp].mask) < NSlots
  /\ \A n \in 0 .. Cardinality(Pds) : kette(hp)[n] # PdOf[g]
  /\ kette(hp)[Cardinality(Pds)] = Nobody

\* Mutant of sidecar_belegen: a count instead of the mask.
SlotByCount(hp) == Cardinality(pds[hp].mask)

sidecar_belegen(hp) == Min(Slots \ pds[hp].mask)

\* Verdict, slot and edge under the write lock of the tables ...
bind_tables(c, g, hp) ==
  /\ "bind" \in Ops /\ ctl[c].at = "idle"
  /\ "rebind" \in Ops \/ th[g].bind.hp = Nobody
  /\ pds[hp].used /\ pds[PdOf[g]].used /\ Live(g) /\ pruefe_bindung(g, hp)
  /\ pds' = [p \in Pds |-> [pds[p] EXCEPT
       !.mask = IF p = hp THEN @ \cup {sidecar_belegen(hp)} ELSE @,
       !.edge = IF p = PdOf[g] THEN hp ELSE @,
       !.bound = IF p = PdOf[g] THEN @ + 1 ELSE @]]
  /\ ctl' = [ctl EXCEPT ![c] = [at |-> "set", g |-> g,
                                b |-> [hp |-> hp, slot |-> sidecar_belegen(hp)]]]
  /\ UNCHANGED <<th, sidecar, hep, ht>>

\* Mutant of kante_loesen: the edge stays when the last binding goes.
EdgeStays(t, p) ==
  IF t[p].used /\ t[p].bound > 0 THEN [t EXCEPT ![p].bound = @ - 1] ELSE t

kante_loesen(t, p) ==
  IF t[p].used /\ t[p].bound > 0
  THEN [t EXCEPT ![p].bound = @ - 1, ![p].edge = IF t[p].bound = 1 THEN Nobody ELSE @] ELSE t

sidecar_freigeben(t, b) ==
  IF t[b.hp].used THEN [t EXCEPT ![b.hp].mask = @ \ {b.slot}] ELSE t

\* ... then the binding at the thread; if that is gone, everything goes back.
set_handler(c) ==
  LET g == ctl[c].g IN
  /\ ctl[c].at = "set"
  /\ IF Live(g)
     THEN th' = [th EXCEPT ![g].bind = ctl[c].b] /\ UNCHANGED pds
     ELSE pds' = sidecar_freigeben(kante_loesen(pds, PdOf[g]), ctl[c].b) /\ UNCHANGED th
  /\ ctl' = [ctl EXCEPT ![c] = CIdle]
  /\ UNCHANGED <<sidecar, hep, ht>>

\* Unbind: the old binding is read, ...
unbind_read(c, g) ==
  /\ "unbind" \in Ops /\ ctl[c].at = "idle" /\ th[g].bind.hp # Nobody
  /\ ctl' = [ctl EXCEPT ![c] = [at |-> "clear", g |-> g, b |-> th[g].bind]]
  /\ UNCHANGED <<th, pds, sidecar, hep, ht>>

\* ... cleared at the thread, ...
unbind_clear(c) ==
  LET g == ctl[c].g IN
  /\ ctl[c].at = "clear"
  /\ IF Live(g)
     THEN /\ th' = [th EXCEPT ![g].bind = NoBind]
          /\ ctl' = [ctl EXCEPT ![c].at = "free"]
     ELSE ctl' = [ctl EXCEPT ![c] = CIdle] /\ UNCHANGED th
  /\ UNCHANGED <<pds, sidecar, hep, ht>>

\* ... and given back to the tables.
unbind_tables(c) ==
  /\ ctl[c].at = "free"
  /\ pds' = sidecar_freigeben(kante_loesen(pds, PdOf[ctl[c].g]), ctl[c].b)
  /\ ctl' = [ctl EXCEPT ![c] = CIdle]
  /\ UNCHANGED <<th, sidecar, hep, ht>>

-----------------------------------------------------------------------------
(* Death                                                                   *)

\* A guest dies: its TCB and its place at the endpoint go.
kill(g) ==
  /\ "kill" \in Ops /\ th[g].st \in {"user", "wait", "stuck"}
  /\ th' = [th EXCEPT ![g] = [@ EXCEPT !.st = "dead", !.bind = NoBind, !.b = NoBind,
                                       !.why = {}, !.frame = <<>>]]
  /\ hep' = [p \in Pds |-> [hep[p] EXCEPT !.senders = Without(@, g),
                                        !.caller = IF @ = g THEN Nobody ELSE @,
                                        !.owner = IF hep[p].caller = g THEN Nobody ELSE @]]
  /\ UNCHANGED <<pds, sidecar, ht, ctl>>

\* A handler thread dies outside the kernel: it leaves the queue of receivers, and the call it
\* owes a reply to is aborted.  Its PD stays.
exit(h) ==
  LET p == PdOf[h] owes == hep[p].owner = h IN
  /\ "exit" \in Ops /\ ht[h].at \in {"idle", "recv", "got", "serve", "reply"}
  /\ ht' = [ht EXCEPT ![h] = [HIdle EXCEPT !.at = "dead"]]
  /\ hep' = [hep EXCEPT ![p].receivers = Without(@, h),
                        ![p].caller = IF owes THEN Nobody ELSE @,
                        ![p].owner = IF owes THEN Nobody ELSE @]
  /\ th' = IF owes THEN Answered(hep[p].caller, "gone") ELSE th
  /\ UNCHANGED <<pds, sidecar, ctl>>

\* The entry of a handler PD is freed after its threads are gone.
pd_free(p) ==
  /\ "free" \in Ops /\ pds[p].used
  /\ \A h \in Handlers : PdOf[h] = p => ht[h].at = "dead"
  /\ \A g \in Guests : PdOf[g] # p
  /\ pds' = [pds EXCEPT ![p] = [used |-> FALSE, quiet |-> FALSE, edge |-> Nobody, bound |-> 0, mask |-> {}]]
  /\ UNCHANGED <<th, sidecar, hep, ht, ctl>>

-----------------------------------------------------------------------------
(* Freezing and hot reload close the gate of a PD or of its endpoint       *)

set_quiescing(p) ==
  /\ "quiesce" \in Ops /\ pds[p].used
  /\ pds' = [pds EXCEPT ![p].quiet = ~@]
  /\ UNCHANGED <<th, sidecar, hep, ht, ctl>>

close_endpoint(p) ==
  /\ "quiesce" \in Ops /\ ~hep[p].shut
  /\ hep' = [hep EXCEPT ![p].shut = TRUE]
  /\ UNCHANGED <<th, pds, sidecar, ht, ctl>>

open_endpoint(p) ==
  /\ "quiesce" \in Ops /\ hep[p].shut
  /\ hep' = [hep EXCEPT ![p].shut = FALSE]
  /\ UNCHANGED <<th, pds, sidecar, ht, ctl>>

Trap(g) == dispatch(g) \/ sidecar_ablegen(g) \/ mark_handler_wait(g) \/ zustellen(g)
Handle(h) ==
  enter(h) \/ recv(h) \/ serve(h) \/ read_caller(h) \/ reply(h) \/ handler_reply(h) \/ reply_grant(h)

RedirectNext ==
  \/ \E g \in Guests : Trap(g) \/ kill(g)
  \/ \E h \in Handlers : Handle(h) \/ exit(h)
  \/ \E c \in Ctls :
       \/ set_handler(c) \/ unbind_clear(c) \/ unbind_tables(c)
       \/ \E g \in Holds[c] : unbind_read(c, g) \/ \E hp \in Pds : bind_tables(c, g, hp)
  \/ \E p \in Pds : pd_free(p) \/ set_quiescing(p) \/ close_endpoint(p) \/ open_endpoint(p)

RedirectSpec == RedirectInit /\ [][RedirectNext]_redirectVars

-----------------------------------------------------------------------------
(* Properties                                                              *)

\* Slots are in their windows, reasons are those of this path, a running guest has none.
RedirectTypeOK ==
  /\ \A g \in Guests : /\ th[g].why \subseteq {"IPC", "HANDLER"}
                       /\ th[g].st \in {"user", "ablegen"} => th[g].why = {}
                       /\ th[g].bind.hp # Nobody => th[g].bind.slot \in Slots
  /\ \A p \in Pds : pds[p].mask \subseteq Slots /\ Len(hep[p].senders) <= QCap

BoundIn(p) == {g \in Guests : PdOf[g] = p /\ th[g].bind.hp # Nobody}

\* A slot belongs to one guest: no two threads are bound to the same one, and the slot of a
\* bound thread is marked as taken.
SlotExclusive ==
  \A g \in Guests : th[g].bind.hp # Nobody /\ pds[th[g].bind.hp].used =>
    /\ th[g].bind.slot \in pds[th[g].bind.hp].mask
    /\ \A x \in Guests \ {g} : th[x].bind # th[g].bind

\* While no SETHANDLER is under way, the edge of a PD and its count say how many of its threads
\* are bound, and to which handler.
EdgeTrue ==
  (\A c \in Ctls : ctl[c] = CIdle) =>
    \A p \in Pds : /\ pds[p].bound = Cardinality(BoundIn(p))
                   /\ (pds[p].edge = Nobody) = (BoundIn(p) = {})
                   /\ \A g \in BoundIn(p) : th[g].bind.hp = pds[p].edge

\* While no SETHANDLER is under way, each slot that is taken has a guest.
SlotsOwned ==
  (\A c \in Ctls : ctl[c] = CIdle) =>
    \A p \in Pds : \A s \in pds[p].mask : \E g \in Guests : th[g].bind = [hp |-> p, slot |-> s]

Serves(p) == {th[g].bind.hp : g \in BoundIn(p)}

\* The handlers of handlers never form a ring: some PD answers without asking another.
NoRing ==
  ~\E S \in (SUBSET Pds) \ {{}} : \A p \in S : Serves(p) \cap S # {}

\* A guest that runs again has the result of its own last call; if it was unbound meanwhile, no
\* result.  It never has the frame of another guest or of an earlier call.
OwnAnswer ==
  \A g \in Guests : th[g].st = "user" /\ th[g].n > 0 =>
    th[g].frame \in {<<g, th[g].n, "res">>, <<g, th[g].n, "ipc">>}

\* What is left of a call that was answered with a grant, or whose server died: the guest waits
\* for a result that nobody will bring.
Adrift(g, kind) == th[g].why = {"HANDLER"} /\ th[g].frame = <<g, th[g].n, kind>>

\* A guest that waits is queued at its handler, is being served or being answered; a call goes
\* astray in no other way than by a REPLY with a grant and by the death of the thread that owed
\* the reply.
NoGuestLost ==
  \A g \in Guests : th[g].st = "wait" =>
    \/ g \in ToSet(hep[th[g].b.hp].senders) \/ hep[th[g].b.hp].caller = g
    \/ \E h \in Handlers : ht[h].guest = g /\ ht[h].at = "wake" /\ "IPC" \notin th[g].why
    \/ Adrift(g, "cap") \/ Adrift(g, "gone")

\* Each REPLY at a handler's endpoint finishes the call of the guest: it does not wait on.
ReplyFinishes == \A g \in Guests : th[g].st = "wait" => ~Adrift(g, "cap")

\* A guest whose handler thread died is woken with ERR_SERVER_GONE.
ServerGoneWakes == \A g \in Guests : th[g].st = "wait" => ~Adrift(g, "gone")

\* The two settings the promises are made for.  Bindings that stay as they are, one handler thread
\* at an endpoint; and callers of SETHANDLER with threads of their own, that bind a thread only
\* while it has no handler, and of which none dies.
FixedBindings ==
  /\ Ops \cap {"bind", "rebind", "unbind"} = {}
  /\ \A h, k \in Handlers : PdOf[h] = PdOf[k] => h = k
OwnThreads ==
  /\ Ops \cap {"rebind", "kill"} = {} /\ \A g \in Guests : Bound[g] = Nobody
  /\ \A c, d \in Ctls : c # d => Holds[c] \cap Holds[d] = {}

\* A guest that waits is queued, served or being answered unless its reply came with a grant or its
\* handler thread died, and one that runs again has the result of its own last call; SETHANDLER keeps the tables and the bindings of the
\* threads together: slots are exclusive and owned, edges and counts say who is bound, handlers of
\* handlers form no ring.
RedirectsTrue ==
  /\ FixedBindings => NoGuestLost /\ OwnAnswer
  /\ OwnThreads => SlotExclusive /\ EdgeTrue /\ SlotsOwned /\ NoRing
=============================================================================
