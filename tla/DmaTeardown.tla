---------------------------- MODULE DmaTeardown -----------------------------
(***************************************************************************)
(* DMA regions and the devices that write into them (kernel/src/system.rs, *)
(* VtdEnforcer): attach maps a region into the translation context of the  *)
(* device's group, detach takes it out, and the deletion of its last       *)
(* capability finalises it: still the devices, unmap, invalidate, and give *)
(* the memory back only if the devices have confirmed.                     *)
(*                                                                         *)
(* attach, detach and finalize run under the lock of DMA_CTX, one at a     *)
(* time, but the devices go on between any two of their accesses.  A       *)
(* device may stop answering on its configuration space; its writes and    *)
(* its bus master bit are then out of reach.  The devices and the unit are *)
(* external.                                                               *)
(***************************************************************************)
EXTENDS Naturals, FiniteSets

CONSTANTS Groups, Devices, GroupOf,   \* isolation groups; the group of a device
          Regions,
          NDMA_CTX, MAX_CTX_REGS, MAX_PENDING_DMA,
          MayHang,    \* devices that may stop answering
          Detaching,  \* TRUE: callers detach before they delete the capability
          MapFails,   \* TRUE: memory for page tables may run out
          SyncFails   \* TRUE: the unit may not answer: invalidations time out, caps_common is None

DmaAssumption ==
  /\ GroupOf \in [Devices -> Groups] /\ MayHang \subseteq Devices
  /\ {NDMA_CTX, MAX_CTX_REGS, MAX_PENDING_DMA} \subseteq Nat
  /\ {Detaching, MapFails, SyncFails} \subseteq BOOLEAN
  /\ IsFiniteSet(Regions)

None == "none"

VARIABLES ctx,      \* DMA_CTX: regions entered; whether the context entries are set
          slpt,     \* the regions the tables of a context translate
          iotlb,    \* translations the unit has cached
          dev,      \* bus master bit, does it answer, saved_cmd, quiesce_depth, armed by attach
          flight,   \* translated writes under way
          region,   \* where a region is
          ok,       \* the verdict of finalize, until the memory is dealt with
          op        \* the operation that holds the lock

dmaVars == <<ctx, slpt, iotlb, dev, flight, region, ok, op>>

EMPTY == [used |-> FALSE, regs |-> {}, entry |-> FALSE]
Idle == [k |-> "idle", at |-> None, d |-> None, r |-> None, batch |-> {}, todo |-> {},
         devs |-> {}, of |-> {}]

DmaInit ==
  /\ ctx = [g \in Groups |-> EMPTY]
  /\ slpt = [g \in Groups |-> {}] /\ iotlb = [g \in Groups |-> {}]
  /\ dev = [d \in Devices |-> [bme |-> FALSE, hung |-> FALSE, saved |-> FALSE, depth |-> 0,
                               armed |-> FALSE]]
  /\ flight = {}
  /\ region = [r \in Regions |-> "new"] /\ ok = [r \in Regions |-> FALSE]
  /\ op = Idle

SidsOf(g) == {d \in Devices : GroupOf[d] = g}
CtxOf(r) == {g \in Groups : ctx[g].used /\ r \in ctx[g].regs}
Room(g) == Cardinality(ctx[g].regs) < MAX_CTX_REGS
At(k, a) == op.k = k /\ op.at = a
Goto(a) == op' = [op EXCEPT !.at = a]

-----------------------------------------------------------------------------
(* The devices and the unit                                                *)

\* A bus master writes through what the unit has cached or finds in the tables.
Write(d, r) ==
  LET g == GroupOf[d] IN
  /\ dev[d].bme /\ (r \in iotlb[g] \/ (ctx[g].entry /\ r \in slpt[g]))
  /\ flight' = flight \cup {<<d, r>>}
  /\ iotlb' = [iotlb EXCEPT ![g] = @ \cup {r}]
  /\ UNCHANGED <<ctx, slpt, dev, region, ok, op>>

Land(w) ==
  /\ w \in flight /\ flight' = flight \ {w}
  /\ UNCHANGED <<ctx, slpt, iotlb, dev, region, ok, op>>

Hang(d) ==
  /\ d \in MayHang /\ ~dev[d].hung
  /\ dev' = [dev EXCEPT ![d].hung = TRUE]
  /\ UNCHANGED <<ctx, slpt, iotlb, flight, region, ok, op>>

\* sync_tables: all cached translations go.
Synced == \/ iotlb' = [g \in Groups |-> {}]
          \/ SyncFails /\ UNCHANGED iotlb

-----------------------------------------------------------------------------
(* attach                                                                  *)

\* The context of the group, or a new one; the region is mapped and entered.  Product code
\* attaches a region once.  With the entries full it is unmapped again, and when the memory for
\* tables runs out in an existing context what has been mapped stays.
attach(d, r) ==
  LET g == GroupOf[d] IN
  /\ op = Idle /\ region[r] = "new"
  /\ ctx[g].used \/ Cardinality({h \in Groups : ctx[h].used}) < NDMA_CTX
  /\ region' = [region EXCEPT ![r] = "owned"]
  /\ slpt' = [slpt EXCEPT ![g] = @ \cup {r}]
  /\ \/ /\ Room(g)
        /\ ctx' = [ctx EXCEPT ![g].used = TRUE, ![g].regs = @ \cup {r}]
        /\ op' = [Idle EXCEPT !.k = "attach", !.at = IF ctx[g].used THEN "arm" ELSE "context",
                              !.d = d, !.r = r]
     \/ /\ ~Room(g)
        /\ op' = [Idle EXCEPT !.k = "attach", !.at = "full", !.d = d, !.r = r]
        /\ UNCHANGED ctx
     \/ /\ MapFails /\ ctx[g].used
        /\ UNCHANGED <<ctx, op>>
  /\ UNCHANGED <<iotlb, dev, flight, ok>>

AttachFull ==
  LET g == GroupOf[op.d] IN
  /\ At("attach", "full")
  /\ slpt' = [slpt EXCEPT ![g] = @ \ {op.r}]
  /\ op' = Idle
  /\ UNCHANGED <<ctx, iotlb, dev, flight, region, ok>>

\* context_set for every RID of the group; it needs memory, too.
AttachContext ==
  LET g == GroupOf[op.d] IN
  /\ At("attach", "context")
  /\ \/ ctx' = [ctx EXCEPT ![g].entry = TRUE] /\ Goto("arm")
     \/ /\ MapFails
        /\ \E partly \in BOOLEAN : ctx' = [ctx EXCEPT ![g].entry = partly]
        /\ op' = Idle
  /\ UNCHANGED <<slpt, iotlb, dev, flight, region, ok>>

\* ctx_arm_bus_master: while a teardown stills the device only the intention is noted.
AttachArm ==
  LET d == op.d IN
  /\ At("attach", "arm")
  /\ dev' = [dev EXCEPT ![d].armed = TRUE,
                        ![d].saved = @ \/ dev[d].depth > 0,
                        ![d].bme = @ \/ (dev[d].depth = 0 /\ ~dev[d].hung)]
  /\ Goto("sync")
  /\ UNCHANGED <<ctx, slpt, iotlb, flight, region, ok>>

AttachSync ==
  /\ At("attach", "sync") /\ Synced
  /\ op' = Idle
  /\ UNCHANGED <<ctx, slpt, dev, flight, region, ok>>

-----------------------------------------------------------------------------
(* detach and finalize                                                     *)

\* The capability goes under its own lock, when its holder has no attach or detach of it under
\* way; its region is reported.
cap_delete(r) ==
  /\ region[r] \in {"new", "owned"}
  /\ op.k = "finalize" \/ r \notin {op.r} \cup op.batch
  /\ region' = [region EXCEPT ![r] = "dying"]
  /\ UNCHANGED <<ctx, slpt, iotlb, dev, flight, ok, op>>

\* With a unit that is silent (caps_common) detach only counts, and the region stays entered.
detach(r) ==
  /\ Detaching /\ op = Idle /\ region[r] = "owned" /\ CtxOf(r) # {}
  /\ op' = [Idle EXCEPT !.k = "detach", !.at = "pick", !.r = r, !.batch = {r}, !.todo = {r}]
  /\ UNCHANGED <<ctx, slpt, iotlb, dev, flight, region, ok>>

\* A batch of reported regions.
finalize(B) ==
  /\ op = Idle /\ B # {} /\ \A r \in B : region[r] = "dying"
  /\ op' = [Idle EXCEPT !.k = "finalize", !.at = "pick", !.batch = B, !.todo = B]
  /\ UNCHANGED <<ctx, slpt, iotlb, dev, flight, region, ok>>

\* finalize with a unit that is silent: every verdict is good, and the lock is not even taken.
finalize_silent(B) ==
  /\ SyncFails /\ B # {} /\ B \cap op.batch = {} /\ \A r \in B : region[r] = "dying"
  /\ region' = [r \in Regions |-> IF r \in B THEN "judged" ELSE region[r]]
  /\ ok' = [r \in Regions |-> r \in B \/ ok[r]]
  /\ UNCHANGED <<ctx, slpt, iotlb, dev, flight, op>>

\* Phase 1, region by region: without a context there was never a translation.
FindContext ==
  /\ op.at = "pick" /\ op.todo # {}
  /\ \E r \in op.todo :
       IF CtxOf(r) = {}
       THEN /\ ok' = [ok EXCEPT ![r] = TRUE]
            /\ op' = [op EXCEPT !.todo = @ \ {r}]
       ELSE \E g \in CtxOf(r) :
            /\ ok' = [ok EXCEPT ![r] = TRUE]
            /\ op' = [op EXCEPT !.at = "disarm", !.r = r, !.todo = @ \ {r}, !.devs = SidsOf(g),
                                !.of = @ \cup {<<r, g>>}]
  /\ UNCHANGED <<ctx, slpt, iotlb, dev, flight, region>>

\* Mutant of Disarm: the command register is saved every time.
DisarmAgain(d) ==
  /\ op.at = "disarm" /\ d \in op.devs
  /\ dev' = [dev EXCEPT ![d].saved = dev[d].bme \/ dev[d].hung,
                        ![d].bme = @ /\ dev[d].hung,
                        ![d].depth = @ + 1]
  /\ op' = IF op.devs = {d} THEN [op EXCEPT !.at = "flush", !.devs = SidsOf(GroupOf[d])]
           ELSE [op EXCEPT !.devs = @ \ {d}]
  /\ UNCHANGED <<ctx, slpt, iotlb, flight, region, ok>>

\* ctx_quiesce: first every device of the group is disarmed.  A device that does not answer
\* reads as all ones and takes no write.
Disarm(d) ==
  /\ op.at = "disarm" /\ d \in op.devs
  /\ dev' = [dev EXCEPT ![d].saved = IF dev[d].depth = 0 THEN dev[d].bme \/ dev[d].hung ELSE @,
                        ![d].bme = @ /\ (dev[d].depth > 0 \/ dev[d].hung),
                        ![d].depth = @ + 1]
  /\ op' = IF op.devs = {d} THEN [op EXCEPT !.at = "flush", !.devs = SidsOf(GroupOf[d])]
           ELSE [op EXCEPT !.devs = @ \ {d}]
  /\ UNCHANGED <<ctx, slpt, iotlb, flight, region, ok>>

\* Mutant of Flush: an answer from the device is taken for granted.
FlushBelieved(d) ==
  /\ op.at = "flush" /\ d \in op.devs
  /\ flight' = IF dev[d].hung THEN flight ELSE {w \in flight : w[1] # d}
  /\ op' = [op EXCEPT !.devs = @ \ {d}, !.at = IF op.devs = {d} THEN "pick" ELSE @]
  /\ UNCHANGED <<ctx, slpt, iotlb, dev, region, ok>>

\* Then every device is flushed: a read that is answered has pushed the writes before it.
Flush(d) ==
  /\ op.at = "flush" /\ d \in op.devs
  /\ flight' = IF dev[d].hung THEN flight ELSE {w \in flight : w[1] # d}
  /\ ok' = [ok EXCEPT ![op.r] = @ /\ ~dev[d].hung /\ ~dev[d].bme]
  /\ op' = [op EXCEPT !.devs = @ \ {d}, !.at = IF op.devs = {d} THEN "pick" ELSE @]
  /\ UNCHANGED <<ctx, slpt, iotlb, dev, region>>

\* Mutant of Unmap: what has not been confirmed stays mapped.
UnmapConfirmed ==
  /\ op.at = "pick" /\ op.todo = {}
  /\ slpt' = [g \in Groups |-> slpt[g] \ {r \in op.batch : <<r, g>> \in op.of /\ ok[r]}]
  /\ ctx' = [g \in Groups |-> [ctx[g] EXCEPT !.regs = @ \ {r \in op.batch : <<r, g>> \in op.of}]]
  /\ Goto("sync")
  /\ UNCHANGED <<iotlb, dev, flight, region, ok>>

\* Phase 2: always, confirmed or not.
Unmap ==
  /\ op.at = "pick" /\ op.todo = {}
  /\ slpt' = [g \in Groups |-> slpt[g] \ {r \in op.batch : <<r, g>> \in op.of}]
  /\ ctx' = [g \in Groups |-> [ctx[g] EXCEPT !.regs = @ \ {r \in op.batch : <<r, g>> \in op.of}]]
  /\ Goto("sync")
  /\ UNCHANGED <<iotlb, dev, flight, region, ok>>

\* Phase 3: one invalidation for the batch; what comes of it is not looked at.
Sync ==
  /\ op.k \in {"detach", "finalize"} /\ op.at = "sync" /\ Synced
  /\ op' = [op EXCEPT !.at = "release", !.todo = op.batch]
  /\ UNCHANGED <<ctx, slpt, dev, flight, region, ok>>

\* Phase 4, region by region: ctx_release lowers the depth, and at the bottom writes the saved
\* command back, without the bus master bit if the context is empty.
Release(r) ==
  /\ op.at = "release" /\ r \in op.todo
  /\ \/ /\ \A g \in Groups : <<r, g>> \notin op.of \/ ~ctx[g].used
        /\ op' = [op EXCEPT !.todo = @ \ {r}]
        /\ UNCHANGED dev
     \/ \E g \in Groups :
        /\ <<r, g>> \in op.of /\ ctx[g].used
        /\ dev' = [d \in Devices |->
             IF d \in SidsOf(g) /\ dev[d].depth > 0
             THEN [dev[d] EXCEPT !.depth = @ - 1,
                     !.bme = IF dev[d].depth = 1 /\ ~dev[d].hung
                             THEN dev[d].saved /\ ctx[g].regs # {} ELSE @]
             ELSE dev[d]]
        /\ op' = IF ctx[g].regs # {} THEN [op EXCEPT !.todo = @ \ {r}]
                 ELSE [op EXCEPT !.todo = @ \ {r}, !.at = "clear", !.r = g]
  /\ UNCHANGED <<ctx, slpt, iotlb, flight, region, ok>>

\* vtd_teardown_ctx: the context entries of all RIDs, ...
ClearEntries ==
  /\ op.at = "clear"
  /\ ctx' = [ctx EXCEPT ![op.r].entry = FALSE]
  /\ Goto("free")
  /\ UNCHANGED <<slpt, iotlb, dev, flight, region, ok>>

\* ... an invalidation, and then the tables and the context.
FreeTables ==
  /\ op.at = "free" /\ Synced
  /\ slpt' = [slpt EXCEPT ![op.r] = {}]
  /\ ctx' = [ctx EXCEPT ![op.r] = EMPTY]
  /\ dev' = [d \in Devices |-> IF d \in SidsOf(op.r)
                               THEN [dev[d] EXCEPT !.depth = 0, !.saved = FALSE, !.armed = FALSE]
                               ELSE dev[d]]
  /\ Goto("release")
  /\ UNCHANGED <<flight, region, ok>>

\* The lock is released; finalize leaves its verdicts to dma_finalize, detach has none.
Done ==
  /\ op.at = "release" /\ op.todo = {}
  /\ region' = IF op.k = "detach" THEN region
               ELSE [r \in Regions |-> IF r \in op.batch THEN "judged" ELSE region[r]]
  /\ op' = Idle
  /\ UNCHANGED <<ctx, slpt, iotlb, dev, flight, ok>>

\* dma_finalize: free_dma_region with a token, park_pending without; where PENDING_DMA is full
\* the region is only counted.
dma_finalize(r) ==
  /\ region[r] = "judged"
  /\ region' = [region EXCEPT ![r] =
       IF ok[r] THEN "free"
       ELSE IF Cardinality({q \in Regions : region[q] = "pending"}) < MAX_PENDING_DMA
       THEN "pending" ELSE "leaked"]
  /\ ok' = [ok EXCEPT ![r] = FALSE]
  /\ UNCHANGED <<ctx, slpt, iotlb, dev, flight, op>>

\* The memory is handed out again, with a new capability.
alloc_dma_region(r) ==
  /\ region[r] = "free"
  /\ region' = [region EXCEPT ![r] = "new"]
  /\ UNCHANGED <<ctx, slpt, iotlb, dev, flight, ok, op>>

DmaNext ==
  \/ \E d \in Devices : Hang(d) \/ Disarm(d) \/ Flush(d) \/ \E r \in Regions : Write(d, r) \/ attach(d, r)
  \/ \E w \in flight : Land(w)
  \/ AttachFull \/ AttachContext \/ AttachArm \/ AttachSync
  \/ \E r \in Regions : \/ cap_delete(r) \/ detach(r) \/ Release(r) \/ dma_finalize(r)
                        \/ alloc_dma_region(r)
  \/ \E B \in SUBSET Regions : finalize(B) \/ finalize_silent(B)
  \/ FindContext \/ Unmap \/ Sync \/ ClearEntries \/ FreeTables \/ Done

DmaSpec == DmaInit /\ [][DmaNext]_dmaVars

-----------------------------------------------------------------------------
(* Properties                                                              *)

Ctx == [used : BOOLEAN, regs : SUBSET Regions, entry : BOOLEAN]
Dev == [bme : BOOLEAN, hung : BOOLEAN, saved : BOOLEAN, depth : Nat, armed : BOOLEAN]
Op == [k : {"idle", "attach", "detach", "finalize"},
       at : {None, "full", "context", "arm", "pick", "disarm", "flush", "sync", "release",
             "clear", "free"},
       d : Devices \cup {None}, r : Regions \cup Groups \cup {None},
       batch : SUBSET Regions, todo : SUBSET Regions, devs : SUBSET Devices,
       of : SUBSET (Regions \X Groups)]
Places == {"new", "owned", "dying", "judged", "free", "pending", "leaked"}

\* Regions are somewhere on their way; no depth drops below zero.
DmaTypeOK ==
  /\ ctx \in [Groups -> Ctx] /\ dev \in [Devices -> Dev] /\ op \in Op
  /\ slpt \in [Groups -> SUBSET Regions] /\ iotlb \in [Groups -> SUBSET Regions]
  /\ region \in [Regions -> Places] /\ ok \in [Regions -> BOOLEAN]
  /\ flight \subseteq Devices \X Regions

Translated(r) == \E g \in Groups : r \in iotlb[g] \/ (ctx[g].entry /\ r \in slpt[g])
UnderWay(r) == \E d \in Devices : <<d, r>> \in flight

\* The memory of a region is back in the allocator only when no device can reach it any more:
\* no translation, none cached, no write under way (DmaTeardownToken).
NoStrayWrite == \A r \in Regions : region[r] \in {"free", "new"} => ~Translated(r) /\ ~UnderWay(r)

\* A region whose device did not confirm never comes back, and its translation is gone all the
\* same (PENDING_DMA).
PendingIsolated == \A r \in Regions : region[r] \in {"pending", "leaked"} => ~Translated(r)

\* The teardown of one region does not silence the group: between operations a device that was
\* armed and answers is bus master (saved_cmd and quiesce_depth over nested teardowns).
StillServed == op = Idle => \A d \in Devices : dev[d].armed /\ ~dev[d].hung => dev[d].bme

\* What finalize lets back into the allocator has been taken out of the tables, or was never in
\* them ("keine Einheit -> es gab nie eine Übersetzung", system.rs:8476).
GoodVerdictUnmapped ==
  \A r \in Regions : region[r] = "judged" /\ ok[r] => \A g \in Groups : r \notin slpt[g]

\* Every attach is entered: tables and contexts have room, and the unit answers.
AttachComplete == ~MapFails /\ ~SyncFails /\ Cardinality(Regions) <= MAX_CTX_REGS

\* The memory of a region comes back only when no device reaches it, an unconfirmed region is cut
\* off all the same, and the teardown of one region leaves the others of its group served.  A
\* region that is detached beneath a device that hangs is the exception.
TeardownSound ==
  /\ AttachComplete => PendingIsolated
  /\ AttachComplete /\ (Detaching => MayHang = {}) => NoStrayWrite
  /\ StillServed
=============================================================================
