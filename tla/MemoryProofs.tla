----------------------------- MODULE MemoryProofs -----------------------------
(***************************************************************************)
(* DMA regions, for any set of devices, groups and regions: while devices  *)
(* write, hang and are held still, memory comes back to the allocator only *)
(* when no device reaches it (module DmaTeardown).  The stripes of cache   *)
(* colours, for any number of cores and stripes: STRIPES_TAKEN tells the   *)
(* truth (module Colors).                                                  *)
(***************************************************************************)
EXTENDS DmaTeardown, Colors, QueueProofs, FiniteSetTheorems

-----------------------------------------------------------------------------
(* The invariant.  OpKept, DepthsTrue and ArmedServed need no condition    *)
(* and give StillServed; TablesTrue needs every attach to be entered, and  *)
(* gives PendingIsolated; the last three also need that no region is       *)
(* detached beneath a device that may hang, and give NoStrayWrite.         *)

TearDown == op.k \in {"detach", "finalize"}
Marking == TearDown /\ op.at \in {"pick", "disarm", "flush"}
Unmapped == TearDown /\ op.at \in {"sync", "release", "clear", "free"}

\* The lock has one holder, and its operation is where its record says.
OpKept ==
  /\ op.k = "idle" => op = Idle
  /\ op.k = "attach" => /\ op.at \in {"full", "context", "arm", "sync"}
                        /\ op.d \in Devices /\ op.r \in Regions
  /\ TearDown => /\ op.at \in {"pick", "disarm", "flush", "sync", "release", "clear", "free"}
                 /\ op.todo \subseteq op.batch
  /\ \A p \in op.of : TearDown /\ p[1] \in op.batch
  /\ \A p, q \in op.of : p[1] = q[1] => p[2] = q[2]
  /\ Marking => \A p \in op.of : p[1] \notin op.todo
  /\ op.at \in {"disarm", "flush"} =>
       /\ op.r \in op.batch /\ op.r \notin op.todo
       /\ \E g \in Groups : <<op.r, g>> \in op.of /\ op.devs \subseteq SidsOf(g)
  /\ op.at \in {"clear", "free"} => op.r \in Groups
  /\ TearDown /\ op.at = "sync" => op.todo = {}

\* The regions of group g that the running teardown has found.
Held(g) == {r \in Regions : <<r, g>> \in op.of}

\* The region for which device d has still to be disarmed.
Left(d) == {r \in Regions : op.at = "disarm" /\ d \in op.devs /\ r = op.r}

\* quiesce_depth counts the regions for which the group is held still.
DepthsTrue ==
  /\ ~TearDown => \A d \in Devices : dev[d].depth = 0
  /\ Marking \/ (TearDown /\ op.at = "sync") =>
       /\ \A p \in op.of : ctx[p[2]].used
       /\ \A d \in Devices : dev[d].depth = Cardinality(Held(GroupOf[d]) \ Left(d))
  /\ op.at \in {"release", "clear", "free"} =>
       \A d \in Devices :
         dev[d].depth = IF ctx[GroupOf[d]].used THEN Cardinality(Held(GroupOf[d]) \cap op.todo) ELSE 0

\* A device that was armed and answers is bus master, or will be again: unless its context is
\* being removed.
ArmedServed ==
  \A d \in Devices : dev[d].armed /\ ~dev[d].hung =>
    \/ op.at \in {"clear", "free"} /\ GroupOf[d] = op.r
    \/ dev[d].depth = 0 /\ dev[d].bme
    \/ dev[d].depth > 0 /\ dev[d].saved

\* The tables translate what is entered, for one group each, and what is entered is held.
Entered ==
  /\ \A g \in Groups : slpt[g] = ctx[g].regs
  /\ \A g \in Groups : \A r \in ctx[g].regs : ctx[g].used /\ region[r] \in {"owned", "dying"}
  /\ \A g, h \in Groups : \A r \in ctx[g].regs \cap ctx[h].regs : g = h

\* The unit caches no more than the tables translate, until a teardown invalidates.
Cached ==
  \A g \in Groups : \A r \in iotlb[g] :
    r \in slpt[g] \/ (TearDown /\ op.at = "sync" /\ <<r, g>> \in op.of)

\* A teardown finds the group of every region of its batch, and takes it out.
Batched ==
  /\ op.k = "attach" => op.at # "full"
  /\ TearDown => \A r \in op.batch : region[r] = IF op.k = "detach" THEN "owned" ELSE "dying"
  /\ Marking => \A g \in Groups : \A r \in ctx[g].regs \cap op.batch :
                  r \in op.todo \/ <<r, g>> \in op.of
  /\ Unmapped => \A g \in Groups : ctx[g].regs \cap op.batch = {}
  /\ op.at \in {"clear", "free"} => ctx[op.r].regs = {}

TablesTrue == Entered /\ Cached /\ Batched

\* A device that is held still and answers is no bus master.
HeldStill == \A d \in Devices : dev[d].depth > 0 /\ ~dev[d].hung => ~dev[d].bme

\* Device d has not yet been asked about region r.
Unasked(d, r) == op.r = r /\ (op.at = "disarm" \/ (op.at = "flush" /\ d \in op.devs))

\* A verdict is about devices that cannot write: what is judged quiet stays quiet.
QuietTrue ==
  Marking \/ (TearDown /\ op.at = "sync") =>
    \A p \in op.of : ok[p[1]] =>
      \A d \in SidsOf(p[2]) : Unasked(d, p[1]) \/ (~dev[d].bme /\ <<d, p[1]>> \notin flight)

\* Only some devices hang, and a detach has no bad verdict where none does.
VerdictsTrue ==
  /\ \A d \in Devices : dev[d].hung => d \in MayHang
  /\ op.k = "detach" => Detaching /\ \A p \in op.of : ok[p[1]]
  /\ QuietTrue

\* A write under way goes where a translation is, or to a region that will not come back.
Bound(d, r) ==
  \/ r \in slpt[GroupOf[d]]
  \/ region[r] \in {"pending", "leaked"}
  \/ region[r] = "judged" /\ ~ok[r]
  \/ op.k = "finalize" /\ Unmapped /\ r \in op.batch /\ ~ok[r]

FlightsTrue == \A d \in Devices, r \in Regions : <<d, r>> \in flight => Bound(d, r)

-----------------------------------------------------------------------------
(* The operation that holds the lock, field by field.                      *)

Becomes(k, at, d, r, batch, todo, devs, of) ==
  /\ op' \in Op
  /\ op'.k = k /\ op'.at = at /\ op'.d = d /\ op'.r = r
  /\ op'.batch = batch /\ op'.todo = todo /\ op'.devs = devs /\ op'.of = of

IdleNow == Becomes("idle", None, None, None, {}, {}, {}, {}) /\ op' = Idle

\* The record of a free lock.
LEMMA IdleFields ==
  /\ Idle \in Op /\ Idle.k = "idle" /\ Idle.at = None /\ Idle.d = None /\ Idle.r = None
  /\ Idle.batch = {} /\ Idle.todo = {} /\ Idle.devs = {} /\ Idle.of = {}
BY DEF Idle, Op, None

\* The fields of the operation under way.
LEMMA OpFields ==
  ASSUME DmaTypeOK
  PROVE  /\ op.k \in {"idle", "attach", "detach", "finalize"}
         /\ op.at \in {None, "full", "context", "arm", "pick", "disarm", "flush", "sync",
                       "release", "clear", "free"}
         /\ op.d \in Devices \cup {None} /\ op.r \in Regions \cup Groups \cup {None}
         /\ op.batch \subseteq Regions /\ op.todo \subseteq Regions /\ op.devs \subseteq Devices
         /\ op.of \subseteq Regions \X Groups
BY DEF DmaTypeOK, Op

\* The lock is given back.
LEMMA IdleDoes ==
  ASSUME op' = Idle
  PROVE  IdleNow
BY IdleFields DEF IdleNow, Becomes

\* attach takes the lock, or fails at once.
LEMMA AttachDoes ==
  ASSUME DmaAssumption, DmaTypeOK, NEW d \in Devices, NEW r \in Regions, attach(d, r)
  PROVE  LET g == GroupOf[d] IN
         /\ g \in Groups
         /\ op = Idle /\ region[r] = "new" /\ region' = [region EXCEPT ![r] = "owned"]
         /\ slpt' = [slpt EXCEPT ![g] = @ \cup {r}]
         /\ UNCHANGED <<iotlb, dev, flight, ok>>
         /\ \/ /\ Room(g)
               /\ ctx' = [ctx EXCEPT ![g].used = TRUE, ![g].regs = @ \cup {r}]
               /\ \E a \in {"arm", "context"} : Becomes("attach", a, d, r, {}, {}, {}, {})
            \/ /\ ~Room(g) /\ ctx' = ctx
               /\ Becomes("attach", "full", d, r, {}, {}, {}, {})
            \/ MapFails /\ ctx' = ctx /\ op' = op /\ IdleNow
<1> DEFINE g == GroupOf[d]
           i == Idle
<1>1. g \in Groups
  BY DEF DmaAssumption
<1>2. /\ i \in Op /\ i.k = "idle" /\ i.at = None /\ i.d = None /\ i.r = None
      /\ i.batch = {} /\ i.todo = {} /\ i.devs = {} /\ i.of = {}
  BY IdleFields
<1>3. \/ /\ Room(g)
         /\ ctx' = [ctx EXCEPT ![g].used = TRUE, ![g].regs = @ \cup {r}]
         /\ op' = [i EXCEPT !.k = "attach", !.at = IF ctx[g].used THEN "arm" ELSE "context",
                            !.d = d, !.r = r]
      \/ /\ ~Room(g)
         /\ op' = [i EXCEPT !.k = "attach", !.at = "full", !.d = d, !.r = r]
         /\ UNCHANGED ctx
      \/ /\ MapFails /\ ctx[g].used
         /\ UNCHANGED <<ctx, op>>
  BY DEF attach
<1>4. op = i
  BY DEF attach
<1> HIDE DEF i
<1>5. CASE /\ Room(g)
           /\ ctx' = [ctx EXCEPT ![g].used = TRUE, ![g].regs = @ \cup {r}]
           /\ op' = [i EXCEPT !.k = "attach", !.at = IF ctx[g].used THEN "arm" ELSE "context",
                              !.d = d, !.r = r]
  <2>1. PICK a \in {"arm", "context"} :
          op' = [i EXCEPT !.k = "attach", !.at = a, !.d = d, !.r = r]
    BY <1>5
  <2>2. Becomes("attach", a, d, r, {}, {}, {}, {})
    BY <1>2, <2>1 DEF Becomes, Op
  <2> QED BY <1>1, <1>5, <2>2 DEF attach
<1>6. CASE /\ ~Room(g) /\ UNCHANGED ctx
           /\ op' = [i EXCEPT !.k = "attach", !.at = "full", !.d = d, !.r = r]
  <2>1. Becomes("attach", "full", d, r, {}, {}, {}, {})
    BY <1>2, <1>6 DEF Becomes, Op
  <2> QED BY <1>1, <1>6, <2>1 DEF attach
<1>7. CASE MapFails /\ UNCHANGED <<ctx, op>>
  BY <1>1, <1>2, <1>4, <1>7 DEF attach, IdleNow, Becomes, i
<1> QED BY <1>3, <1>5, <1>6, <1>7

\* The operation goes on at another place, and nothing else of it changes.
LEMMA GotoDoes ==
  ASSUME DmaTypeOK,
         NEW a \in {"arm", "sync", "pick", "free", "release"}, Goto(a)
  PROVE  Becomes(op.k, a, op.d, op.r, op.batch, op.todo, op.devs, op.of)
BY DEF DmaTypeOK, Goto, Becomes, Op

\* detach takes the lock with a batch of one region.
LEMMA BatchDoes ==
  ASSUME DmaTypeOK, NEW r \in Regions, detach(r)
  PROVE  /\ op = Idle /\ Detaching /\ region[r] = "owned"
         /\ Becomes("detach", "pick", None, r, {r}, {r}, {}, {})
         /\ UNCHANGED <<ctx, slpt, iotlb, dev, flight, region, ok>>
<1> DEFINE i == Idle
           b == {r}
<1>1. /\ i \in Op /\ i.k = "idle" /\ i.at = None /\ i.d = None /\ i.r = None
      /\ i.batch = {} /\ i.todo = {} /\ i.devs = {} /\ i.of = {} /\ b \in SUBSET Regions
  BY IdleFields
<1>2. op' = [i EXCEPT !.k = "detach", !.at = "pick", !.r = r, !.batch = b, !.todo = b]
  BY DEF detach
<1> HIDE DEF i, b
<1>3. Becomes("detach", "pick", None, r, b, b, {}, {})
  BY <1>1, <1>2 DEF Becomes, Op
<1> QED BY <1>3 DEF detach, b

\* finalize takes it with the regions reported.
LEMMA FinalizeDoes ==
  ASSUME DmaTypeOK, NEW B \in SUBSET Regions, finalize(B)
  PROVE  /\ op = Idle /\ \A q \in B : region[q] = "dying"
         /\ Becomes("finalize", "pick", None, None, B, B, {}, {})
         /\ UNCHANGED <<ctx, slpt, iotlb, dev, flight, region, ok>>
<1> DEFINE i == Idle
<1>1. /\ i \in Op /\ i.k = "idle" /\ i.at = None /\ i.d = None /\ i.r = None
      /\ i.batch = {} /\ i.todo = {} /\ i.devs = {} /\ i.of = {}
  BY IdleFields
<1>2. op' = [i EXCEPT !.k = "finalize", !.at = "pick", !.batch = B, !.todo = B]
  BY DEF finalize
<1> HIDE DEF i
<1>3. Becomes("finalize", "pick", None, None, B, B, {}, {})
  BY <1>1, <1>2 DEF Becomes, Op
<1> QED BY <1>3 DEF finalize

\* Phase 1 looks at one region: it has no context, or its group is to be held still.
LEMMA FindDoes ==
  ASSUME DmaTypeOK, FindContext
  PROVE  /\ op.at = "pick" /\ UNCHANGED <<ctx, slpt, iotlb, dev, flight, region>>
         /\ \E r \in op.todo :
              /\ ok' = [ok EXCEPT ![r] = TRUE]
              /\ \/ /\ CtxOf(r) = {}
                    /\ Becomes(op.k, "pick", op.d, op.r, op.batch, op.todo \ {r}, op.devs, op.of)
                 \/ \E g \in Groups :
                      /\ ctx[g].used /\ r \in ctx[g].regs
                      /\ Becomes(op.k, "disarm", op.d, r, op.batch, op.todo \ {r}, SidsOf(g),
                                 op.of \cup {<<r, g>>})
<1>1. PICK r \in op.todo :
        IF CtxOf(r) = {}
        THEN /\ ok' = [ok EXCEPT ![r] = TRUE]
             /\ op' = [op EXCEPT !.todo = @ \ {r}]
        ELSE \E g \in CtxOf(r) :
             /\ ok' = [ok EXCEPT ![r] = TRUE]
             /\ op' = [op EXCEPT !.at = "disarm", !.r = r, !.todo = @ \ {r}, !.devs = SidsOf(g),
                                 !.of = @ \cup {<<r, g>>}]
  BY DEF FindContext
<1>2. r \in Regions /\ op \in Op /\ op.at = "pick"
  BY OpFields DEF DmaTypeOK, FindContext
<1>3. CASE CtxOf(r) = {}
  <2>1. Becomes(op.k, "pick", op.d, op.r, op.batch, op.todo \ {r}, op.devs, op.of)
    BY <1>1, <1>2, <1>3 DEF Becomes, Op
  <2> QED BY <1>1, <1>2, <1>3, <2>1 DEF FindContext
<1>4. CASE CtxOf(r) # {}
  <2>1. PICK g \in CtxOf(r) :
          /\ ok' = [ok EXCEPT ![r] = TRUE]
          /\ op' = [op EXCEPT !.at = "disarm", !.r = r, !.todo = @ \ {r}, !.devs = SidsOf(g),
                              !.of = @ \cup {<<r, g>>}]
    BY <1>1, <1>4
  <2>2. g \in Groups /\ ctx[g].used /\ r \in ctx[g].regs /\ SidsOf(g) \subseteq Devices
    BY DEF CtxOf, SidsOf
  <2> DEFINE S == SidsOf(g)
             p == <<r, g>>
  <2>3. p \in Regions \X Groups /\ S \in SUBSET Devices
    BY <1>2, <2>2
  <2> HIDE DEF S, p
  <2>4. op' = [op EXCEPT !.at = "disarm", !.r = r, !.todo = @ \ {r}, !.devs = S,
                         !.of = @ \cup {p}]
    BY <2>1 DEF S, p
  <2>5. Becomes(op.k, "disarm", op.d, r, op.batch, op.todo \ {r}, S, op.of \cup {p})
    BY <1>2, <2>3, <2>4 DEF Becomes, Op
  <2> QED BY <1>2, <2>1, <2>2, <2>5 DEF FindContext, S, p
<1> QED BY <1>3, <1>4

\* A device is disarmed; with the last one the flushing begins.
LEMMA DisarmDoes ==
  ASSUME DmaTypeOK, NEW d \in Devices, Disarm(d)
  PROVE  /\ op.at = "disarm" /\ d \in op.devs
         /\ UNCHANGED <<ctx, slpt, iotlb, flight, region, ok>>
         /\ dev' = [dev EXCEPT ![d].saved = IF dev[d].depth = 0 THEN dev[d].bme \/ dev[d].hung
                                            ELSE @,
                               ![d].bme = @ /\ (dev[d].depth > 0 \/ dev[d].hung),
                               ![d].depth = @ + 1]
         /\ \/ /\ op.devs = {d}
               /\ Becomes(op.k, "flush", op.d, op.r, op.batch, op.todo, SidsOf(GroupOf[d]), op.of)
            \/ Becomes(op.k, "disarm", op.d, op.r, op.batch, op.todo, op.devs \ {d}, op.of)
<1> DEFINE S == SidsOf(GroupOf[d])
<1>1. S \in SUBSET Devices /\ op \in Op
  BY DEF SidsOf, DmaTypeOK
<1>2. op.devs = {d} => op' = [op EXCEPT !.at = "flush", !.devs = S]
  BY DEF Disarm
<1>3. op.devs # {d} => op' = [op EXCEPT !.devs = @ \ {d}]
  BY DEF Disarm
<1>4. op.at = "disarm"
  BY DEF Disarm
<1> HIDE DEF S
<1>5. ASSUME op.devs = {d}
      PROVE  Becomes(op.k, "flush", op.d, op.r, op.batch, op.todo, S, op.of)
  <2>1. op' = [op EXCEPT !.at = "flush", !.devs = S]
    BY <1>2, <1>5
  <2> QED BY <1>1, <2>1 DEF Becomes, Op
<1>6. op.devs # {d} =>
        Becomes(op.k, "disarm", op.d, op.r, op.batch, op.todo, op.devs \ {d}, op.of)
  BY <1>1, <1>3, <1>4 DEF Becomes, Op
<1> QED BY <1>5, <1>6 DEF Disarm, S

\* A device is flushed.
LEMMA FlushDoes ==
  ASSUME DmaTypeOK, NEW d \in Devices, Flush(d)
  PROVE  /\ op.at = "flush" /\ d \in op.devs
         /\ UNCHANGED <<ctx, slpt, iotlb, dev, region>>
         /\ flight' = IF dev[d].hung THEN flight ELSE {w \in flight : w[1] # d}
         /\ ok' = [ok EXCEPT ![op.r] = @ /\ ~dev[d].hung /\ ~dev[d].bme]
         /\ \/ /\ op.devs = {d}
               /\ Becomes(op.k, "pick", op.d, op.r, op.batch, op.todo, {}, op.of)
            \/ /\ op.devs # {d}
               /\ Becomes(op.k, "flush", op.d, op.r, op.batch, op.todo, op.devs \ {d}, op.of)
<1>1. PICK a \in {"pick", "flush"} : /\ a = IF op.devs = {d} THEN "pick" ELSE op.at
                                    /\ op.at = "flush" /\ op \in Op
  BY DEF Flush, DmaTypeOK
<1>2. op' = [op EXCEPT !.devs = @ \ {d}, !.at = a]
  BY <1>1 DEF Flush
<1>3. Becomes(op.k, a, op.d, op.r, op.batch, op.todo, op.devs \ {d}, op.of)
  BY <1>1, <1>2 DEF Becomes, Op
<1>4. op.devs = {d} => op.devs \ {d} = {}
  OBVIOUS
<1> QED BY <1>1, <1>3, <1>4 DEF Flush

\* The invalidation ends phase 3.
LEMMA SyncDoes ==
  ASSUME DmaTypeOK, Sync
  PROVE  Becomes(op.k, "release", op.d, op.r, op.batch, op.batch, op.devs, op.of)
BY DEF Sync, DmaTypeOK, Becomes, Op

\* ctx_release of a group: the depth sinks, and at the bottom the command comes back.
Wake(g) ==
  dev' = [d \in Devices |->
            IF d \in SidsOf(g) /\ dev[d].depth > 0
            THEN [dev[d] EXCEPT !.depth = @ - 1,
                    !.bme = IF dev[d].depth = 1 /\ ~dev[d].hung
                            THEN dev[d].saved /\ ctx[g].regs # {} ELSE @]
            ELSE dev[d]]

\* A region is released; its group is woken, or its context is to be removed.
LEMMA ReleaseDoes ==
  ASSUME DmaTypeOK, NEW r \in Regions, Release(r)
  PROVE  /\ op.at = "release" /\ r \in op.todo
         /\ UNCHANGED <<ctx, slpt, iotlb, flight, region, ok>>
         /\ \/ /\ \A g \in Groups : <<r, g>> \notin op.of \/ ~ctx[g].used
               /\ dev' = dev
               /\ Becomes(op.k, "release", op.d, op.r, op.batch, op.todo \ {r}, op.devs, op.of)
            \/ \E g \in Groups :
                 /\ <<r, g>> \in op.of /\ ctx[g].used
                 /\ Wake(g)
                 /\ \/ /\ ctx[g].regs # {}
                       /\ Becomes(op.k, "release", op.d, op.r, op.batch, op.todo \ {r}, op.devs,
                                  op.of)
                    \/ /\ ctx[g].regs = {}
                       /\ Becomes(op.k, "clear", op.d, g, op.batch, op.todo \ {r}, op.devs, op.of)
<1>0. op.at = "release" /\ op \in Op
  BY DEF Release, DmaTypeOK
<1>1. ASSUME op' = [op EXCEPT !.todo = @ \ {r}]
      PROVE  Becomes(op.k, "release", op.d, op.r, op.batch, op.todo \ {r}, op.devs, op.of)
  BY <1>0, <1>1 DEF Becomes, Op
<1>2. ASSUME NEW g \in Groups, op' = [op EXCEPT !.todo = @ \ {r}, !.at = "clear", !.r = g]
      PROVE  Becomes(op.k, "clear", op.d, g, op.batch, op.todo \ {r}, op.devs, op.of)
  BY <1>0, <1>2 DEF Becomes, Op
<1>3. CASE /\ \A g \in Groups : <<r, g>> \notin op.of \/ ~ctx[g].used
           /\ op' = [op EXCEPT !.todo = @ \ {r}]
           /\ UNCHANGED dev
  BY <1>1, <1>3 DEF Release
<1>4. ASSUME NEW g \in Groups, <<r, g>> \in op.of, ctx[g].used,
             Wake(g),
             op' = IF ctx[g].regs # {} THEN [op EXCEPT !.todo = @ \ {r}]
                   ELSE [op EXCEPT !.todo = @ \ {r}, !.at = "clear", !.r = g]
      PROVE  \/ /\ ctx[g].regs # {}
                /\ Becomes(op.k, "release", op.d, op.r, op.batch, op.todo \ {r}, op.devs, op.of)
             \/ /\ ctx[g].regs = {}
                /\ Becomes(op.k, "clear", op.d, g, op.batch, op.todo \ {r}, op.devs, op.of)
  BY <1>1, <1>2, <1>4
<1>5. op.at = "release" /\ r \in op.todo /\ UNCHANGED <<ctx, slpt, iotlb, flight, region, ok>>
  BY DEF Release
<1> QED BY <1>3, <1>4, <1>5 DEF Release, Wake

-----------------------------------------------------------------------------
(* The devices, field by field.                                            *)

DevsKept(S) == dev' \in [Devices -> Dev] /\ \A x \in Devices \ S : dev'[x] = dev[x]

\* A device stops answering.
LEMMA HangDoes ==
  ASSUME DmaTypeOK, NEW d \in Devices, Hang(d)
  PROVE  /\ DevsKept({d}) /\ d \in MayHang
         /\ dev'[d].bme = dev[d].bme /\ dev'[d].saved = dev[d].saved /\ dev'[d].hung
         /\ dev'[d].depth = dev[d].depth /\ dev'[d].armed = dev[d].armed
BY DEF DmaTypeOK, Hang, DevsKept, Dev

\* attach arms its device, or notes the intention.
LEMMA ArmDoes ==
  ASSUME DmaTypeOK, NEW d \in Devices, op.d = d, AttachArm
  PROVE  /\ DevsKept({d})
         /\ dev'[d].bme <=> dev[d].bme \/ (dev[d].depth = 0 /\ ~dev[d].hung)
         /\ dev'[d].saved <=> dev[d].saved \/ dev[d].depth > 0
         /\ dev'[d].hung = dev[d].hung /\ dev'[d].depth = dev[d].depth /\ dev'[d].armed
<1>1. PICK b \in BOOLEAN, v \in BOOLEAN :
        /\ b <=> dev[d].bme \/ (dev[d].depth = 0 /\ ~dev[d].hung)
        /\ v <=> dev[d].saved \/ dev[d].depth > 0
  OBVIOUS
<1>2. dev' = [dev EXCEPT ![d].armed = TRUE,
                         ![d].saved = @ \/ dev[d].depth > 0,
                         ![d].bme = @ \/ (dev[d].depth = 0 /\ ~dev[d].hung)]
  BY DEF AttachArm
<1> DEFINE e == [dev[d] EXCEPT !.armed = TRUE, !.saved = v, !.bme = b]
<1>3. /\ e \in Dev /\ e.bme = b /\ e.saved = v /\ e.armed = TRUE
      /\ e.hung = dev[d].hung /\ e.depth = dev[d].depth
  BY DEF DmaTypeOK, Dev
<1>4. dev' = [dev EXCEPT ![d] = e]
  BY <1>1, <1>2
<1> HIDE DEF e
<1>5. dev'[d] = e /\ DevsKept({d})
  BY <1>3, <1>4 DEF DmaTypeOK, DevsKept
<1> QED BY <1>1, <1>3, <1>5

\* ctx_quiesce disarms one device.
LEMMA DisarmDevs ==
  ASSUME DmaTypeOK, NEW d \in Devices, Disarm(d)
  PROVE  /\ DevsKept({d})
         /\ dev'[d].bme <=> dev[d].bme /\ (dev[d].depth > 0 \/ dev[d].hung)
         /\ dev'[d].saved <=> (IF dev[d].depth = 0 THEN dev[d].bme \/ dev[d].hung
                               ELSE dev[d].saved)
         /\ dev'[d].hung = dev[d].hung /\ dev'[d].depth = dev[d].depth + 1
         /\ dev'[d].armed = dev[d].armed
<1>0. dev[d] \in Dev /\ dev[d].depth \in Nat
  BY DEF DmaTypeOK, Dev
<1>1. PICK b \in BOOLEAN, v \in BOOLEAN :
        /\ b <=> dev[d].bme /\ (dev[d].depth > 0 \/ dev[d].hung)
        /\ v = (IF dev[d].depth = 0 THEN dev[d].bme \/ dev[d].hung ELSE dev[d].saved)
  BY <1>0 DEF Dev
<1>2. PICK n \in Nat : n = dev[d].depth + 1
  BY <1>0
<1>3. dev' = [dev EXCEPT ![d].saved = IF dev[d].depth = 0 THEN dev[d].bme \/ dev[d].hung ELSE @,
                         ![d].bme = @ /\ (dev[d].depth > 0 \/ dev[d].hung),
                         ![d].depth = @ + 1]
  BY DEF Disarm
<1> DEFINE e == [dev[d] EXCEPT !.saved = v, !.bme = b, !.depth = n]
<1>4. /\ e \in Dev /\ e.bme = b /\ e.saved = v /\ e.depth = n
      /\ e.hung = dev[d].hung /\ e.armed = dev[d].armed
  BY <1>0 DEF Dev
<1>5. dev' = [dev EXCEPT ![d] = e]
  BY <1>1, <1>2, <1>3
<1> HIDE DEF e
<1>6. dev'[d] = e /\ DevsKept({d})
  BY <1>4, <1>5 DEF DmaTypeOK, DevsKept
<1> QED BY <1>1, <1>2, <1>4, <1>6

\* ctx_release of a group.
LEMMA WakeDevs ==
  ASSUME DmaTypeOK, NEW g \in Groups,
         Wake(g)
  PROVE  /\ DevsKept(SidsOf(g))
         /\ \A d \in Devices :
              /\ dev'[d].hung = dev[d].hung /\ dev'[d].armed = dev[d].armed
              /\ dev'[d].saved = dev[d].saved
              /\ d \in SidsOf(g) =>
                   dev'[d].depth = IF dev[d].depth > 0 THEN dev[d].depth - 1 ELSE 0
              /\ d \in SidsOf(g) /\ dev[d].depth = 1 /\ ~dev[d].hung =>
                   (dev'[d].bme <=> dev[d].saved /\ ctx[g].regs # {})
              /\ ~(d \in SidsOf(g) /\ dev[d].depth = 1 /\ ~dev[d].hung) => dev'[d].bme = dev[d].bme
<1>1. ASSUME NEW d \in Devices
      PROVE  /\ dev'[d] \in Dev
             /\ d \notin SidsOf(g) => dev'[d] = dev[d]
             /\ dev'[d].hung = dev[d].hung /\ dev'[d].armed = dev[d].armed
             /\ dev'[d].saved = dev[d].saved
             /\ d \in SidsOf(g) =>
                  dev'[d].depth = IF dev[d].depth > 0 THEN dev[d].depth - 1 ELSE 0
             /\ d \in SidsOf(g) /\ dev[d].depth = 1 /\ ~dev[d].hung =>
                  (dev'[d].bme <=> dev[d].saved /\ ctx[g].regs # {})
             /\ ~(d \in SidsOf(g) /\ dev[d].depth = 1 /\ ~dev[d].hung) => dev'[d].bme = dev[d].bme
  <2>0. dev[d] \in Dev /\ dev[d].depth \in Nat
    BY DEF DmaTypeOK, Dev
  <2>1. CASE d \in SidsOf(g) /\ dev[d].depth > 0
    <3>1. PICK b \in BOOLEAN : b = (IF dev[d].depth = 1 /\ ~dev[d].hung
                                    THEN dev[d].saved /\ ctx[g].regs # {} ELSE dev[d].bme)
      BY <2>0 DEF Dev
    <3>0. dev[d].depth - 1 \in Nat
      BY <2>0, <2>1
    <3>2. PICK n \in Nat : n = dev[d].depth - 1
      BY <3>0
    <3> DEFINE e == [dev[d] EXCEPT !.depth = n, !.bme = b]
    <3>3. /\ e \in Dev /\ e.bme = b /\ e.saved = dev[d].saved /\ e.depth = n
          /\ e.hung = dev[d].hung /\ e.armed = dev[d].armed
      BY <2>0 DEF Dev
    <3>4. dev'[d] = e
      BY <2>1, <3>1, <3>2 DEF Wake
    <3> HIDE DEF e
    <3> QED BY <2>0, <2>1, <3>1, <3>2, <3>3, <3>4
  <2>2. CASE ~(d \in SidsOf(g) /\ dev[d].depth > 0)
    <3>1. dev'[d] = dev[d]
      BY <2>2 DEF Wake
    <3>2. d \in SidsOf(g) => dev[d].depth = 0
      BY <2>0, <2>2
    <3> QED BY <2>0, <3>1, <3>2
  <2> QED BY <2>1, <2>2
<1>2. dev' \in [Devices -> Dev]
  BY <1>1 DEF Wake
<1> QED BY <1>1, <1>2 DEF DevsKept

\* The removal of a context forgets what was known of its devices.
LEMMA FreeDevs ==
  ASSUME DmaTypeOK, FreeTables
  PROVE  /\ DevsKept(SidsOf(op.r))
         /\ \A d \in SidsOf(op.r) :
              /\ dev'[d].bme = dev[d].bme /\ dev'[d].hung = dev[d].hung
              /\ dev'[d].depth = 0 /\ ~dev'[d].armed
<1>1. ASSUME NEW d \in Devices
      PROVE  /\ dev'[d] \in Dev
             /\ d \notin SidsOf(op.r) => dev'[d] = dev[d]
             /\ d \in SidsOf(op.r) => /\ dev'[d].bme = dev[d].bme /\ dev'[d].hung = dev[d].hung
                                      /\ dev'[d].depth = 0 /\ ~dev'[d].armed
  <2>0. dev[d] \in Dev
    BY DEF DmaTypeOK
  <2>1. dev'[d] = IF d \in SidsOf(op.r)
                  THEN [dev[d] EXCEPT !.depth = 0, !.saved = FALSE, !.armed = FALSE]
                  ELSE dev[d]
    BY DEF FreeTables
  <2> DEFINE e == [dev[d] EXCEPT !.depth = 0, !.saved = FALSE, !.armed = FALSE]
  <2>2. /\ e \in Dev /\ e.bme = dev[d].bme /\ e.hung = dev[d].hung /\ e.depth = 0
        /\ e.armed = FALSE
    BY <2>0 DEF Dev
  <2>3. dev'[d] = IF d \in SidsOf(op.r) THEN e ELSE dev[d]
    BY <2>1
  <2> HIDE DEF e
  <2> QED BY <2>0, <2>2, <2>3
<1>2. dev' \in [Devices -> Dev]
  BY <1>1 DEF FreeTables
<1> QED BY <1>1, <1>2 DEF DevsKept, SidsOf

-----------------------------------------------------------------------------
(* The contexts, field by field.                                           *)

CtxsKept(S) == ctx' \in [Groups -> Ctx] /\ \A h \in Groups \ S : ctx'[h] = ctx[h]

\* attach enters a region.
LEMMA EnterDoes ==
  ASSUME DmaTypeOK, NEW g \in Groups, NEW r \in Regions,
         ctx' = [ctx EXCEPT ![g].used = TRUE, ![g].regs = @ \cup {r}]
  PROVE  /\ CtxsKept({g})
         /\ ctx'[g].used /\ ctx'[g].regs = ctx[g].regs \cup {r} /\ ctx'[g].entry = ctx[g].entry
<1> DEFINE c == [ctx[g] EXCEPT !.used = TRUE, !.regs = @ \cup {r}]
<1>0. ctx[g] \in Ctx
  BY DEF DmaTypeOK
<1>1. /\ c \in Ctx /\ c.used = TRUE /\ c.regs = ctx[g].regs \cup {r} /\ c.entry = ctx[g].entry
  BY <1>0 DEF Ctx
<1>2. ctx' = [ctx EXCEPT ![g] = c]
  OBVIOUS
<1> HIDE DEF c
<1>3. ctx'[g] = c /\ CtxsKept({g})
  BY <1>1, <1>2 DEF DmaTypeOK, CtxsKept
<1> QED BY <1>1, <1>3

\* context_set and its opposite.
LEMMA EntryDoes ==
  ASSUME DmaTypeOK, NEW g \in Groups, NEW b \in BOOLEAN, ctx' = [ctx EXCEPT ![g].entry = b]
  PROVE  /\ CtxsKept({g})
         /\ ctx'[g].used = ctx[g].used /\ ctx'[g].regs = ctx[g].regs
<1> DEFINE c == [ctx[g] EXCEPT !.entry = b]
<1>0. ctx[g] \in Ctx
  BY DEF DmaTypeOK
<1>1. c \in Ctx /\ c.used = ctx[g].used /\ c.regs = ctx[g].regs
  BY <1>0 DEF Ctx
<1>2. ctx' = [ctx EXCEPT ![g] = c]
  OBVIOUS
<1> HIDE DEF c
<1>3. ctx'[g] = c /\ CtxsKept({g})
  BY <1>1, <1>2 DEF DmaTypeOK, CtxsKept
<1> QED BY <1>1, <1>3

\* Phase 2 takes the batch out of tables and contexts.
LEMMA UnmapDoes ==
  ASSUME DmaTypeOK, Unmap
  PROVE  /\ op.at = "pick" /\ op.todo = {} /\ UNCHANGED <<iotlb, dev, flight, region, ok>>
         /\ Becomes(op.k, "sync", op.d, op.r, op.batch, op.todo, op.devs, op.of)
         /\ CtxsKept(Groups) /\ slpt' \in [Groups -> SUBSET Regions]
         /\ \A g \in Groups :
              /\ ctx'[g].used = ctx[g].used /\ ctx'[g].entry = ctx[g].entry
              /\ ctx'[g].regs = ctx[g].regs \ {r \in op.batch : <<r, g>> \in op.of}
              /\ slpt'[g] = slpt[g] \ {r \in op.batch : <<r, g>> \in op.of}
<1>1. op.at = "pick" /\ op.todo = {} /\ UNCHANGED <<iotlb, dev, flight, region, ok>>
  BY DEF Unmap
<1>2. Becomes(op.k, "sync", op.d, op.r, op.batch, op.todo, op.devs, op.of)
  BY GotoDoes DEF Unmap
<1>3. ASSUME NEW g \in Groups
      PROVE  /\ ctx'[g] \in Ctx
             /\ ctx'[g].used = ctx[g].used /\ ctx'[g].entry = ctx[g].entry
             /\ ctx'[g].regs = ctx[g].regs \ {r \in op.batch : <<r, g>> \in op.of}
  <2> DEFINE B == {r \in op.batch : <<r, g>> \in op.of}
  <2>1. ctx'[g] = [ctx[g] EXCEPT !.regs = @ \ B]
    BY DEF Unmap
  <2> HIDE DEF B
  <2>2. ctx[g] \in Ctx
    BY DEF DmaTypeOK
  <2>3. /\ ctx'[g] \in Ctx
        /\ ctx'[g].used = ctx[g].used /\ ctx'[g].entry = ctx[g].entry
        /\ ctx'[g].regs = ctx[g].regs \ B
    BY <2>1, <2>2 DEF Ctx
  <2> QED BY <2>3 DEF B
<1>4. ctx' \in [Groups -> Ctx]
  BY <1>3 DEF Unmap
<1>5. /\ slpt' \in [Groups -> SUBSET Regions]
      /\ \A g \in Groups : slpt'[g] = slpt[g] \ {r \in op.batch : <<r, g>> \in op.of}
  BY DEF Unmap, DmaTypeOK
<1> QED BY <1>1, <1>2, <1>3, <1>4, <1>5 DEF CtxsKept

\* The tables and the context of a group go.
LEMMA FreeDoes ==
  ASSUME DmaTypeOK, op.r \in Groups, FreeTables
  PROVE  /\ op.at = "free" /\ UNCHANGED <<flight, region, ok>> /\ Synced
         /\ Becomes(op.k, "release", op.d, op.r, op.batch, op.todo, op.devs, op.of)
         /\ CtxsKept({op.r}) /\ ~ctx'[op.r].used /\ ctx'[op.r].regs = {}
         /\ slpt' = [slpt EXCEPT ![op.r] = {}]
<1> DEFINE e == EMPTY
<1>1. e \in Ctx /\ e.used = FALSE /\ e.regs = {}
  BY DEF EMPTY, Ctx
<1>2. ctx' = [ctx EXCEPT ![op.r] = e]
  BY DEF FreeTables
<1> HIDE DEF e
<1>3. ctx'[op.r] = e /\ CtxsKept({op.r})
  BY <1>1, <1>2 DEF DmaTypeOK, CtxsKept
<1>4. Becomes(op.k, "release", op.d, op.r, op.batch, op.todo, op.devs, op.of)
  BY GotoDoes DEF FreeTables
<1> QED BY <1>1, <1>3, <1>4 DEF FreeTables

\* What the unit has cached stays a set of regions.
LEMMA SyncedType ==
  ASSUME DmaTypeOK, Synced
  PROVE  iotlb' \in [Groups -> SUBSET Regions]
BY DEF DmaTypeOK, Synced

-----------------------------------------------------------------------------
(* Types, and the place of the operation.                                  *)

Base == DmaAssumption /\ DmaTypeOK /\ OpKept

\* No device is in two groups.
LEMMA SidsApart ==
  ASSUME DmaAssumption, NEW g \in Groups, NEW d \in SidsOf(g)
  PROVE  d \in Devices /\ GroupOf[d] = g
BY DEF SidsOf

\* OpKept looks at the operation only.
LEMMA OpSame == ASSUME OpKept, op' = op PROVE OpKept'
BY DEF OpKept, TearDown, Marking, SidsOf

\* A free lock is where it says.
LEMMA OpIdle == ASSUME IdleNow PROVE OpKept'
BY DEF IdleNow, Becomes, OpKept, TearDown, Marking, None

\* The devices and the deletion of capabilities leave the operation alone.
LEMMA AloneBase ==
  ASSUME Base,
         \/ \E d \in Devices : Hang(d) \/ \E r \in Regions : Write(d, r)
         \/ \E w \in flight : Land(w)
         \/ \E r \in Regions : cap_delete(r) \/ dma_finalize(r) \/ alloc_dma_region(r)
         \/ \E B \in SUBSET Regions : finalize_silent(B)
         \/ UNCHANGED dmaVars
  PROVE  DmaTypeOK' /\ OpKept'
<1>0. DmaTypeOK /\ OpKept
  BY DEF Base
<1>1. ASSUME NEW d \in Devices, NEW r \in Regions, Write(d, r) PROVE DmaTypeOK' /\ OpKept'
  <2>0. GroupOf[d] \in Groups
    BY DEF Base, DmaAssumption
  <2>1. iotlb' \in [Groups -> SUBSET Regions] /\ flight' \subseteq Devices \X Regions
    BY <1>0, <1>1, <2>0 DEF DmaTypeOK, Write
  <2> QED BY <1>0, <1>1, <2>1, OpSame DEF DmaTypeOK, Write
<1>2. CASE \E w \in flight : Land(w)
  BY <1>0, <1>2, OpSame DEF DmaTypeOK, Land
<1>3. ASSUME NEW d \in Devices, Hang(d) PROVE DmaTypeOK' /\ OpKept'
  BY <1>0, <1>3, HangDoes, OpSame DEF DmaTypeOK, Hang, DevsKept
<1>4. ASSUME NEW r \in Regions, cap_delete(r) PROVE DmaTypeOK' /\ OpKept'
  BY <1>0, <1>4, OpSame DEF DmaTypeOK, cap_delete, Places
<1>5. ASSUME NEW r \in Regions, dma_finalize(r) PROVE DmaTypeOK' /\ OpKept'
  <2>1. PICK v \in {"free", "pending", "leaked"} : region' = [region EXCEPT ![r] = v]
    BY <1>5 DEF dma_finalize
  <2> QED BY <1>0, <1>5, <2>1, OpSame DEF DmaTypeOK, dma_finalize, Places
<1>6. ASSUME NEW r \in Regions, alloc_dma_region(r) PROVE DmaTypeOK' /\ OpKept'
  BY <1>0, <1>6, OpSame DEF DmaTypeOK, alloc_dma_region, Places
<1>7. CASE UNCHANGED dmaVars
  BY <1>0, <1>7, OpSame DEF DmaTypeOK, dmaVars
<1>8. ASSUME NEW B \in SUBSET Regions, finalize_silent(B) PROVE DmaTypeOK' /\ OpKept'
  <2>1. region' \in [Regions -> Places] /\ ok' \in [Regions -> BOOLEAN]
    BY <1>0, <1>8 DEF DmaTypeOK, finalize_silent, Places
  <2> QED BY <1>0, <1>8, <2>1, OpSame DEF DmaTypeOK, finalize_silent
<1> QED BY <1>1, <1>2, <1>3, <1>4, <1>5, <1>6, <1>7, <1>8

\* attach keeps the types and its place.
LEMMA AttachBase ==
  ASSUME Base, NEW d \in Devices, NEW r \in Regions, attach(d, r)
  PROVE  DmaTypeOK' /\ OpKept'
<1> DEFINE g == GroupOf[d]
<1>0. DmaTypeOK /\ OpKept /\ g \in Groups /\ DmaAssumption
  BY DEF Base, DmaAssumption
<1>1. /\ region' = [region EXCEPT ![r] = "owned"] /\ slpt' = [slpt EXCEPT ![g] = @ \cup {r}]
      /\ UNCHANGED <<iotlb, dev, flight, ok>>
      /\ \/ /\ ctx' = [ctx EXCEPT ![g].used = TRUE, ![g].regs = @ \cup {r}]
            /\ \E a \in {"arm", "context"} : Becomes("attach", a, d, r, {}, {}, {}, {})
         \/ ctx' = ctx /\ Becomes("attach", "full", d, r, {}, {}, {}, {})
         \/ ctx' = ctx /\ IdleNow
  BY <1>0, AttachDoes
<1> HIDE DEF g
<1>2. ctx' \in [Groups -> Ctx]
  BY <1>0, <1>1, EnterDoes DEF DmaTypeOK, CtxsKept
<1>3. region' \in [Regions -> Places] /\ slpt' \in [Groups -> SUBSET Regions]
  BY <1>0, <1>1 DEF DmaTypeOK, Places
<1>4. op' \in Op
  BY <1>1 DEF Becomes, IdleNow
<1>5. DmaTypeOK'
  BY <1>0, <1>1, <1>2, <1>3, <1>4 DEF DmaTypeOK
<1>6. ASSUME NEW a \in {"arm", "context", "full"}, Becomes("attach", a, d, r, {}, {}, {}, {})
      PROVE  OpKept'
  BY <1>6 DEF Becomes, OpKept, TearDown, Marking, None
<1> QED BY <1>1, <1>5, <1>6, OpIdle

\* So do the rest of attach, and the two operations that begin a teardown.
LEMMA BeginBase ==
  ASSUME Base,
         \/ AttachFull \/ AttachContext \/ AttachArm \/ AttachSync
         \/ (\E r \in Regions : detach(r)) \/ (\E B \in SUBSET Regions : finalize(B))
  PROVE  DmaTypeOK' /\ OpKept'
<1>0. DmaTypeOK /\ OpKept /\ DmaAssumption
  BY DEF Base
<1>a. op.k = "attach" => op.d \in Devices /\ op.r \in Regions /\ GroupOf[op.d] \in Groups
  BY <1>0 DEF OpKept, DmaAssumption
<1>b. ASSUME NEW x \in {"arm", "sync"}, op.k = "attach",
             Becomes(op.k, x, op.d, op.r, op.batch, op.todo, op.devs, op.of)
      PROVE  OpKept'
  <2>1. op.of = {}
    BY <1>0, <1>b DEF OpKept, TearDown
  <2> QED BY <1>0, <1>a, <1>b, <2>1 DEF OpKept, TearDown, Marking, Becomes, None
<1>1. CASE AttachFull
  <2>1. op.k = "attach" /\ op' = Idle /\ slpt' = [slpt EXCEPT ![GroupOf[op.d]] = @ \ {op.r}]
        /\ UNCHANGED <<ctx, iotlb, dev, flight, region, ok>>
    BY <1>1 DEF AttachFull, At
  <2>2. IdleNow
    BY <2>1, IdleDoes
  <2>3. slpt' \in [Groups -> SUBSET Regions] /\ op' \in Op
    BY <1>0, <1>a, <2>1, <2>2 DEF DmaTypeOK, IdleNow, Becomes
  <2> QED BY <1>0, <2>1, <2>2, <2>3, OpIdle DEF DmaTypeOK
<1>2. CASE AttachContext
  <2>1. op.k = "attach" /\ UNCHANGED <<slpt, iotlb, dev, flight, region, ok>>
    BY <1>2 DEF AttachContext, At
  <2>2. PICK b \in BOOLEAN : ctx' = [ctx EXCEPT ![GroupOf[op.d]].entry = b]
    BY <1>2 DEF AttachContext
  <2>3. ctx' \in [Groups -> Ctx]
    BY <1>0, <1>a, <2>1, <2>2, EntryDoes DEF CtxsKept
  <2>4. IdleNow \/ Becomes(op.k, "arm", op.d, op.r, op.batch, op.todo, op.devs, op.of)
    BY <1>0, <1>2, GotoDoes, IdleDoes DEF AttachContext
  <2>5. op' \in Op
    BY <2>4 DEF IdleNow, Becomes
  <2> QED BY <1>0, <1>b, <2>1, <2>3, <2>4, <2>5, OpIdle DEF DmaTypeOK
<1>3. CASE AttachArm
  <2>1. op.k = "attach" /\ UNCHANGED <<ctx, slpt, iotlb, flight, region, ok>> /\ Goto("sync")
    BY <1>3 DEF AttachArm, At
  <2>2. Becomes(op.k, "sync", op.d, op.r, op.batch, op.todo, op.devs, op.of)
    BY <1>0, <2>1, GotoDoes
  <2>3. dev' \in [Devices -> Dev]
    BY <1>0, <1>3, <1>a, <2>1, ArmDoes DEF DevsKept
  <2>4. op' \in Op
    BY <2>2 DEF Becomes
  <2> QED BY <1>0, <1>b, <2>1, <2>2, <2>3, <2>4 DEF DmaTypeOK
<1>4. CASE AttachSync
  <2>1. Synced /\ UNCHANGED <<ctx, slpt, dev, flight, region, ok>> /\ op' = Idle
    BY <1>4 DEF AttachSync
  <2>2. IdleNow /\ op' \in Op
    BY <2>1, IdleDoes DEF IdleNow, Becomes
  <2> QED BY <1>0, <2>1, <2>2, SyncedType, OpIdle DEF DmaTypeOK
<1>5. CASE (\E r \in Regions : detach(r)) \/ \E B \in SUBSET Regions : finalize(B)
  <2>1. /\ UNCHANGED <<ctx, slpt, iotlb, dev, flight, region, ok>>
        /\ \E k \in {"detach", "finalize"}, B \in SUBSET Regions, r \in Regions \cup {None} :
             Becomes(k, "pick", None, r, B, B, {}, {})
    <3>1. \A r \in Regions : {r} \in SUBSET Regions
      OBVIOUS
    <3> QED BY <1>0, <1>5, <3>1, BatchDoes, FinalizeDoes
  <2>2. op' \in Op
    BY <2>1 DEF Becomes
  <2>3. OpKept'
    BY <2>1 DEF Becomes, OpKept, TearDown, Marking, None
  <2> QED BY <1>0, <2>1, <2>2, <2>3 DEF DmaTypeOK
<1> QED BY <1>1, <1>2, <1>3, <1>4, <1>5

\* Phase 1 enters a region that it had still to look at: at most one group for each.
LEMMA FindBase ==
  ASSUME Base, FindContext
  PROVE  DmaTypeOK' /\ OpKept'
<1>0. DmaTypeOK /\ OpKept
  BY DEF Base
<1>1. PICK r \in op.todo :
        /\ ok' = [ok EXCEPT ![r] = TRUE]
        /\ \/ Becomes(op.k, "pick", op.d, op.r, op.batch, op.todo \ {r}, op.devs, op.of)
           \/ \E g \in Groups :
                Becomes(op.k, "disarm", op.d, r, op.batch, op.todo \ {r}, SidsOf(g),
                        op.of \cup {<<r, g>>})
  BY <1>0, FindDoes
<1>2. op.at = "pick" /\ UNCHANGED <<ctx, slpt, iotlb, dev, flight, region>>
  BY <1>0, FindDoes
<1>3. op' \in Op /\ r \in Regions
  BY <1>0, <1>1, OpFields DEF Becomes
<1>4. ok' \in [Regions -> BOOLEAN]
  BY <1>0, <1>1, <1>3 DEF DmaTypeOK
<1>5. DmaTypeOK'
  BY <1>0, <1>2, <1>3, <1>4 DEF DmaTypeOK
<1>6. /\ TearDown /\ op.todo \subseteq op.batch /\ op.of \subseteq Regions \X Groups
      /\ \A p \in op.of : p[1] \in op.batch /\ p[1] # r
  BY <1>0, <1>2, OpFields DEF OpKept, TearDown, Marking, None, Idle
<1>7. CASE Becomes(op.k, "pick", op.d, op.r, op.batch, op.todo \ {r}, op.devs, op.of)
  BY <1>0, <1>2, <1>5, <1>6, <1>7 DEF OpKept, TearDown, Marking, Becomes
<1>8. ASSUME NEW g \in Groups,
             Becomes(op.k, "disarm", op.d, r, op.batch, op.todo \ {r}, SidsOf(g),
                     op.of \cup {<<r, g>>})
      PROVE  OpKept'
  <2> DEFINE n == <<r, g>>
  <2>1. n[1] = r /\ n[2] = g
    OBVIOUS
  <2>2. /\ op'.k = op.k /\ op'.at = "disarm" /\ op'.r = r /\ op'.batch = op.batch
        /\ op'.todo = op.todo \ {r} /\ op'.devs = SidsOf(g) /\ op'.of = op.of \cup {n}
    BY <1>8 DEF Becomes
  <2> HIDE DEF n
  <2>3. \A p \in op'.of : p[1] \in op'.batch /\ p[1] \notin op'.todo
    BY <1>0, <1>2, <1>6, <2>1, <2>2 DEF OpKept, Marking
  <2>4. \A p, q \in op'.of : p[1] = q[1] => p[2] = q[2]
    BY <1>0, <1>6, <2>1, <2>2 DEF OpKept
  <2>5. <<r, g>> \in op'.of /\ SidsOf(g)' = SidsOf(g)
    BY <2>2 DEF n, SidsOf
  <2>6. TearDown'
    BY <1>6, <2>2 DEF TearDown
  <2> QED BY <1>6, <2>2, <2>3, <2>4, <2>5, <2>6 DEF OpKept, TearDown, Marking
<1> QED BY <1>1, <1>5, <1>7, <1>8

\* Holding still and flushing, device by device.
LEMMA StillBase ==
  ASSUME Base, NEW d \in Devices, Disarm(d) \/ Flush(d)
  PROVE  DmaTypeOK' /\ OpKept'
<1>0. DmaTypeOK /\ OpKept /\ DmaAssumption
  BY DEF Base
<1>1. op.at \in {"disarm", "flush"} /\ d \in op.devs
  BY <1>0, DisarmDoes, FlushDoes
<1>2. PICK g \in Groups : <<op.r, g>> \in op.of /\ op.devs \subseteq SidsOf(g)
  BY <1>0, <1>1 DEF OpKept
<1>3. TearDown /\ GroupOf[d] = g /\ op.r \in Regions
  BY <1>0, <1>1, <1>2, OpFields, SidsApart DEF OpKept, TearDown, None, Idle
<1>4. \E a \in {"disarm", "flush", "pick"}, S \in SUBSET SidsOf(g) :
        Becomes(op.k, a, op.d, op.r, op.batch, op.todo, S, op.of)
  <2>1. op.devs \ {d} \in SUBSET SidsOf(g) /\ {} \in SUBSET SidsOf(g)
    BY <1>2
  <2> QED BY <1>0, <1>3, <2>1, DisarmDoes, FlushDoes
<1>5. op' \in Op
  BY <1>4 DEF Becomes
<1>6. DmaTypeOK'
  <2>1. CASE Disarm(d)
    BY <1>0, <1>5, <2>1, DisarmDoes, DisarmDevs DEF DmaTypeOK, DevsKept
  <2>2. CASE Flush(d)
    <3>1. /\ flight' = IF dev[d].hung THEN flight ELSE {w \in flight : w[1] # d}
          /\ ok' = [ok EXCEPT ![op.r] = @ /\ ~dev[d].hung /\ ~dev[d].bme]
          /\ UNCHANGED <<ctx, slpt, iotlb, dev, region>>
      BY <1>0, <2>2, FlushDoes
    <3>2. flight' \subseteq Devices \X Regions
      BY <1>0, <3>1 DEF DmaTypeOK
    <3>3. PICK v \in BOOLEAN : v <=> ok[op.r] /\ ~dev[d].hung /\ ~dev[d].bme
      OBVIOUS
    <3>4. ok' = [ok EXCEPT ![op.r] = v]
      BY <1>0, <3>1, <3>3, <1>3 DEF DmaTypeOK
    <3>5. ok' \in [Regions -> BOOLEAN]
      BY <1>0, <3>4 DEF DmaTypeOK
    <3> QED BY <1>0, <1>5, <3>1, <3>2, <3>5 DEF DmaTypeOK
  <2> QED BY <2>1, <2>2
<1>7. OpKept'
  <2>1. PICK a \in {"disarm", "flush", "pick"}, S \in SUBSET SidsOf(g) :
          Becomes(op.k, a, op.d, op.r, op.batch, op.todo, S, op.of)
    BY <1>4
  <2>2. SidsOf(g)' = SidsOf(g)
    BY DEF SidsOf
  <2> QED BY <1>0, <1>1, <1>2, <1>3, <2>1, <2>2 DEF OpKept, TearDown, Marking, Becomes
<1> QED BY <1>6, <1>7

\* The later phases.
LEMMA LaterBase ==
  ASSUME Base,
         Unmap \/ Sync \/ (\E r \in Regions : Release(r)) \/ ClearEntries \/ FreeTables \/ Done
  PROVE  DmaTypeOK' /\ OpKept'
<1>0. DmaTypeOK /\ OpKept
  BY DEF Base
<1>1. CASE Unmap
  <2>1. /\ op.at = "pick" /\ op.todo = {} /\ UNCHANGED <<iotlb, dev, flight, region, ok>>
        /\ Becomes(op.k, "sync", op.d, op.r, op.batch, op.todo, op.devs, op.of)
        /\ CtxsKept(Groups) /\ slpt' \in [Groups -> SUBSET Regions]
    BY <1>0, <1>1, UnmapDoes
  <2>2. DmaTypeOK'
    BY <1>0, <2>1 DEF DmaTypeOK, CtxsKept, Becomes
  <2>3. TearDown
    BY <1>0, <2>1, OpFields DEF OpKept, TearDown, None, Idle
  <2> QED BY <1>0, <2>1, <2>2, <2>3 DEF OpKept, TearDown, Marking, Becomes
<1>2. CASE Sync
  <2>1. /\ TearDown /\ Synced /\ op.at = "sync" /\ UNCHANGED <<ctx, slpt, dev, flight, region, ok>>
        /\ Becomes(op.k, "release", op.d, op.r, op.batch, op.batch, op.devs, op.of)
    BY <1>0, <1>2, SyncDoes DEF Sync, TearDown
  <2>2. DmaTypeOK'
    BY <1>0, <2>1, SyncedType DEF DmaTypeOK, Becomes
  <2> QED BY <1>0, <2>1, <2>2 DEF OpKept, TearDown, Marking, Becomes
<1>3. ASSUME NEW r \in Regions, Release(r) PROVE DmaTypeOK' /\ OpKept'
  <2>0. /\ op.at = "release" /\ UNCHANGED <<ctx, slpt, iotlb, flight, region, ok>>
        /\ (dev' = dev \/ \E g \in Groups : Wake(g))
    BY <1>0, <1>3, ReleaseDoes
  <2>1. \/ Becomes(op.k, "release", op.d, op.r, op.batch, op.todo \ {r}, op.devs, op.of)
        \/ \E g \in Groups :
             Becomes(op.k, "clear", op.d, g, op.batch, op.todo \ {r}, op.devs, op.of)
    BY <1>0, <1>3, ReleaseDoes
  <2>2. dev' \in [Devices -> Dev]
    BY <1>0, <2>0, WakeDevs DEF DevsKept, DmaTypeOK
  <2>3. op' \in Op
    BY <2>1 DEF Becomes
  <2>4. DmaTypeOK'
    BY <1>0, <2>0, <2>2, <2>3 DEF DmaTypeOK
  <2>5. TearDown
    BY <1>0, <2>0, OpFields DEF OpKept, TearDown, None, Idle
  <2>6. CASE Becomes(op.k, "release", op.d, op.r, op.batch, op.todo \ {r}, op.devs, op.of)
    BY <1>0, <2>0, <2>4, <2>5, <2>6 DEF OpKept, TearDown, Marking, Becomes
  <2>7. ASSUME NEW g \in Groups,
               Becomes(op.k, "clear", op.d, g, op.batch, op.todo \ {r}, op.devs, op.of)
        PROVE  OpKept'
    BY <1>0, <2>0, <2>5, <2>7 DEF OpKept, TearDown, Marking, Becomes
  <2> QED BY <2>1, <2>4, <2>6, <2>7
<1>4. CASE ClearEntries
  <2>0. /\ op.at = "clear" /\ UNCHANGED <<slpt, iotlb, dev, flight, region, ok>>
        /\ ctx' = [ctx EXCEPT ![op.r].entry = FALSE]
    BY <1>4 DEF ClearEntries
  <2>1. op.r \in Groups
    BY <1>0, <2>0 DEF OpKept
  <2>2. ctx' \in [Groups -> Ctx]
    BY <1>0, <2>0, <2>1, EntryDoes DEF CtxsKept
  <2>3. Becomes(op.k, "free", op.d, op.r, op.batch, op.todo, op.devs, op.of)
    BY <1>0, <1>4, GotoDoes DEF ClearEntries
  <2>4. TearDown
    BY <1>0, <2>0, OpFields DEF OpKept, TearDown, None, Idle
  <2>5. DmaTypeOK'
    BY <1>0, <2>0, <2>2, <2>3 DEF DmaTypeOK, Becomes
  <2> QED BY <1>0, <2>0, <2>1, <2>3, <2>4, <2>5 DEF OpKept, TearDown, Marking, Becomes
<1>5. CASE FreeTables
  <2>0. op.at = "free"
    BY <1>5 DEF FreeTables
  <2>1. op.r \in Groups
    BY <1>0, <2>0 DEF OpKept
  <2>2. /\ UNCHANGED <<flight, region, ok>> /\ Synced /\ CtxsKept({op.r})
        /\ Becomes(op.k, "release", op.d, op.r, op.batch, op.todo, op.devs, op.of)
        /\ slpt' = [slpt EXCEPT ![op.r] = {}]
    BY <1>0, <1>5, <2>1, FreeDoes
  <2>3. dev' \in [Devices -> Dev]
    BY <1>0, <1>5, FreeDevs DEF DevsKept
  <2>4. slpt' \in [Groups -> SUBSET Regions]
    BY <1>0, <2>1, <2>2 DEF DmaTypeOK
  <2>5. DmaTypeOK'
    BY <1>0, <2>2, <2>3, <2>4, SyncedType DEF DmaTypeOK, CtxsKept, Becomes
  <2>6. TearDown
    BY <1>0, <2>0, OpFields DEF OpKept, TearDown, None, Idle
  <2> QED BY <1>0, <2>0, <2>2, <2>5, <2>6 DEF OpKept, TearDown, Marking, Becomes
<1>6. CASE Done
  <2>0. /\ UNCHANGED <<ctx, slpt, iotlb, dev, flight, ok>> /\ op' = Idle
        /\ region' = IF op.k = "detach" THEN region
                     ELSE [q \in Regions |-> IF q \in op.batch THEN "judged" ELSE region[q]]
    BY <1>6 DEF Done
  <2>1. IdleNow
    BY <2>0, IdleDoes
  <2>2. region' \in [Regions -> Places]
    BY <1>0, <2>0 DEF DmaTypeOK, Places
  <2>3. DmaTypeOK'
    BY <1>0, <2>0, <2>1, <2>2 DEF DmaTypeOK, IdleNow, Becomes
  <2> QED BY <2>1, <2>3, OpIdle
<1> QED BY <1>1, <1>2, <1>3, <1>4, <1>5, <1>6

\* Every step keeps the types and the place of the operation.
LEMMA NextBase ==
  ASSUME Base, [DmaNext]_dmaVars
  PROVE  Base'
<1>1. DmaTypeOK' /\ OpKept'
  BY AloneBase, AttachBase, BeginBase, FindBase, StillBase, LaterBase DEF DmaNext
<1> QED BY <1>1 DEF Base, DmaAssumption

-----------------------------------------------------------------------------
(* A device that was armed is served again.                                *)

Served == ArmedServed /\ HeldStill

\* Both look at the devices, and at the context that is being removed.
LEMMA ServedSame ==
  ASSUME Served, dev' = dev,
         op.at \in {"clear", "free"} => op'.at \in {"clear", "free"} /\ op'.r = op.r
  PROVE  Served'
BY DEF Served, ArmedServed, HeldStill

\* A step keeps what was promised to armed devices.
LEMMA NextServed ==
  ASSUME Base, Served, [DmaNext]_dmaVars
  PROVE  Served'
<1>0. DmaTypeOK /\ OpKept /\ DmaAssumption
  BY DEF Base
<1>d. ASSUME NEW d \in Devices
      PROVE  dev[d].depth \in Nat
  BY <1>0 DEF DmaTypeOK, Dev
<1>a. op.k = "attach" => op.at \notin {"clear", "free"} /\ op.d \in Devices
  BY <1>0 DEF OpKept
<1>i. op = Idle => op.at \notin {"clear", "free"}
  BY IdleFields DEF None
<1>1. ASSUME NEW d \in Devices, Hang(d) PROVE Served'
  <2>1. op' = op
    BY <1>1 DEF Hang
  <2> QED BY <1>0, <1>1, <2>1, HangDoes DEF Served, ArmedServed, HeldStill, DevsKept
<1>2. ASSUME NEW d \in Devices, Disarm(d) PROVE Served'
  <2>1. op.at = "disarm" /\ DevsKept({d})
    BY <1>0, <1>2, DisarmDoes, DisarmDevs
  <2>2. ASSUME NEW x \in Devices, x # d
        PROVE  dev'[x] = dev[x]
    BY <2>1, <2>2 DEF DevsKept
  <2>3. /\ dev'[d].armed /\ ~dev'[d].hung => dev'[d].depth > 0 /\ dev'[d].saved
        /\ dev'[d].depth > 0 /\ ~dev'[d].hung => ~dev'[d].bme
    <3>1. /\ dev'[d].bme <=> dev[d].bme /\ (dev[d].depth > 0 \/ dev[d].hung)
          /\ dev'[d].saved <=> (IF dev[d].depth = 0 THEN dev[d].bme \/ dev[d].hung
                                ELSE dev[d].saved)
          /\ dev'[d].hung = dev[d].hung /\ dev'[d].depth = dev[d].depth + 1
          /\ dev'[d].armed = dev[d].armed
      BY <1>0, <1>2, DisarmDevs
    <3> QED BY <1>d, <2>1, <3>1 DEF Served, ArmedServed, HeldStill
  <2> QED BY <1>d, <2>1, <2>2, <2>3 DEF Served, ArmedServed, HeldStill
<1>3. CASE AttachArm
  <2>1. PICK d \in Devices : d = op.d
    BY <1>a, <1>3 DEF AttachArm, At
  <2>2. op.at \notin {"clear", "free"}
    BY <1>a, <1>3 DEF AttachArm, At
  <2>3. /\ DevsKept({d})
        /\ dev'[d].bme <=> dev[d].bme \/ (dev[d].depth = 0 /\ ~dev[d].hung)
        /\ dev'[d].saved <=> dev[d].saved \/ dev[d].depth > 0
        /\ dev'[d].hung = dev[d].hung /\ dev'[d].depth = dev[d].depth /\ dev'[d].armed
    BY <1>0, <1>3, <2>1, ArmDoes
  <2>4. /\ ~dev'[d].hung => (dev'[d].depth = 0 /\ dev'[d].bme) \/ (dev'[d].depth > 0 /\ dev'[d].saved)
        /\ dev'[d].depth > 0 /\ ~dev'[d].hung => ~dev'[d].bme
    BY <1>d, <2>3 DEF Served, HeldStill
  <2>5. ASSUME NEW x \in Devices, x # d PROVE dev'[x] = dev[x]
    BY <2>3, <2>5 DEF DevsKept
  <2> QED BY <2>2, <2>4, <2>5 DEF Served, ArmedServed, HeldStill
<1>4. ASSUME NEW r \in Regions, Release(r) PROVE Served'
  <2>0. op.at = "release"
    BY <1>0, <1>4, ReleaseDoes
  <2>1. CASE dev' = dev
    BY <2>0, <2>1, ServedSame
  <2>2. ASSUME NEW g \in Groups, Wake(g),
               \/ ctx[g].regs # {}
               \/ op'.at = "clear" /\ op'.r = g
        PROVE  Served'
    <3>1. ASSUME NEW d \in Devices
          PROVE  /\ dev'[d].armed /\ ~dev'[d].hung =>
                      \/ op'.at \in {"clear", "free"} /\ GroupOf[d] = op'.r
                      \/ dev'[d].depth = 0 /\ dev'[d].bme
                      \/ dev'[d].depth > 0 /\ dev'[d].saved
                 /\ dev'[d].depth > 0 /\ ~dev'[d].hung => ~dev'[d].bme
      <4>1. CASE d \in SidsOf(g)
        <5>1. /\ dev'[d].hung = dev[d].hung /\ dev'[d].armed = dev[d].armed
              /\ dev'[d].saved = dev[d].saved
              /\ dev'[d].depth = IF dev[d].depth > 0 THEN dev[d].depth - 1 ELSE 0
              /\ dev[d].depth = 1 /\ ~dev[d].hung =>
                   (dev'[d].bme <=> dev[d].saved /\ ctx[g].regs # {})
              /\ ~(dev[d].depth = 1 /\ ~dev[d].hung) => dev'[d].bme = dev[d].bme
          BY <1>0, <2>2, <4>1, WakeDevs
        <5>2. GroupOf[d] = g
          BY <4>1 DEF SidsOf
        <5>3. /\ dev[d].armed /\ ~dev[d].hung => \/ dev[d].depth = 0 /\ dev[d].bme
                                                 \/ dev[d].depth > 0 /\ dev[d].saved
              /\ dev[d].depth > 0 /\ ~dev[d].hung => ~dev[d].bme
          BY <2>0 DEF Served, ArmedServed, HeldStill
        <5>4. CASE dev[d].depth = 0
          BY <5>1, <5>3, <5>4
        <5>5. CASE dev[d].depth = 1
          BY <2>2, <5>1, <5>2, <5>3, <5>5
        <5>6. CASE dev[d].depth > 1
          BY <1>d, <5>1, <5>3, <5>6
        <5> QED BY <1>d, <5>4, <5>5, <5>6
      <4>2. CASE d \notin SidsOf(g)
        <5>1. dev'[d] = dev[d]
          BY <1>0, <2>2, <4>2, WakeDevs DEF DevsKept
        <5> QED BY <2>0, <5>1 DEF Served, ArmedServed, HeldStill
      <4> QED BY <4>1, <4>2
    <3> QED BY <3>1 DEF Served, ArmedServed, HeldStill
  <2> QED BY <1>0, <1>4, <2>1, <2>2, ReleaseDoes DEF Becomes
<1>5. CASE FreeTables
  <2>1. op.at = "free" /\ op.r \in Groups
    BY <1>0, <1>5 DEF FreeTables, OpKept
  <2>2. /\ DevsKept(SidsOf(op.r))
        /\ \A d \in SidsOf(op.r) : dev'[d].depth = 0 /\ ~dev'[d].armed
    BY <1>0, <1>5, FreeDevs
  <2>3. ASSUME NEW d \in Devices, d \notin SidsOf(op.r)
        PROVE  dev'[d] = dev[d] /\ GroupOf[d] # op.r
    BY <2>2, <2>3 DEF DevsKept, SidsOf
  <2> QED BY <2>1, <2>2, <2>3 DEF Served, ArmedServed, HeldStill
<1>6. CASE ClearEntries
  <2>1. dev' = dev /\ Becomes(op.k, "free", op.d, op.r, op.batch, op.todo, op.devs, op.of)
    BY <1>0, <1>6, GotoDoes DEF ClearEntries
  <2> QED BY <2>1, ServedSame DEF Becomes
<1>7. ASSUME NEW d \in Devices, NEW r \in Regions, attach(d, r) \/ Write(d, r) PROVE Served'
  BY <1>i, <1>7, ServedSame DEF attach, Write
<1>8. CASE AttachFull \/ AttachContext \/ AttachSync
  BY <1>a, <1>8, ServedSame DEF AttachFull, AttachContext, AttachSync, At
<1>9. ASSUME NEW r \in Regions,
             cap_delete(r) \/ detach(r) \/ dma_finalize(r) \/ alloc_dma_region(r)
      PROVE  Served'
  BY <1>i, <1>9, ServedSame DEF cap_delete, detach, dma_finalize, alloc_dma_region
<1>10. CASE FindContext \/ Unmap \/ Sync \/ Done
  BY <1>10, ServedSame DEF FindContext, Unmap, Sync, Done
<1>11. ASSUME NEW d \in Devices, Flush(d) PROVE Served'
  BY <1>11, ServedSame DEF Flush
<1>12. ASSUME NEW B \in SUBSET Regions, finalize(B) \/ finalize_silent(B) PROVE Served'
  BY <1>i, <1>12, ServedSame DEF finalize, finalize_silent
<1>13. ASSUME NEW w \in flight, Land(w) PROVE Served'
  BY <1>13, ServedSame DEF Land
<1>14. CASE UNCHANGED dmaVars
  BY <1>14, ServedSame DEF dmaVars
<1> QED BY <1>1, <1>2, <1>3, <1>4, <1>5, <1>6, <1>7, <1>8, <1>9, <1>10, <1>11, <1>12, <1>13,
           <1>14 DEF DmaNext

-----------------------------------------------------------------------------
(* quiesce_depth counts.                                                   *)

\* Sets of regions have a size, which one region more or less changes by one.
LEMMA RegionsCount ==
  ASSUME DmaAssumption, NEW S \in SUBSET Regions
  PROVE  /\ Cardinality(S) \in Nat /\ Cardinality({}) = 0
         /\ \A r \in S : Cardinality(S) = Cardinality(S \ {r}) + 1
<1>1. IsFiniteSet(S)
  BY FS_Subset DEF DmaAssumption
<1>2. ASSUME NEW r \in S PROVE Cardinality(S) = Cardinality(S \ {r}) + 1
  <2>1. Cardinality(S \ {r}) = Cardinality(S) - 1 /\ Cardinality(S) \in Nat
    BY <1>1, FS_RemoveElement, FS_CardinalityType
  <2> QED BY <2>1
<1> QED BY <1>1, <1>2, FS_CardinalityType, FS_EmptySet

\* Outside of a teardown nobody is held still.
LEMMA DepthsIdle ==
  ASSUME ~TearDown', op'.at \notin {"release", "clear", "free"},
         \A d \in Devices : dev'[d].depth = 0
  PROVE  DepthsTrue'
BY DEF DepthsTrue, Marking

\* A step that leaves the operation, the depths and the contexts in use.
LEMMA DepthsSame ==
  ASSUME DepthsTrue, op' = op,
         \A d \in Devices : dev'[d].depth = dev[d].depth /\ GroupOf[d] \in Groups,
         \A g \in Groups : ctx'[g].used = ctx[g].used,
         op.of \subseteq Regions \X Groups
  PROVE  DepthsTrue'
<1>3. TearDown' <=> TearDown
  BY DEF TearDown
<1>4. Marking' <=> Marking
  BY DEF Marking, TearDown
<1>5. \A p \in op.of : p[2] \in Groups
  OBVIOUS
<1>6. ASSUME NEW d \in Devices
      PROVE  Held(GroupOf[d])' = Held(GroupOf[d]) /\ Left(d)' = Left(d)
  BY DEF Held, Left
<1>7. ~TearDown' => \A d \in Devices : dev'[d].depth = 0
  BY <1>3 DEF DepthsTrue
<1>8. ASSUME Marking' \/ (TearDown' /\ op'.at = "sync")
      PROVE  /\ \A p \in op'.of : ctx'[p[2]].used
             /\ \A d \in Devices : dev'[d].depth = Cardinality(Held(GroupOf[d])' \ Left(d)')
  BY <1>3, <1>4, <1>5, <1>6, <1>8 DEF DepthsTrue
<1>9. ASSUME op'.at \in {"release", "clear", "free"}, NEW d \in Devices
      PROVE  dev'[d].depth = IF ctx'[GroupOf[d]].used
                             THEN Cardinality(Held(GroupOf[d])' \cap op'.todo) ELSE 0
  BY <1>6, <1>9 DEF DepthsTrue
<1> QED BY <1>7, <1>8, <1>9 DEF DepthsTrue

\* A teardown in its first phase: one conjunct of DepthsTrue counts.
LEMMA DepthsMark ==
  ASSUME TearDown', op'.at \in {"pick", "disarm", "flush", "sync"},
         \A p \in op'.of : ctx'[p[2]].used,
         \A d \in Devices : dev'[d].depth = Cardinality(Held(GroupOf[d])' \ Left(d)')
  PROVE  DepthsTrue'
BY DEF DepthsTrue, Marking

\* A teardown in its last phase: another one does.
LEMMA DepthsLate ==
  ASSUME TearDown', op'.at \in {"release", "clear", "free"},
         \A d \in Devices : dev'[d].depth = IF ctx'[GroupOf[d]].used
                                            THEN Cardinality(Held(GroupOf[d])' \cap op'.todo)
                                            ELSE 0
  PROVE  DepthsTrue'
BY DEF DepthsTrue, Marking

\* Phase 1 finds the group of a region, and counts it for no device yet.
LEMMA FindDepths ==
  ASSUME Base, DepthsTrue, FindContext
  PROVE  DepthsTrue'
<1>0. DmaTypeOK /\ OpKept /\ DmaAssumption
  BY DEF Base
<1>1. op.at = "pick" /\ ctx' = ctx /\ dev' = dev
  BY <1>0, FindDoes
<1>2. TearDown /\ Marking
  BY <1>0, <1>1, OpFields DEF OpKept, TearDown, Marking, None, Idle
<1>3. /\ \A p \in op.of : ctx[p[2]].used
      /\ \A d \in Devices : dev[d].depth = Cardinality(Held(GroupOf[d]) \ Left(d))
  BY <1>2 DEF DepthsTrue
<1>4. \A d \in Devices : Left(d) = {}
  BY <1>1 DEF Left
<1>5. ASSUME NEW r \in op.todo,
             Becomes(op.k, "pick", op.d, op.r, op.batch, op.todo \ {r}, op.devs, op.of)
      PROVE  DepthsTrue'
  <2>1. op'.at = "pick" /\ op'.of = op.of /\ TearDown'
    BY <1>2, <1>5 DEF Becomes, TearDown
  <2>2. \A d \in Devices : Left(d)' = {} /\ Held(GroupOf[d])' = Held(GroupOf[d])
    BY <2>1 DEF Left, Held
  <2> QED BY <1>1, <1>3, <1>4, <2>1, <2>2, DepthsMark
<1>6. ASSUME NEW r \in op.todo, NEW g \in Groups, ctx[g].used,
             Becomes(op.k, "disarm", op.d, r, op.batch, op.todo \ {r}, SidsOf(g),
                     op.of \cup {<<r, g>>})
      PROVE  DepthsTrue'
  <2>1. /\ op'.at = "disarm" /\ op'.of = op.of \cup {<<r, g>>} /\ TearDown'
        /\ op'.devs = SidsOf(g) /\ op'.r = r /\ r \in Regions
    BY <1>0, <1>2, <1>6, OpFields DEF Becomes, TearDown
  <2>2. \A p \in op'.of : ctx'[p[2]].used
    BY <1>1, <1>3, <1>6, <2>1
  <2>3. \A p \in op.of : p[1] # r
    BY <1>0, <1>2 DEF OpKept
  <2>4. ASSUME NEW d \in Devices
        PROVE  Held(GroupOf[d])' \ Left(d)' = Held(GroupOf[d])
    <3>1. CASE GroupOf[d] = g
      <4>1. Left(d)' = {r}
        BY <2>1, <3>1 DEF Left, SidsOf
      <4>2. Held(g)' = Held(g) \cup {r}
        BY <2>1 DEF Held
      <4>3. r \notin Held(g)
        <5>1. <<r, g>> \notin op.of
          BY <2>3
        <5> QED BY <5>1 DEF Held
      <4> QED BY <3>1, <4>1, <4>2, <4>3
    <3>2. CASE GroupOf[d] # g
      <4>1. Left(d)' = {}
        BY <2>1, <3>2 DEF Left, SidsOf
      <4>2. Held(GroupOf[d])' = Held(GroupOf[d])
        BY <2>1, <3>2 DEF Held
      <4> QED BY <4>1, <4>2
    <3> QED BY <3>1, <3>2
  <2>5. \A d \in Devices : dev'[d].depth = Cardinality(Held(GroupOf[d])' \ Left(d)')
    BY <1>1, <1>3, <1>4, <2>4
  <2> QED BY <2>1, <2>2, <2>5, DepthsMark
<1> QED BY <1>0, <1>5, <1>6, FindDoes

\* Disarming counts the region for one device after the other; flushing counts nothing.
LEMMA StillDepths ==
  ASSUME Base, DepthsTrue, NEW d \in Devices, Disarm(d) \/ Flush(d)
  PROVE  DepthsTrue'
<1>0. DmaTypeOK /\ OpKept /\ DmaAssumption
  BY DEF Base
<1>1. op.at \in {"disarm", "flush"} /\ d \in op.devs /\ ctx' = ctx
  BY <1>0, DisarmDoes, FlushDoes
<1>2. TearDown /\ Marking
  BY <1>0, <1>1, OpFields DEF OpKept, TearDown, Marking, None, Idle
<1>3. /\ \A p \in op.of : ctx[p[2]].used
      /\ \A x \in Devices : dev[x].depth = Cardinality(Held(GroupOf[x]) \ Left(x))
  BY <1>2 DEF DepthsTrue
<1>4. PICK g \in Groups : <<op.r, g>> \in op.of /\ GroupOf[d] = g
  BY <1>0, <1>1, SidsApart DEF OpKept
<1>5. op.r \in Held(g) /\ op.r \in Regions
  BY <1>0, <1>4, OpFields DEF Held
<1>6. CASE Disarm(d)
  <2>1. /\ op'.k = op.k /\ op'.of = op.of /\ op'.r = op.r /\ op.at = "disarm"
        /\ \/ op.devs = {d} /\ op'.at = "flush"
           \/ op'.at = "disarm" /\ op'.devs = op.devs \ {d}
    BY <1>0, <1>6, DisarmDoes DEF Becomes
  <2>2. DevsKept({d}) /\ dev'[d].depth = dev[d].depth + 1
    BY <1>0, <1>6, DisarmDevs
  <2>3. \A h : Held(h)' = Held(h)
    BY <2>1 DEF Held
  <2>4. Left(d)' = {} /\ Left(d) = {op.r}
    BY <1>1, <1>5, <2>1 DEF Left
  <2>5. ASSUME NEW x \in Devices, x # d PROVE Left(x)' = Left(x)
    BY <2>1, <2>5 DEF Left
  <2>6. dev'[d].depth = Cardinality(Held(GroupOf[d])' \ Left(d)')
    <3>1. Held(g) \in SUBSET Regions
      BY DEF Held
    <3>2. Cardinality(Held(g)) = Cardinality(Held(g) \ {op.r}) + 1
      BY <1>0, <1>5, <3>1, RegionsCount
    <3>3. Held(g) \ {} = Held(g)
      OBVIOUS
    <3> QED BY <1>3, <1>4, <2>2, <2>3, <2>4, <3>2, <3>3
  <2>7. \A x \in Devices : dev'[x].depth = Cardinality(Held(GroupOf[x])' \ Left(x)')
    BY <1>3, <2>2, <2>3, <2>5, <2>6 DEF DevsKept
  <2> QED BY <1>1, <1>2, <1>3, <2>1, <2>7, DepthsMark DEF TearDown
<1>7. CASE Flush(d)
  <2>1. /\ op'.k = op.k /\ op'.of = op.of /\ op.at = "flush" /\ op'.at \in {"pick", "flush"}
        /\ dev' = dev
    BY <1>0, <1>7, FlushDoes DEF Becomes
  <2>2. \A x \in Devices : Left(x)' = Left(x) /\ Held(GroupOf[x])' = Held(GroupOf[x])
    BY <2>1 DEF Left, Held
  <2> QED BY <1>1, <1>2, <1>3, <2>1, <2>2, DepthsMark DEF TearDown
<1> QED BY <1>6, <1>7

\* Unmapping and invalidating count nothing; from here on the regions left to release count.
LEMMA SyncDepths ==
  ASSUME Base, DepthsTrue, Unmap \/ Sync
  PROVE  DepthsTrue'
<1>0. DmaTypeOK /\ OpKept /\ DmaAssumption
  BY DEF Base
<1>1. op.at \in {"pick", "sync"}
  BY DEF Unmap, Sync
<1>2. TearDown /\ (Marking \/ op.at = "sync")
  BY <1>0, <1>1, OpFields DEF Unmap, Sync, OpKept, TearDown, Marking, None, Idle
<1>3. /\ \A p \in op.of : ctx[p[2]].used
      /\ \A d \in Devices : dev[d].depth = Cardinality(Held(GroupOf[d]) \ Left(d))
  BY <1>2 DEF DepthsTrue
<1>4. \A d \in Devices : Left(d) = {}
  BY <1>1 DEF Left
<1>5. CASE Unmap
  <2>1. op'.k = op.k /\ op'.at = "sync" /\ op'.of = op.of /\ dev' = dev
    BY <1>0, <1>5, UnmapDoes DEF Becomes
  <2>2. \A g \in Groups : ctx'[g].used = ctx[g].used
    BY <1>0, <1>5, UnmapDoes
  <2>3. \A d \in Devices : Left(d)' = {} /\ Held(GroupOf[d])' = Held(GroupOf[d])
    BY <2>1 DEF Left, Held
  <2>4. \A p \in op.of : p[2] \in Groups
    BY <1>0, OpFields
  <2> QED BY <1>2, <1>3, <1>4, <2>1, <2>2, <2>3, <2>4, DepthsMark DEF TearDown
<1>6. CASE Sync
  <2>1. /\ op'.k = op.k /\ op'.at = "release" /\ op'.of = op.of /\ op'.todo = op.batch
        /\ dev' = dev /\ ctx' = ctx
    BY <1>0, <1>6, SyncDoes DEF Becomes, Sync
  <2>2. ASSUME NEW d \in Devices
        PROVE  dev'[d].depth = IF ctx'[GroupOf[d]].used
                               THEN Cardinality(Held(GroupOf[d])' \cap op'.todo) ELSE 0
    <3>1. Held(GroupOf[d])' = Held(GroupOf[d])
      BY <2>1 DEF Held
    <3>2. Held(GroupOf[d]) \cap op.batch = Held(GroupOf[d])
      BY <1>0 DEF Held, OpKept
    <3>3. ~ctx[GroupOf[d]].used => Held(GroupOf[d]) = {}
      BY <1>3 DEF Held
    <3>4. Cardinality({}) = 0
      BY FS_EmptySet
    <3>5. Held(GroupOf[d]) \ {} = Held(GroupOf[d])
      OBVIOUS
    <3> QED BY <1>3, <1>4, <2>1, <3>1, <3>2, <3>3, <3>4, <3>5
  <2>3. TearDown'
    BY <1>2, <2>1 DEF TearDown
  <2> QED BY <2>1, <2>2, <2>3, DepthsLate
<1> QED BY <1>5, <1>6

\* Releasing a region lowers the depths of its group by one, and the last one ends the count.
LEMMA ReleaseDepths ==
  ASSUME Base, DepthsTrue, NEW r \in Regions, Release(r)
  PROVE  DepthsTrue'
<1>0. DmaTypeOK /\ OpKept /\ DmaAssumption
  BY DEF Base
<1>1. op.at = "release" /\ r \in op.todo /\ ctx' = ctx
  BY <1>0, ReleaseDoes
<1>2. TearDown
  BY <1>0, <1>1, OpFields DEF OpKept, TearDown, None, Idle
<1>3. \A d \in Devices :
        dev[d].depth = IF ctx[GroupOf[d]].used THEN Cardinality(Held(GroupOf[d]) \cap op.todo)
                       ELSE 0
  BY <1>1 DEF DepthsTrue
<1>4. /\ op'.k = op.k /\ op'.at \in {"release", "clear"} /\ op'.of = op.of
      /\ op'.todo = op.todo \ {r}
  BY <1>0, ReleaseDoes DEF Becomes
<1>5. \A d \in Devices : Held(GroupOf[d])' = Held(GroupOf[d])
  BY <1>4 DEF Held
<1>6. TearDown'
  BY <1>2, <1>4 DEF TearDown
<1>7. ASSUME NEW d \in Devices, ctx[GroupOf[d]].used => r \notin Held(GroupOf[d]),
             dev'[d] = dev[d]
      PROVE  dev'[d].depth = IF ctx'[GroupOf[d]].used
                             THEN Cardinality(Held(GroupOf[d])' \cap op'.todo) ELSE 0
  <2>1. r \notin Held(GroupOf[d]) =>
          Held(GroupOf[d]) \cap (op.todo \ {r}) = Held(GroupOf[d]) \cap op.todo
    OBVIOUS
  <2> QED BY <1>1, <1>3, <1>4, <1>5, <1>7, <2>1
<1>8. CASE /\ \A g \in Groups : <<r, g>> \notin op.of \/ ~ctx[g].used
           /\ dev' = dev
  <2>1. ASSUME NEW d \in Devices
        PROVE  ctx[GroupOf[d]].used => r \notin Held(GroupOf[d])
    BY <1>0, <1>8 DEF Held, DmaAssumption
  <2> QED BY <1>4, <1>6, <1>7, <1>8, <2>1, DepthsLate
<1>9. ASSUME NEW g \in Groups, <<r, g>> \in op.of, ctx[g].used, Wake(g)
      PROVE  DepthsTrue'
  <2>1. ASSUME NEW d \in Devices, GroupOf[d] # g
        PROVE  r \notin Held(GroupOf[d]) /\ dev'[d] = dev[d]
    <3>1. dev'[d] = dev[d]
      BY <1>0, <1>9, <2>1, WakeDevs DEF DevsKept, SidsOf
    <3>2. <<r, GroupOf[d]>> \notin op.of
      BY <1>0, <1>9, <2>1 DEF OpKept
    <3> QED BY <3>1, <3>2 DEF Held
  <2>2. ASSUME NEW d \in Devices, GroupOf[d] = g
        PROVE  dev'[d].depth = IF ctx'[GroupOf[d]].used
                               THEN Cardinality(Held(GroupOf[d])' \cap op'.todo) ELSE 0
    <3> DEFINE S == Held(g) \cap op.todo
    <3>1. S \in SUBSET Regions /\ r \in S
      BY <1>1, <1>9 DEF Held
    <3>2. Cardinality(S) = Cardinality(S \ {r}) + 1 /\ Cardinality(S \ {r}) \in Nat
      BY <1>0, <3>1, RegionsCount
    <3>3. S \ {r} = Held(g) \cap (op.todo \ {r})
      OBVIOUS
    <3>4. dev[d].depth = Cardinality(S)
      BY <1>3, <1>9, <2>2
    <3>5. dev'[d].depth = IF dev[d].depth > 0 THEN dev[d].depth - 1 ELSE 0
      BY <1>0, <1>9, <2>2, WakeDevs DEF SidsOf
    <3>6. dev'[d].depth = Cardinality(S \ {r})
      BY <3>2, <3>4, <3>5
    <3> QED BY <1>1, <1>4, <1>5, <1>9, <2>2, <3>3, <3>6
  <2>3. \A d \in Devices : dev'[d].depth = IF ctx'[GroupOf[d]].used
                             THEN Cardinality(Held(GroupOf[d])' \cap op'.todo) ELSE 0
    BY <1>7, <2>1, <2>2
  <2> QED BY <1>4, <1>6, <2>3, DepthsLate
<1> QED BY <1>0, <1>8, <1>9, ReleaseDoes

\* The removal of a context ends the count of its group.
LEMMA RemoveDepths ==
  ASSUME Base, DepthsTrue, ClearEntries \/ FreeTables \/ Done
  PROVE  DepthsTrue'
<1>0. DmaTypeOK /\ OpKept /\ DmaAssumption
  BY DEF Base
<1>1. op.at \in {"release", "clear", "free"}
  BY DEF ClearEntries, FreeTables, Done
<1>2. TearDown /\ (op.at \in {"clear", "free"} => op.r \in Groups)
  BY <1>0, <1>1, OpFields DEF OpKept, TearDown, None, Idle
<1>3. \A d \in Devices :
        dev[d].depth = IF ctx[GroupOf[d]].used THEN Cardinality(Held(GroupOf[d]) \cap op.todo)
                       ELSE 0
  BY <1>1 DEF DepthsTrue
<1>g. \A d \in Devices : GroupOf[d] \in Groups
  BY <1>0 DEF DmaAssumption
<1>4. CASE ClearEntries
  <2>1. /\ op.at = "clear" /\ dev' = dev
        /\ Becomes(op.k, "free", op.d, op.r, op.batch, op.todo, op.devs, op.of)
    BY <1>0, <1>4, GotoDoes DEF ClearEntries
  <2>2. op'.k = op.k /\ op'.at = "free" /\ op'.of = op.of /\ op'.todo = op.todo
    BY <2>1 DEF Becomes
  <2>3. ctx' = [ctx EXCEPT ![op.r].entry = FALSE]
    BY <1>4 DEF ClearEntries
  <2>4. \A g \in Groups : ctx'[g].used = ctx[g].used
    BY <1>0, <1>2, <2>1, <2>3, EntryDoes DEF CtxsKept
  <2>5. \A d \in Devices : Held(GroupOf[d])' = Held(GroupOf[d])
    BY <2>2 DEF Held
  <2>6. TearDown'
    BY <1>2, <2>2 DEF TearDown
  <2> QED BY <1>3, <1>g, <2>1, <2>2, <2>4, <2>5, <2>6, DepthsLate
<1>5. CASE FreeTables
  <2>0. op.r \in Groups
    BY <1>2, <1>5 DEF FreeTables
  <2>1. /\ Becomes(op.k, "release", op.d, op.r, op.batch, op.todo, op.devs, op.of)
        /\ CtxsKept({op.r}) /\ ~ctx'[op.r].used
    BY <1>0, <1>5, <2>0, FreeDoes
  <2>2. op'.k = op.k /\ op'.at = "release" /\ op'.of = op.of /\ op'.todo = op.todo
    BY <2>1 DEF Becomes
  <2>3. TearDown'
    BY <1>2, <2>2 DEF TearDown
  <2>4. ASSUME NEW d \in Devices
        PROVE  dev'[d].depth = IF ctx'[GroupOf[d]].used
                               THEN Cardinality(Held(GroupOf[d])' \cap op'.todo) ELSE 0
    <3>1. CASE GroupOf[d] = op.r
      BY <1>0, <1>5, <2>1, <3>1, FreeDevs DEF SidsOf
    <3>2. CASE GroupOf[d] # op.r
      <4>1. dev'[d] = dev[d] /\ ctx'[GroupOf[d]] = ctx[GroupOf[d]]
        BY <1>0, <1>5, <1>g, <2>1, <3>2, FreeDevs DEF SidsOf, DevsKept, CtxsKept
      <4>2. Held(GroupOf[d])' = Held(GroupOf[d])
        BY <2>2 DEF Held
      <4> QED BY <1>3, <2>2, <4>1, <4>2
    <3> QED BY <3>1, <3>2
  <2> QED BY <2>2, <2>3, <2>4, DepthsLate
<1>6. CASE Done
  <2>1. dev' = dev /\ op.todo = {} /\ op' = Idle
    BY <1>6 DEF Done
  <2>2. ~TearDown' /\ op'.at \notin {"release", "clear", "free"}
    BY <2>1, IdleFields DEF TearDown, None
  <2>3. \A d \in Devices : Held(GroupOf[d]) \cap {} = {}
    OBVIOUS
  <2>4. \A d \in Devices : dev'[d].depth = 0
    BY <1>3, <2>1, <2>3, FS_EmptySet
  <2> QED BY <2>2, <2>4, DepthsIdle
<1> QED BY <1>4, <1>5, <1>6

\* Every step keeps the count.
LEMMA NextDepths ==
  ASSUME Base, DepthsTrue, [DmaNext]_dmaVars
  PROVE  DepthsTrue'
<1>0. DmaTypeOK /\ OpKept /\ DmaAssumption
  BY DEF Base
<1>g. /\ \A d \in Devices : GroupOf[d] \in Groups
      /\ op.of \subseteq Regions \X Groups
  BY <1>0, OpFields DEF DmaAssumption
<1>z. op.k \in {"idle", "attach"} \/ op = Idle => \A d \in Devices : dev[d].depth = 0
  BY IdleFields DEF DepthsTrue, TearDown
<1>1. ASSUME NEW d \in Devices, Hang(d) PROVE DepthsTrue'
  <2>1. op' = op /\ ctx' = ctx
    BY <1>1 DEF Hang
  <2>2. \A x \in Devices : dev'[x].depth = dev[x].depth
    BY <1>0, <1>1, HangDoes DEF DevsKept
  <2> QED BY <1>g, <2>1, <2>2, DepthsSame
<1>2. ASSUME NEW d \in Devices, NEW r \in Regions, Write(d, r) PROVE DepthsTrue'
  BY <1>g, <1>2, DepthsSame DEF Write
<1>3. ASSUME NEW w \in flight, Land(w) PROVE DepthsTrue'
  BY <1>g, <1>3, DepthsSame DEF Land
<1>4. ASSUME NEW r \in Regions, cap_delete(r) \/ dma_finalize(r) \/ alloc_dma_region(r)
      PROVE  DepthsTrue'
  BY <1>g, <1>4, DepthsSame DEF cap_delete, dma_finalize, alloc_dma_region
<1>5. CASE UNCHANGED dmaVars
  BY <1>g, <1>5, DepthsSame DEF dmaVars
<1>6. ASSUME NEW d \in Devices, NEW r \in Regions, attach(d, r) PROVE DepthsTrue'
  <2>1. op = Idle /\ dev' = dev
    BY <1>6 DEF attach
  <2>2. op'.k \in {"attach", "idle"} /\ op'.at \in {"arm", "context", "full", None}
    BY <1>0, <1>6, AttachDoes DEF Becomes, IdleNow
  <2>3. ~TearDown' /\ op'.at \notin {"release", "clear", "free"}
    BY <2>2 DEF TearDown, None
  <2> QED BY <1>z, <2>1, <2>3, DepthsIdle
<1>7. CASE AttachFull \/ AttachContext \/ AttachArm \/ AttachSync
  <2>1. op.k = "attach" /\ op.d \in Devices
    BY <1>0, <1>7 DEF AttachFull, AttachContext, AttachArm, AttachSync, At, OpKept
  <2>2. op' = Idle \/ Goto("arm") \/ Goto("sync")
    BY <1>7 DEF AttachFull, AttachContext, AttachArm, AttachSync
  <2>3. op'.k \in {"attach", "idle"} /\ op'.at \in {"arm", "sync", None}
    BY <1>0, <2>1, <2>2, GotoDoes, IdleDoes DEF IdleNow, Becomes
  <2>4. ~TearDown' /\ op'.at \notin {"release", "clear", "free"}
    BY <2>3 DEF TearDown, None
  <2>5. \A d \in Devices : dev'[d].depth = dev[d].depth
    <3>1. CASE AttachArm
      <4>1. PICK d \in Devices : d = op.d
        BY <2>1
      <4> QED BY <1>0, <3>1, <4>1, ArmDoes DEF DevsKept
    <3>2. CASE AttachFull \/ AttachContext \/ AttachSync
      BY <3>2 DEF AttachFull, AttachContext, AttachSync
    <3> QED BY <1>7, <3>1, <3>2
  <2> QED BY <1>z, <2>1, <2>4, <2>5, DepthsIdle
<1>8. CASE (\E r \in Regions : detach(r)) \/ \E B \in SUBSET Regions : finalize(B)
  <2>1. op = Idle /\ dev' = dev /\ ctx' = ctx
    BY <1>8 DEF detach, finalize
  <2>2. op'.k \in {"detach", "finalize"} /\ op'.at = "pick" /\ op'.of = {}
    BY <1>0, <1>8, BatchDoes, FinalizeDoes DEF Becomes
  <2>3. TearDown'
    BY <2>2 DEF TearDown
  <2>4. \A d \in Devices : Held(GroupOf[d])' \ Left(d)' = {}
    BY <2>2 DEF Held, Left
  <2> QED BY <1>z, <2>1, <2>2, <2>3, <2>4, DepthsMark, FS_EmptySet
<1>9. ASSUME NEW B \in SUBSET Regions, finalize_silent(B) PROVE DepthsTrue'
  BY <1>g, <1>9, DepthsSame DEF finalize_silent
<1> QED BY <1>1, <1>2, <1>3, <1>4, <1>5, <1>6, <1>7, <1>8, <1>9, FindDepths, StillDepths, SyncDepths,
           ReleaseDepths, RemoveDepths DEF DmaNext

-----------------------------------------------------------------------------
(* Tables and cached translations, where every attach is entered.          *)

\* A region that is new has room in the context of its device.
LEMMA NewHasRoom ==
  ASSUME Base, AttachComplete, Entered, NEW g \in Groups, NEW r \in Regions, region[r] = "new"
  PROVE  Room(g) /\ \A h \in Groups : r \notin ctx[h].regs
<1>0. /\ DmaTypeOK /\ DmaAssumption /\ IsFiniteSet(Regions) /\ Cardinality(Regions) <= MAX_CTX_REGS
      /\ MAX_CTX_REGS \in Nat
  BY DEF Base, DmaAssumption, AttachComplete
<1>1. \A h \in Groups : r \notin ctx[h].regs
  BY DEF Entered
<1>2. ctx[g].regs \in SUBSET (Regions \ {r})
  BY <1>0, <1>1 DEF DmaTypeOK, Ctx
<1>3. Cardinality(Regions \ {r}) = Cardinality(Regions) - 1 /\ IsFiniteSet(Regions \ {r})
      /\ Cardinality(Regions) \in Nat
  BY <1>0, FS_RemoveElement, FS_CardinalityType
<1>4. /\ Cardinality(ctx[g].regs) <= Cardinality(Regions \ {r})
      /\ Cardinality(ctx[g].regs) \in Nat
  BY <1>2, <1>3, FS_Subset, FS_CardinalityType
<1> QED BY <1>0, <1>1, <1>3, <1>4 DEF Room

\* Nothing that TablesTrue looks at, but the cached translations, which only become fewer.
LEMMA TablesSame ==
  ASSUME TablesTrue, UNCHANGED <<slpt, region, op>>,
         \A g \in Groups : ctx'[g].used = ctx[g].used /\ ctx'[g].regs = ctx[g].regs,
         op.at \in {"clear", "free"} => op.r \in Groups,
         \A g \in Groups : iotlb'[g] \subseteq iotlb[g]
  PROVE  TablesTrue'
<1>1. Entered'
  BY DEF TablesTrue, Entered
<1>2. Cached'
  BY DEF TablesTrue, Cached, TearDown
<1>3. Batched'
  BY DEF TablesTrue, Batched, TearDown, Marking, Unmapped
<1> QED BY <1>1, <1>2, <1>3 DEF TablesTrue

\* The devices, and what happens to a region outside of an operation.
LEMMA AloneTables ==
  ASSUME Base, TablesTrue,
         \/ \E d \in Devices : Hang(d) \/ \E r \in Regions : Write(d, r)
         \/ \E w \in flight : Land(w)
         \/ \E r \in Regions : cap_delete(r) \/ dma_finalize(r) \/ alloc_dma_region(r)
         \/ UNCHANGED dmaVars
  PROVE  TablesTrue'
<1>0. DmaTypeOK /\ OpKept /\ DmaAssumption
  BY DEF Base
<1>r. op.at \in {"clear", "free"} => op.r \in Groups
  BY <1>0 DEF OpKept
<1>1. CASE (\E d \in Devices : Hang(d)) \/ (\E w \in flight : Land(w)) \/ UNCHANGED dmaVars
  <2>1. UNCHANGED <<ctx, slpt, iotlb, region, op>>
    BY <1>1 DEF Hang, Land, dmaVars
  <2> QED BY <1>r, <2>1, TablesSame
<1>2. ASSUME NEW d \in Devices, NEW r \in Regions, Write(d, r) PROVE TablesTrue'
  <2>1. /\ GroupOf[d] \in Groups /\ iotlb' = [iotlb EXCEPT ![GroupOf[d]] = @ \cup {r}]
        /\ UNCHANGED <<ctx, slpt, region, op>>
        /\ r \in iotlb[GroupOf[d]] \/ r \in slpt[GroupOf[d]]
    BY <1>0, <1>2 DEF Write, DmaAssumption
  <2>2. Entered' /\ Batched'
    BY <2>1 DEF TablesTrue, Entered, Batched, TearDown, Marking, Unmapped
  <2>3. Cached'
    <3>1. ASSUME NEW g \in Groups, NEW q \in iotlb'[g]
          PROVE  q \in iotlb[g] \/ q \in slpt[g]
      BY <1>0, <2>1, <3>1 DEF DmaTypeOK
    <3> QED BY <2>1, <3>1 DEF TablesTrue, Cached, TearDown
  <2> QED BY <2>2, <2>3 DEF TablesTrue
<1>3. ASSUME NEW r \in Regions, NEW v \in Places, region' = [region EXCEPT ![r] = v],
             UNCHANGED <<ctx, slpt, iotlb, op>>,
             region[r] \in {"owned", "dying"} => v \in {"owned", "dying"},
             TearDown => r \notin op.batch
      PROVE  TablesTrue'
  <2>0. /\ region'[r] = v /\ \A q \in Regions : q # r => region'[q] = region[q]
        /\ op.batch \subseteq Regions /\ \A g \in Groups : ctx[g].regs \subseteq Regions
    BY <1>0, <1>3, OpFields DEF DmaTypeOK, Ctx
  <2>1. Entered'
    BY <1>3, <2>0 DEF TablesTrue, Entered
  <2>2. Cached'
    BY <1>3 DEF TablesTrue, Cached, TearDown
  <2>3. Batched'
    BY <1>3, <2>0 DEF TablesTrue, Batched, TearDown, Marking, Unmapped
  <2> QED BY <2>1, <2>2, <2>3 DEF TablesTrue
<1>4. ASSUME NEW r \in Regions, cap_delete(r) PROVE TablesTrue'
  <2>1. TearDown => r \notin op.batch
    BY <1>4 DEF cap_delete, TablesTrue, Batched, TearDown
  <2> QED BY <1>3, <1>4, <2>1 DEF cap_delete, Places
<1>5. ASSUME NEW r \in Regions, dma_finalize(r) \/ alloc_dma_region(r) PROVE TablesTrue'
  <2>0. region[r] \in {"judged", "free"}
    BY <1>5 DEF dma_finalize, alloc_dma_region
  <2>1. TearDown => r \notin op.batch
    BY <2>0 DEF TablesTrue, Batched, TearDown
  <2>2. PICK v \in Places : region' = [region EXCEPT ![r] = v]
    BY <1>5 DEF dma_finalize, alloc_dma_region, Places
  <2> QED BY <1>3, <1>5, <2>0, <2>1, <2>2 DEF dma_finalize, alloc_dma_region
<1> QED BY <1>1, <1>2, <1>4, <1>5

\* attach enters what it maps.
LEMMA AttachTables ==
  ASSUME Base, AttachComplete, TablesTrue, NEW d \in Devices, NEW r \in Regions, attach(d, r)
  PROVE  TablesTrue'
<1> DEFINE g == GroupOf[d]
<1>0. DmaTypeOK /\ OpKept /\ DmaAssumption /\ g \in Groups
  BY DEF Base, DmaAssumption
<1>1. Room(g) /\ \A h \in Groups : r \notin ctx[h].regs
  BY <1>0, NewHasRoom DEF attach, TablesTrue
<1>2. /\ op = Idle /\ region[r] = "new" /\ region' = [region EXCEPT ![r] = "owned"]
      /\ slpt' = [slpt EXCEPT ![g] = @ \cup {r}] /\ iotlb' = iotlb
      /\ ctx' = [ctx EXCEPT ![g].used = TRUE, ![g].regs = @ \cup {r}]
      /\ op'.k = "attach" /\ op'.at \in {"arm", "context"}
  BY <1>0, <1>1, AttachDoes DEF AttachComplete, Becomes
<1> HIDE DEF g
<1>3. /\ CtxsKept({g}) /\ ctx'[g].used /\ ctx'[g].regs = ctx[g].regs \cup {r}
  BY <1>0, <1>2, EnterDoes
<1>4. /\ slpt'[g] = slpt[g] \cup {r} /\ region'[r] = "owned"
      /\ \A h \in Groups : h # g => slpt'[h] = slpt[h] /\ ctx'[h] = ctx[h]
      /\ \A q \in Regions : q # r => region'[q] = region[q]
      /\ \A h \in Groups : ctx[h].regs \subseteq Regions
  BY <1>0, <1>2, <1>3 DEF DmaTypeOK, CtxsKept, Ctx
<1>5. Entered'
  <2>1. \A h \in Groups : slpt'[h] = ctx'[h].regs
    BY <1>3, <1>4 DEF TablesTrue, Entered
  <2>2. \A h \in Groups : \A q \in ctx'[h].regs : ctx'[h].used /\ region'[q] \in {"owned", "dying"}
    BY <1>3, <1>4 DEF TablesTrue, Entered
  <2>3. \A h, k \in Groups : \A q \in ctx'[h].regs \cap ctx'[k].regs : h = k
    <3>1. \A h \in Groups : \A q \in ctx'[h].regs : q \in ctx[h].regs \/ (q = r /\ h = g)
      BY <1>3, <1>4
    <3> QED BY <1>1, <3>1 DEF TablesTrue, Entered
  <2> QED BY <2>1, <2>2, <2>3 DEF Entered
<1>6. Cached'
  <2>1. op.at # "sync"
    BY <1>2, IdleFields DEF None
  <2> QED BY <1>2, <1>4, <2>1 DEF TablesTrue, Cached
<1>7. Batched'
  BY <1>2 DEF Batched, TearDown, Marking, Unmapped
<1> QED BY <1>5, <1>6, <1>7 DEF TablesTrue

\* The rest of attach, and the beginning of a teardown.
LEMMA BeginTables ==
  ASSUME Base, AttachComplete, TablesTrue,
         \/ AttachFull \/ AttachContext \/ AttachArm \/ AttachSync
         \/ (\E r \in Regions : detach(r)) \/ (\E B \in SUBSET Regions : finalize(B))
  PROVE  TablesTrue'
<1>0. DmaTypeOK /\ OpKept /\ DmaAssumption /\ ~MapFails /\ ~SyncFails
  BY DEF Base, AttachComplete
<1>1. ~AttachFull
  BY DEF AttachFull, At, TablesTrue, Batched
<1>2. CASE AttachContext \/ AttachArm \/ AttachSync
  <2>0. op.k = "attach" /\ UNCHANGED <<slpt, region>> /\ op.d \in Devices
    BY <1>0, <1>2 DEF AttachContext, AttachArm, AttachSync, At, OpKept
  <2>1. op'.k \in {"idle", "attach"} /\ op'.at \in {None, "arm", "sync"}
    <3>1. op' = Idle \/ Goto("arm") \/ Goto("sync")
      BY <1>2 DEF AttachContext, AttachArm, AttachSync
    <3> QED BY <1>0, <2>0, <3>1, GotoDoes, IdleDoes DEF IdleNow, Becomes
  <2>2. \A g \in Groups : ctx'[g].used = ctx[g].used /\ ctx'[g].regs = ctx[g].regs
    <3>1. CASE AttachContext
      <4>1. PICK b \in BOOLEAN : ctx' = [ctx EXCEPT ![GroupOf[op.d]].entry = b]
        BY <3>1 DEF AttachContext
      <4>2. GroupOf[op.d] \in Groups
        BY <1>0, <2>0 DEF DmaAssumption
      <4> QED BY <1>0, <4>1, <4>2, EntryDoes DEF CtxsKept
    <3>2. CASE AttachArm \/ AttachSync
      BY <3>2 DEF AttachArm, AttachSync
    <3> QED BY <1>2, <3>1, <3>2
  <2>3. \A g \in Groups : iotlb'[g] \subseteq iotlb[g]
    BY <1>0, <1>2 DEF AttachContext, AttachArm, AttachSync, Synced
  <2>4. ~TearDown /\ ~TearDown'
    BY <2>0, <2>1 DEF TearDown
  <2>5. Entered'
    BY <2>0, <2>2 DEF TablesTrue, Entered
  <2>6. Cached'
    BY <2>0, <2>3, <2>4 DEF TablesTrue, Cached
  <2>7. Batched'
    BY <2>1, <2>4 DEF Batched, Marking, Unmapped, None
  <2> QED BY <2>5, <2>6, <2>7 DEF TablesTrue
<1>3. ASSUME NEW B \in SUBSET Regions, NEW k \in {"detach", "finalize"},
             NEW q \in Regions \cup {None}, op = Idle, Becomes(k, "pick", None, q, B, B, {}, {}),
             \A r \in B : region[r] = IF k = "detach" THEN "owned" ELSE "dying",
             UNCHANGED <<ctx, slpt, iotlb, dev, flight, region, ok>>
      PROVE  TablesTrue'
  <2>0. /\ op'.k = k /\ op'.at = "pick" /\ op'.batch = B /\ op'.todo = B
        /\ op.at = None
    BY <1>3, IdleFields DEF Becomes
  <2>1. Entered'
    BY <1>3 DEF TablesTrue, Entered
  <2>2. Cached'
    BY <1>3, <2>0 DEF TablesTrue, Cached, None
  <2>3. Batched'
    BY <1>3, <2>0 DEF Batched, TearDown, Marking, Unmapped
  <2> QED BY <2>1, <2>2, <2>3 DEF TablesTrue
<1>4. ASSUME NEW r \in Regions, detach(r) PROVE TablesTrue'
  <2>1. /\ op = Idle /\ Becomes("detach", "pick", None, r, {r}, {r}, {}, {})
        /\ \A q \in {r} : region[q] = IF "detach" = "detach" THEN "owned" ELSE "dying"
        /\ UNCHANGED <<ctx, slpt, iotlb, dev, flight, region, ok>>
    BY <1>0, <1>4, BatchDoes
  <2>2. {r} \in SUBSET Regions
    OBVIOUS
  <2> QED BY <1>3, <2>1, <2>2
<1>5. ASSUME NEW B \in SUBSET Regions, finalize(B) PROVE TablesTrue'
  <2>1. /\ op = Idle /\ Becomes("finalize", "pick", None, None, B, B, {}, {})
        /\ \A q \in B : region[q] = IF "finalize" = "detach" THEN "owned" ELSE "dying"
        /\ UNCHANGED <<ctx, slpt, iotlb, dev, flight, region, ok>>
    BY <1>0, <1>5, FinalizeDoes
  <2> QED BY <1>3, <2>1
<1> QED BY <1>1, <1>2, <1>4, <1>5

\* The first phase finds the group of each region of the batch.
LEMMA MarkTables ==
  ASSUME Base, TablesTrue, FindContext \/ \E d \in Devices : Disarm(d) \/ Flush(d)
  PROVE  TablesTrue'
<1>0. DmaTypeOK /\ OpKept /\ DmaAssumption
  BY DEF Base
<1>1. op.at \in {"pick", "disarm", "flush"} /\ UNCHANGED <<ctx, slpt, iotlb, region>>
  BY DEF FindContext, Disarm, Flush
<1>2. TearDown /\ Marking
  BY <1>0, <1>1, OpFields DEF OpKept, TearDown, Marking, None, Idle
<1>3. op'.k = op.k /\ op'.batch = op.batch /\ op'.at \in {"pick", "disarm", "flush"}
  BY <1>0, FindDoes, DisarmDoes, FlushDoes DEF Becomes
<1>4. ASSUME NEW g \in Groups, NEW r \in ctx[g].regs \cap op.batch
      PROVE  r \in op'.todo \/ <<r, g>> \in op'.of
  <2>0. r \in op.todo \/ <<r, g>> \in op.of
    BY <1>2 DEF TablesTrue, Batched
  <2>1. CASE FindContext
    <3>1. PICK q \in op.todo :
            \/ /\ CtxOf(q) = {}
               /\ Becomes(op.k, "pick", op.d, op.r, op.batch, op.todo \ {q}, op.devs, op.of)
            \/ \E h \in Groups :
                 /\ ctx[h].used /\ q \in ctx[h].regs
                 /\ Becomes(op.k, "disarm", op.d, q, op.batch, op.todo \ {q}, SidsOf(h),
                            op.of \cup {<<q, h>>})
      BY <1>0, <2>1, FindDoes
    <3>2. CASE /\ CtxOf(q) = {}
               /\ Becomes(op.k, "pick", op.d, op.r, op.batch, op.todo \ {q}, op.devs, op.of)
      <4>1. r # q
        BY <3>2 DEF CtxOf, TablesTrue, Entered
      <4> QED BY <2>0, <3>2, <4>1 DEF Becomes
    <3>3. ASSUME NEW h \in Groups, q \in ctx[h].regs,
                 Becomes(op.k, "disarm", op.d, q, op.batch, op.todo \ {q}, SidsOf(h),
                         op.of \cup {<<q, h>>})
          PROVE  r \in op'.todo \/ <<r, g>> \in op'.of
      <4>1. r = q => g = h
        BY <3>3 DEF TablesTrue, Entered
      <4>2. op'.todo = op.todo \ {q} /\ op'.of = op.of \cup {<<q, h>>}
        BY <3>3 DEF Becomes
      <4> QED BY <2>0, <4>1, <4>2
    <3> QED BY <3>1, <3>2, <3>3
  <2>2. CASE \E d \in Devices : Disarm(d) \/ Flush(d)
    <3>1. op'.todo = op.todo /\ op'.of = op.of
      BY <1>0, <2>2, DisarmDoes, FlushDoes DEF Becomes
    <3> QED BY <2>0, <3>1
  <2> QED BY <2>1, <2>2
<1>5. Entered'
  BY <1>1 DEF TablesTrue, Entered
<1>6. Cached'
  BY <1>1 DEF TablesTrue, Cached
<1>7. Batched'
  BY <1>1, <1>2, <1>3, <1>4 DEF TablesTrue, Batched, TearDown, Marking, Unmapped
<1> QED BY <1>5, <1>6, <1>7 DEF TablesTrue

\* The second phase takes all of the batch out, the third what was cached of it.
LEMMA UnmapTables ==
  ASSUME Base, AttachComplete, TablesTrue, Unmap \/ Sync
  PROVE  TablesTrue'
<1>0. DmaTypeOK /\ OpKept /\ DmaAssumption /\ ~SyncFails
  BY DEF Base, AttachComplete
<1>1. CASE Unmap
  <2>1. /\ op.at = "pick" /\ op.todo = {} /\ UNCHANGED <<iotlb, region>>
        /\ op'.k = op.k /\ op'.at = "sync" /\ op'.batch = op.batch /\ op'.of = op.of
        /\ \A g \in Groups :
              /\ ctx'[g].used = ctx[g].used
              /\ ctx'[g].regs = ctx[g].regs \ {r \in op.batch : <<r, g>> \in op.of}
              /\ slpt'[g] = slpt[g] \ {r \in op.batch : <<r, g>> \in op.of}
    BY <1>0, <1>1, UnmapDoes DEF Becomes
  <2>2. TearDown /\ Marking
    BY <1>0, <2>1, OpFields DEF OpKept, TearDown, Marking, None, Idle
  <2>3. Entered'
    <3>1. \A g \in Groups : slpt[g] = ctx[g].regs
      BY DEF TablesTrue, Entered
    <3>2. \A g \in Groups : slpt'[g] = ctx'[g].regs
      BY <2>1, <3>1
    <3>3. \A g \in Groups : ctx'[g].regs \subseteq ctx[g].regs /\ ctx'[g].used = ctx[g].used
      BY <2>1
    <3>4. region' = region
      BY <2>1
    <3> QED BY <3>2, <3>3, <3>4 DEF TablesTrue, Entered
  <2>4. Cached'
    <3>1. ASSUME NEW g \in Groups, NEW r \in iotlb[g], r \notin slpt'[g]
          PROVE  <<r, g>> \in op.of
      BY <2>1, <3>1 DEF TablesTrue, Cached
    <3> QED BY <2>1, <2>2, <3>1 DEF Cached, TearDown
  <2>5. Batched'
    <3>1. \A g \in Groups : ctx'[g].regs \cap op.batch = {}
      BY <2>1, <2>2 DEF TablesTrue, Batched
    <3> QED BY <2>1, <2>2, <3>1 DEF TablesTrue, Batched, TearDown, Marking, Unmapped
  <2> QED BY <2>3, <2>4, <2>5 DEF TablesTrue
<1>2. CASE Sync
  <2>1. /\ TearDown /\ op.at = "sync" /\ UNCHANGED <<ctx, slpt, region>>
        /\ op'.k = op.k /\ op'.at = "release" /\ op'.batch = op.batch
        /\ iotlb' = [g \in Groups |-> {}]
    BY <1>0, <1>2, SyncDoes DEF Becomes, Sync, Synced, TearDown
  <2>2. Entered'
    BY <2>1 DEF TablesTrue, Entered
  <2>3. Cached'
    BY <2>1 DEF Cached
  <2>4. Batched'
    BY <2>1 DEF TablesTrue, Batched, TearDown, Marking, Unmapped
  <2> QED BY <2>2, <2>3, <2>4 DEF TablesTrue
<1> QED BY <1>1, <1>2

\* The last phase removes contexts that translate nothing.
LEMMA LateTables ==
  ASSUME Base, AttachComplete, TablesTrue,
         (\E r \in Regions : Release(r)) \/ ClearEntries \/ FreeTables \/ Done
  PROVE  TablesTrue'
<1>0. DmaTypeOK /\ OpKept /\ DmaAssumption /\ ~SyncFails
  BY DEF Base, AttachComplete
<1>1. op.at \in {"release", "clear", "free"}
  BY DEF Release, ClearEntries, FreeTables, Done
<1>2. TearDown /\ Unmapped /\ (op.at \in {"clear", "free"} => op.r \in Groups)
  BY <1>0, <1>1, OpFields DEF OpKept, TearDown, Unmapped, None, Idle
<1>3. CASE \E r \in Regions : Release(r)
  <2>1. /\ op.at = "release" /\ UNCHANGED <<ctx, slpt, iotlb, region>>
        /\ op'.k = op.k /\ op'.batch = op.batch
        /\ \/ op'.at = "release"
           \/ op'.at = "clear" /\ ctx[op'.r].regs = {}
    BY <1>0, <1>3, ReleaseDoes DEF Becomes
  <2>2. Entered'
    BY <2>1 DEF TablesTrue, Entered
  <2>3. Cached'
    BY <2>1 DEF TablesTrue, Cached
  <2>4. Batched'
    BY <1>2, <2>1 DEF TablesTrue, Batched, TearDown, Marking, Unmapped
  <2> QED BY <2>2, <2>3, <2>4 DEF TablesTrue
<1>4. CASE ClearEntries
  <2>1. /\ op.at = "clear" /\ UNCHANGED <<slpt, iotlb, region>>
        /\ ctx' = [ctx EXCEPT ![op.r].entry = FALSE]
        /\ Becomes(op.k, "free", op.d, op.r, op.batch, op.todo, op.devs, op.of)
    BY <1>0, <1>4, GotoDoes DEF ClearEntries
  <2>2. \A g \in Groups : ctx'[g].used = ctx[g].used /\ ctx'[g].regs = ctx[g].regs
    BY <1>0, <1>2, <2>1, EntryDoes DEF CtxsKept
  <2>3. op'.k = op.k /\ op'.at = "free" /\ op'.r = op.r /\ op'.batch = op.batch
    BY <2>1 DEF Becomes
  <2>4. Entered'
    BY <2>1, <2>2 DEF TablesTrue, Entered
  <2>5. Cached'
    BY <2>1 DEF TablesTrue, Cached
  <2>6. Batched'
    BY <1>2, <2>1, <2>2, <2>3 DEF TablesTrue, Batched, TearDown, Marking, Unmapped
  <2> QED BY <2>4, <2>5, <2>6 DEF TablesTrue
<1>5. CASE FreeTables
  <2>0. op.at = "free" /\ op.r \in Groups
    BY <1>2, <1>5 DEF FreeTables
  <2>1. /\ UNCHANGED region /\ Synced /\ slpt' = [slpt EXCEPT ![op.r] = {}]
        /\ op'.k = op.k /\ op'.at = "release" /\ op'.batch = op.batch
        /\ CtxsKept({op.r}) /\ ctx'[op.r].regs = {}
    BY <1>0, <1>5, <2>0, FreeDoes DEF Becomes
  <2>2. \A g \in Groups : g # op.r => ctx'[g] = ctx[g] /\ slpt'[g] = slpt[g]
    BY <1>0, <2>0, <2>1 DEF CtxsKept, DmaTypeOK
  <2>3. slpt'[op.r] = {}
    BY <1>0, <2>0, <2>1 DEF DmaTypeOK
  <2>4. iotlb' = [g \in Groups |-> {}]
    BY <1>0, <2>1 DEF Synced
  <2>5. Entered'
    BY <2>1, <2>2, <2>3 DEF TablesTrue, Entered
  <2>6. Cached'
    BY <2>4 DEF Cached
  <2>7. Batched'
    <3>1. \A g \in Groups : ctx'[g].regs \cap op.batch = {}
      BY <1>2, <2>1, <2>2 DEF TablesTrue, Batched
    <3> QED BY <1>2, <2>1, <3>1 DEF TablesTrue, Batched, TearDown, Marking, Unmapped
  <2> QED BY <2>5, <2>6, <2>7 DEF TablesTrue
<1>6. CASE Done
  <2>1. /\ op.at = "release" /\ op' = Idle /\ UNCHANGED <<ctx, slpt, iotlb>>
        /\ \A r \in Regions : r \notin op.batch => region'[r] = region[r]
    BY <1>0, <1>6 DEF Done, DmaTypeOK
  <2>2. \A g \in Groups : ctx[g].regs \subseteq Regions \ op.batch
    BY <1>0, <1>2 DEF TablesTrue, Batched, DmaTypeOK, Ctx
  <2>3. op'.k = "idle" /\ op'.at = None
    BY <2>1, IdleFields
  <2>4. Entered'
    BY <2>1, <2>2 DEF TablesTrue, Entered
  <2>5. Cached'
    BY <2>1 DEF TablesTrue, Cached
  <2>6. Batched'
    BY <2>3 DEF Batched, TearDown, Marking, Unmapped, None
  <2> QED BY <2>4, <2>5, <2>6 DEF TablesTrue
<1> QED BY <1>3, <1>4, <1>5, <1>6

\* Every step keeps tables and caches true.
LEMMA NextTables ==
  ASSUME Base, AttachComplete, TablesTrue, [DmaNext]_dmaVars
  PROVE  TablesTrue'
<1>1. \A B \in SUBSET Regions : ~finalize_silent(B)
  BY DEF AttachComplete, finalize_silent
<1> QED BY <1>1, AloneTables, AttachTables, BeginTables, MarkTables, UnmapTables, LateTables DEF DmaNext

\* What the unit translates is held by someone.
LEMMA TranslatedHeld ==
  ASSUME Base, TablesTrue, NEW r \in Regions, Translated(r)
  PROVE  region[r] \in {"owned", "dying"}
<1>1. PICK g \in Groups : r \in iotlb[g] \/ (ctx[g].entry /\ r \in slpt[g])
  BY DEF Translated
<1>2. r \in slpt[g] \/ (TearDown /\ <<r, g>> \in op.of)
  BY <1>1 DEF TablesTrue, Cached
<1>3. CASE r \in slpt[g]
  BY <1>3 DEF TablesTrue, Entered
<1>4. CASE TearDown /\ <<r, g>> \in op.of
  <2>1. r \in op.batch
    BY <1>4 DEF Base, OpKept
  <2> QED BY <1>4, <2>1 DEF TablesTrue, Batched
<1> QED BY <1>2, <1>3, <1>4

-----------------------------------------------------------------------------
(* Verdicts, where no region is detached beneath a device that may hang.   *)

NoneHangsBeneath == Detaching => MayHang = {}

\* During a teardown the group of the region in hand is held still.
LEMMA FlushedStill ==
  ASSUME Base, DepthsTrue, HeldStill, op.at = "flush", NEW d \in op.devs, ~dev[d].hung
  PROVE  ~dev[d].bme
<1>0. DmaTypeOK /\ OpKept /\ DmaAssumption
  BY DEF Base
<1>1. TearDown /\ Marking /\ d \in Devices
  BY <1>0, OpFields DEF OpKept, TearDown, Marking, None, Idle
<1>2. PICK g \in Groups : <<op.r, g>> \in op.of /\ GroupOf[d] = g
  BY <1>0, SidsApart DEF OpKept
<1>3. Held(g) \in SUBSET Regions /\ op.r \in Held(g) /\ Left(d) = {}
  BY <1>0, <1>2, OpFields DEF Held, Left
<1>4. dev[d].depth = Cardinality(Held(g))
  <2>1. Held(g) \ {} = Held(g)
    OBVIOUS
  <2> QED BY <1>1, <1>2, <1>3, <2>1 DEF DepthsTrue
<1>5. Cardinality(Held(g)) = Cardinality(Held(g) \ {op.r}) + 1 /\ Cardinality(Held(g) \ {op.r}) \in Nat
  BY <1>0, <1>3, RegionsCount
<1> QED BY <1>1, <1>4, <1>5 DEF HeldStill

\* A step hangs devices that may hang, and no others.
LEMMA NextHung ==
  ASSUME Base, [DmaNext]_dmaVars, NEW d \in Devices, dev'[d].hung
  PROVE  dev[d].hung \/ d \in MayHang
<1>0. DmaTypeOK /\ OpKept /\ DmaAssumption
  BY DEF Base
<1>1. ASSUME NEW x \in Devices, Hang(x) PROVE dev[d].hung \/ d \in MayHang
  BY <1>0, <1>1, HangDoes DEF DevsKept
<1>2. ASSUME NEW x \in Devices, Disarm(x) PROVE dev[d].hung
  BY <1>0, <1>2, DisarmDevs DEF DevsKept
<1>3. ASSUME AttachArm PROVE dev[d].hung
  <2>1. PICK x \in Devices : x = op.d
    BY <1>0, <1>3 DEF AttachArm, At, OpKept
  <2> QED BY <1>0, <1>3, <2>1, ArmDoes DEF DevsKept
<1>4. ASSUME NEW r \in Regions, Release(r) PROVE dev[d].hung
  BY <1>0, <1>4, ReleaseDoes, WakeDevs
<1>5. ASSUME FreeTables PROVE dev[d].hung
  BY <1>0, <1>5, FreeDevs DEF DevsKept
<1>6. dev' = dev => dev[d].hung
  OBVIOUS
<1>7. ASSUME NEW x \in Devices, Flush(x) \/ \E r \in Regions : Write(x, r) \/ attach(x, r)
      PROVE  dev' = dev
  BY <1>7 DEF Flush, Write, attach
<1>8. ASSUME NEW r \in Regions,
             cap_delete(r) \/ detach(r) \/ dma_finalize(r) \/ alloc_dma_region(r)
      PROVE  dev' = dev
  BY <1>8 DEF cap_delete, detach, dma_finalize, alloc_dma_region
<1>9. ASSUME \/ \E w \in flight : Land(w)
             \/ AttachFull \/ AttachContext \/ AttachSync
             \/ \E B \in SUBSET Regions : finalize(B) \/ finalize_silent(B)
             \/ FindContext \/ Unmap \/ Sync \/ ClearEntries \/ Done \/ UNCHANGED dmaVars
      PROVE  dev' = dev
  BY <1>9 DEF Land, AttachFull, AttachContext, AttachSync, finalize, finalize_silent, FindContext, Unmap, Sync,
              ClearEntries, Done, dmaVars
<1> QED BY <1>1, <1>2, <1>3, <1>4, <1>5, <1>6, <1>7, <1>8, <1>9 DEF DmaNext

\* What QuietTrue looks at: verdicts become fewer, bus masters too, writes only land.
LEMMA QuietSame ==
  ASSUME Base, QuietTrue, op' = op,
         \A r \in Regions : ok'[r] => ok[r],
         \A d \in Devices : dev'[d].bme => dev[d].bme,
         \A w \in flight' : w \in flight \/ (w[1] \in Devices /\ dev[w[1]].bme)
  PROVE  QuietTrue'
<1> SUFFICES ASSUME Marking' \/ (TearDown' /\ op'.at = "sync"), NEW p \in op'.of, ok'[p[1]],
                    NEW d \in SidsOf(p[2]), ~Unasked(d, p[1])'
             PROVE  ~dev'[d].bme /\ <<d, p[1]>> \notin flight'
  BY DEF QuietTrue, SidsOf
<1>1. p \in op.of /\ p[1] \in Regions /\ d \in Devices /\ ok[p[1]]
  BY OpFields DEF Base, SidsOf
<1>2. (Marking \/ (TearDown /\ op.at = "sync")) /\ ~Unasked(d, p[1])
  BY DEF Marking, TearDown, Unasked
<1>3. ~dev[d].bme /\ <<d, p[1]>> \notin flight
  BY <1>1, <1>2 DEF QuietTrue
<1>4. <<d, p[1]>>[1] = d
  OBVIOUS
<1> QED BY <1>1, <1>3, <1>4

\* Nothing is judged outside of the first phases.
LEMMA QuietLater ==
  ASSUME ~TearDown' \/ op'.at \in {"release", "clear", "free"} \/ op'.of = {}
  PROVE  QuietTrue'
BY DEF QuietTrue, Marking, TearDown

\* Phase 1 finds a group: its devices have still to be asked.
LEMMA FindVerdicts ==
  ASSUME Base, VerdictsTrue, FindContext
  PROVE  /\ QuietTrue'
         /\ op'.k = "detach" => Detaching /\ \A p \in op'.of : ok'[p[1]]
<1>0. DmaTypeOK /\ OpKept
  BY DEF Base
<1>1. PICK r \in op.todo :
        /\ ok' = [ok EXCEPT ![r] = TRUE]
        /\ \/ Becomes(op.k, "pick", op.d, op.r, op.batch, op.todo \ {r}, op.devs, op.of)
           \/ \E g \in Groups :
                Becomes(op.k, "disarm", op.d, r, op.batch, op.todo \ {r}, SidsOf(g),
                        op.of \cup {<<r, g>>})
  BY <1>0, FindDoes
<1>2. op.at = "pick" /\ UNCHANGED <<dev, flight>> /\ r \in Regions
  BY <1>0, FindDoes, OpFields
<1>3. TearDown /\ Marking
  BY <1>0, <1>2, OpFields DEF OpKept, TearDown, Marking, None, Idle
<1>4. \A p \in op.of : p[1] # r /\ p[1] \in Regions
  BY <1>0, <1>3, OpFields DEF OpKept
<1>5. /\ \A p \in op.of : ok'[p[1]] = ok[p[1]]
      /\ ok'[r]
  BY <1>0, <1>1, <1>2, <1>4 DEF DmaTypeOK
<1>6. \A p \in op.of : ok[p[1]] =>
        \A d \in SidsOf(p[2]) : ~dev[d].bme /\ <<d, p[1]>> \notin flight
  BY <1>2, <1>3 DEF VerdictsTrue, QuietTrue, Unasked
<1>7. op.k = "detach" => Detaching /\ \A p \in op.of : ok[p[1]]
  BY DEF VerdictsTrue
<1>8. CASE Becomes(op.k, "pick", op.d, op.r, op.batch, op.todo \ {r}, op.devs, op.of)
  <2>1. op'.of = op.of /\ op'.k = op.k
    BY <1>8 DEF Becomes
  <2>2. QuietTrue'
    BY <1>2, <1>5, <1>6, <2>1 DEF QuietTrue, SidsOf
  <2> QED BY <1>5, <1>7, <2>1, <2>2
<1>9. ASSUME NEW g \in Groups,
             Becomes(op.k, "disarm", op.d, r, op.batch, op.todo \ {r}, SidsOf(g),
                     op.of \cup {<<r, g>>})
      PROVE  /\ QuietTrue'
             /\ op'.k = "detach" => Detaching /\ \A p \in op'.of : ok'[p[1]]
  <2>1. op'.of = op.of \cup {<<r, g>>} /\ op'.k = op.k /\ op'.at = "disarm" /\ op'.r = r
    BY <1>9 DEF Becomes
  <2>2. \A d : Unasked(d, r)'
    BY <2>1 DEF Unasked
  <2>3. ASSUME NEW p \in op'.of PROVE p \in op.of \/ (p[1] = r)
    BY <2>1
  <2>4. QuietTrue'
    <3> SUFFICES ASSUME NEW p \in op'.of, ok'[p[1]], NEW d \in SidsOf(p[2])
                 PROVE  Unasked(d, p[1])' \/ (~dev'[d].bme /\ <<d, p[1]>> \notin flight')
      BY DEF QuietTrue, SidsOf
    <3>1. CASE p \in op.of
      BY <1>2, <1>5, <1>6, <3>1
    <3>2. CASE p[1] = r
      BY <2>2, <3>2
    <3> QED BY <2>3, <3>1, <3>2
  <2> QED BY <1>5, <1>7, <2>1, <2>3, <2>4
<1> QED BY <1>1, <1>8, <1>9

\* Disarming and flushing: a device that has confirmed is no bus master, and its writes are in.
LEMMA StillVerdicts ==
  ASSUME Base, DepthsTrue, HeldStill, VerdictsTrue, NoneHangsBeneath,
         NEW d \in Devices, Disarm(d) \/ Flush(d)
  PROVE  /\ QuietTrue'
         /\ op'.k = "detach" => Detaching /\ \A p \in op'.of : ok'[p[1]]
<1>0. DmaTypeOK /\ OpKept /\ DmaAssumption
  BY DEF Base
<1>1. op.at \in {"disarm", "flush"} /\ d \in op.devs
  BY <1>0, DisarmDoes, FlushDoes
<1>2. TearDown /\ Marking
  BY <1>0, <1>1, OpFields DEF OpKept, TearDown, Marking, None, Idle
<1>3. PICK g \in Groups : <<op.r, g>> \in op.of /\ op.devs \subseteq SidsOf(g) /\ GroupOf[d] = g
  BY <1>0, <1>1, SidsApart DEF OpKept
<1>4. ASSUME NEW p \in op.of
      PROVE  /\ p[1] \in Regions /\ op.r \in Regions /\ (p[1] = op.r => p[2] = g)
             /\ ok[p[1]] => \A x \in SidsOf(p[2]) :
                  Unasked(x, p[1]) \/ (~dev[x].bme /\ <<x, p[1]>> \notin flight)
  <2>1. p[1] \in Regions /\ op.r \in Regions /\ (p[1] = op.r => p[2] = g)
    BY <1>0, <1>3, OpFields DEF OpKept
  <2> QED BY <1>2, <2>1 DEF VerdictsTrue, QuietTrue
<1>5. op.k = "detach" => Detaching /\ \A p \in op.of : ok[p[1]]
  BY DEF VerdictsTrue
<1>6. CASE Disarm(d)
  <2>1. /\ op'.k = op.k /\ op'.of = op.of /\ op'.r = op.r /\ op.at = "disarm"
        /\ ok' = ok /\ flight' = flight
        /\ \/ op'.at = "flush" /\ op'.devs = SidsOf(g)
           \/ op'.at = "disarm"
    BY <1>0, <1>3, <1>6, DisarmDoes DEF Becomes
  <2>2. \A x \in Devices : dev'[x].bme => dev[x].bme
    BY <1>0, <1>6, DisarmDevs DEF DevsKept
  <2>3. QuietTrue'
    <3> SUFFICES ASSUME NEW p \in op'.of, ok'[p[1]], NEW x \in SidsOf(p[2])
                 PROVE  Unasked(x, p[1])' \/ (~dev'[x].bme /\ <<x, p[1]>> \notin flight')
      BY DEF QuietTrue, SidsOf
    <3>1. CASE p[1] = op.r
      BY <1>4, <2>1, <3>1 DEF Unasked
    <3>2. CASE p[1] # op.r
      <4>1. ~dev[x].bme /\ <<x, p[1]>> \notin flight
        BY <1>4, <2>1, <3>2 DEF Unasked
      <4> QED BY <2>1, <2>2, <4>1 DEF SidsOf
    <3> QED BY <3>1, <3>2
  <2> QED BY <1>5, <2>1, <2>3
<1>7. CASE Flush(d)
  <2>1. /\ op'.k = op.k /\ op'.of = op.of /\ op'.r = op.r /\ op.at = "flush" /\ dev' = dev
        /\ flight' = IF dev[d].hung THEN flight ELSE {w \in flight : w[1] # d}
        /\ ok' = [ok EXCEPT ![op.r] = @ /\ ~dev[d].hung /\ ~dev[d].bme]
        /\ \/ op'.at = "pick" /\ op.devs = {d}
           \/ op'.at = "flush" /\ op'.devs = op.devs \ {d}
    BY <1>0, <1>7, FlushDoes DEF Becomes
  <2>2. /\ \A q \in Regions : q # op.r => ok'[q] = ok[q]
        /\ op.r \in Regions => (ok'[op.r] <=> ok[op.r] /\ ~dev[d].hung /\ ~dev[d].bme)
    BY <1>0, <2>1 DEF DmaTypeOK
  <2>3. flight' \subseteq flight
    BY <2>1
  <2>4. QuietTrue'
    <3> SUFFICES ASSUME NEW p \in op'.of, ok'[p[1]], NEW x \in SidsOf(p[2])
                 PROVE  Unasked(x, p[1])' \/ (~dev'[x].bme /\ <<x, p[1]>> \notin flight')
      BY DEF QuietTrue, SidsOf
    <3>0. p \in op.of /\ p[1] \in Regions /\ ok[p[1]]
      BY <1>4, <2>1, <2>2
    <3>1. CASE p[1] = op.r /\ x = d
      <4>1. ~dev[d].hung /\ ~dev[d].bme
        BY <1>4, <2>2, <3>0, <3>1
      <4>2. <<x, p[1]>>[1] = d
        BY <3>1
      <4> QED BY <2>1, <3>1, <4>1, <4>2
    <3>2. CASE p[1] # op.r \/ (x # d /\ x \notin op.devs)
      <4>1. ~Unasked(x, p[1])
        BY <2>1, <3>2 DEF Unasked
      <4>2. ~dev[x].bme /\ <<x, p[1]>> \notin flight
        BY <1>4, <3>0, <4>1
      <4> QED BY <2>1, <2>3, <4>2
    <3>3. CASE p[1] = op.r /\ x # d /\ x \in op.devs
      BY <2>1, <3>3 DEF Unasked
    <3> QED BY <3>1, <3>2, <3>3
  <2>5. ASSUME op.k = "detach" PROVE Detaching /\ \A p \in op'.of : ok'[p[1]]
    <3>1. ~dev[d].hung
      BY <1>5, <2>5 DEF VerdictsTrue, NoneHangsBeneath
    <3>2. ~dev[d].bme
      BY <1>1, <2>1, <3>1, FlushedStill
    <3> QED BY <1>4, <1>5, <2>1, <2>2, <2>5, <3>1, <3>2
  <2> QED BY <2>1, <2>4, <2>5
<1> QED BY <1>6, <1>7

\* Every step keeps the verdicts true.
LEMMA NextVerdicts ==
  ASSUME Base, DepthsTrue, HeldStill, TablesTrue, VerdictsTrue, NoneHangsBeneath, AttachComplete,
         [DmaNext]_dmaVars
  PROVE  VerdictsTrue'
<1>s. \A B \in SUBSET Regions : ~finalize_silent(B)
  BY DEF AttachComplete, finalize_silent
<1>0. DmaTypeOK /\ OpKept /\ DmaAssumption /\ QuietTrue
  BY DEF Base, VerdictsTrue
<1>h. \A d \in Devices : dev'[d].hung => d \in MayHang
  BY NextHung DEF VerdictsTrue
<1>5. op.k = "detach" => Detaching /\ \A p \in op.of : ok[p[1]]
  BY DEF VerdictsTrue
<1>p. \A p \in op.of : p[1] \in Regions /\ p[1] \in op.batch /\ TearDown
  BY <1>0, OpFields DEF OpKept
<1> DEFINE Goal == /\ QuietTrue'
                   /\ op'.k = "detach" => Detaching /\ \A p \in op'.of : ok'[p[1]]
<1>1. ASSUME NEW d \in Devices, NEW r \in Regions, Write(d, r) PROVE Goal
  <2>1. /\ op' = op /\ ok' = ok /\ dev' = dev /\ dev[d].bme
        /\ flight' = flight \cup {<<d, r>>}
    BY <1>1 DEF Write
  <2>2. \A w \in flight' : w \in flight \/ (w[1] \in Devices /\ dev[w[1]].bme)
    BY <2>1
  <2>3. QuietTrue'
    BY <1>0, <2>1, <2>2, QuietSame
  <2> QED BY <1>5, <2>1, <2>3
<1>2. ASSUME \/ \E d \in Devices : Hang(d)
             \/ \E w \in flight : Land(w)
             \/ \E r \in Regions : cap_delete(r) \/ alloc_dma_region(r)
             \/ UNCHANGED dmaVars
      PROVE  Goal
  <2>1. op' = op /\ ok' = ok /\ flight' \subseteq flight
    BY <1>2 DEF Hang, Land, cap_delete, alloc_dma_region, dmaVars
  <2>2. \A d \in Devices : dev'[d].bme => dev[d].bme
    <3>1. ASSUME NEW x \in Devices, Hang(x) PROVE \A d \in Devices : dev'[d].bme => dev[d].bme
      BY <1>0, <3>1, HangDoes DEF DevsKept
    <3>2. CASE dev' = dev
      BY <3>2
    <3> QED BY <1>2, <3>1, <3>2 DEF Land, cap_delete, alloc_dma_region, dmaVars
  <2>3. QuietTrue'
    BY <1>0, <2>1, <2>2, QuietSame
  <2> QED BY <1>5, <2>1, <2>3
<1>3. ASSUME NEW r \in Regions, dma_finalize(r) PROVE Goal
  <2>1. op' = op /\ dev' = dev /\ flight' = flight /\ ok' = [ok EXCEPT ![r] = FALSE]
        /\ region[r] = "judged"
    BY <1>3 DEF dma_finalize
  <2>2. /\ \A q \in Regions : ok'[q] => ok[q]
        /\ \A q \in Regions : q # r => ok'[q] = ok[q]
    BY <1>0, <2>1 DEF DmaTypeOK
  <2>3. QuietTrue'
    BY <1>0, <2>1, <2>2, QuietSame
  <2>4. \A p \in op.of : p[1] # r
    BY <1>p, <2>1 DEF TablesTrue, Batched
  <2> QED BY <1>5, <1>p, <2>1, <2>2, <2>3, <2>4
<1>4. ASSUME NEW d \in Devices, NEW r \in Regions, attach(d, r) PROVE Goal
  <2>1. op'.k \in {"attach", "idle"}
    BY <1>0, <1>4, AttachDoes DEF Becomes, IdleNow
  <2> QED BY <2>1, QuietLater DEF TearDown
<1>6. ASSUME AttachFull \/ AttachContext \/ AttachArm \/ AttachSync PROVE Goal
  <2>1. op.k = "attach"
    BY <1>6 DEF AttachFull, AttachContext, AttachArm, AttachSync, At
  <2>2. op' = Idle \/ Goto("arm") \/ Goto("sync")
    BY <1>6 DEF AttachFull, AttachContext, AttachArm, AttachSync
  <2>3. op'.k \in {"attach", "idle"}
    BY <1>0, <2>1, <2>2, GotoDoes, IdleDoes DEF IdleNow, Becomes
  <2> QED BY <2>3, QuietLater DEF TearDown
<1>7. ASSUME NEW r \in Regions, detach(r) PROVE Goal
  <2>1. op'.of = {} /\ Detaching
    BY <1>0, <1>7, BatchDoes DEF Becomes
  <2> QED BY <2>1, QuietLater
<1>8. ASSUME NEW B \in SUBSET Regions, finalize(B) PROVE Goal
  <2>1. op'.of = {} /\ op'.k = "finalize"
    BY <1>0, <1>8, FinalizeDoes DEF Becomes
  <2> QED BY <2>1, QuietLater
<1>9. ASSUME FindContext PROVE Goal
  BY <1>9, FindVerdicts
<1>10. ASSUME NEW d \in Devices, Disarm(d) \/ Flush(d) PROVE Goal
  BY <1>10, StillVerdicts
<1>11. ASSUME Unmap PROVE Goal
  <2>1. op.at = "pick" /\ op'.k = op.k /\ op'.of = op.of /\ UNCHANGED <<dev, flight, ok>>
    BY <1>0, <1>11, UnmapDoes DEF Becomes
  <2>2. TearDown /\ Marking
    BY <1>0, <2>1, OpFields DEF OpKept, TearDown, Marking, None, Idle
  <2>3. \A p \in op.of : ok[p[1]] =>
          \A d \in SidsOf(p[2]) : ~dev[d].bme /\ <<d, p[1]>> \notin flight
    BY <1>0, <2>1, <2>2 DEF QuietTrue, Unasked
  <2>4. QuietTrue'
    BY <2>1, <2>3 DEF QuietTrue, SidsOf
  <2> QED BY <1>5, <2>1, <2>4
<1>12. ASSUME Sync PROVE Goal
  <2>1. op'.at = "release" /\ op'.k = op.k /\ op'.of = op.of /\ ok' = ok
    BY <1>0, <1>12, SyncDoes DEF Becomes, Sync
  <2> QED BY <1>5, <2>1, QuietLater
<1>13. ASSUME NEW r \in Regions, Release(r) PROVE Goal
  <2>1. op'.at \in {"release", "clear"} /\ op'.k = op.k /\ op'.of = op.of /\ ok' = ok
    BY <1>0, <1>13, ReleaseDoes DEF Becomes
  <2> QED BY <1>5, <2>1, QuietLater
<1>14. ASSUME ClearEntries \/ FreeTables PROVE Goal
  <2>1. (Goto("free") \/ Goto("release")) /\ ok' = ok
    BY <1>14 DEF ClearEntries, FreeTables
  <2>2. op'.at \in {"release", "free"} /\ op'.k = op.k /\ op'.of = op.of
    BY <1>0, <2>1, GotoDoes DEF Becomes
  <2> QED BY <1>5, <2>1, <2>2, QuietLater
<1>15. ASSUME Done PROVE Goal
  <2>1. op'.k = "idle" /\ op'.of = {}
    BY <1>15, IdleFields DEF Done
  <2> QED BY <2>1, QuietLater
<1>16. Goal
  BY <1>s, <1>1, <1>2, <1>3, <1>4, <1>6, <1>7, <1>8, <1>9, <1>10, <1>11, <1>12, <1>13, <1>14,
     <1>15 DEF DmaNext
<1> QED BY <1>h, <1>16 DEF VerdictsTrue

-----------------------------------------------------------------------------
(* Writes under way.                                                       *)

\* A write goes through a translation that is not about to be confirmed.
LEMMA WriteFlights ==
  ASSUME Base, TablesTrue, VerdictsTrue, FlightsTrue, NEW d \in Devices, NEW r \in Regions,
         Write(d, r)
  PROVE  FlightsTrue'
<1>0. DmaTypeOK /\ OpKept /\ DmaAssumption /\ GroupOf[d] \in Groups
  BY DEF Base, DmaAssumption
<1>1. /\ UNCHANGED <<slpt, region, ok, op>> /\ dev[d].bme /\ flight' = flight \cup {<<d, r>>}
      /\ r \in iotlb[GroupOf[d]] \/ r \in slpt[GroupOf[d]]
  BY DEF Write
<1>2. Bound(d, r)
  <2> SUFFICES ASSUME r \notin slpt[GroupOf[d]] PROVE Bound(d, r)
    BY DEF Bound
  <2>1. TearDown /\ op.at = "sync" /\ <<r, GroupOf[d]>> \in op.of
    BY <1>0, <1>1 DEF TablesTrue, Cached
  <2>2. r \in op.batch
    BY <1>0, <2>1 DEF OpKept
  <2>3. d \in SidsOf(GroupOf[d]) /\ ~Unasked(d, r)
    BY <2>1 DEF SidsOf, Unasked
  <2>4. ~ok[r]
    BY <1>1, <2>1, <2>3 DEF VerdictsTrue, QuietTrue
  <2>5. op.k # "detach"
    BY <2>1, <2>4 DEF VerdictsTrue
  <2> QED BY <2>1, <2>2, <2>4, <2>5 DEF Bound, TearDown, Unmapped
<1>3. \A x \in Devices, q \in Regions : Bound(x, q) => Bound(x, q)'
  BY <1>1 DEF Bound, Unmapped, TearDown
<1> QED BY <1>1, <1>2, <1>3 DEF FlightsTrue, Bound

\* The others of the devices, and of the regions.
LEMMA AloneFlights ==
  ASSUME Base, TablesTrue, FlightsTrue,
         \/ \E d \in Devices : Hang(d)
         \/ \E w \in flight : Land(w)
         \/ \E r \in Regions : cap_delete(r) \/ dma_finalize(r) \/ alloc_dma_region(r)
         \/ UNCHANGED dmaVars
  PROVE  FlightsTrue'
<1>0. DmaTypeOK /\ OpKept
  BY DEF Base
<1>1. UNCHANGED <<slpt, op>> /\ flight' \subseteq flight
  BY DEF Hang, Land, cap_delete, dma_finalize, alloc_dma_region, dmaVars
<1>2. ASSUME NEW d \in Devices, NEW q \in Regions, Bound(d, q) PROVE Bound(d, q)'
  <2>1. CASE UNCHANGED <<region, ok>>
    BY <1>1, <1>2, <2>1 DEF Bound, Unmapped, TearDown
  <2>2. ASSUME NEW r \in Regions, cap_delete(r) \/ alloc_dma_region(r) PROVE Bound(d, q)'
    <3>1. PICK v : region' = [region EXCEPT ![r] = v] /\ ok' = ok
      BY <2>2 DEF cap_delete, alloc_dma_region
    <3>2. region[r] \in {"new", "owned", "free"}
      BY <2>2 DEF cap_delete, alloc_dma_region
    <3>3. CASE q # r
      <4>1. region'[q] = region[q]
        BY <1>0, <3>1, <3>3 DEF DmaTypeOK
      <4> QED BY <1>1, <1>2, <3>1, <4>1 DEF Bound, Unmapped, TearDown
    <3>4. CASE q = r
      BY <1>1, <1>2, <3>1, <3>2, <3>4 DEF Bound, Unmapped, TearDown
    <3> QED BY <3>3, <3>4
  <2>3. ASSUME NEW r \in Regions, dma_finalize(r) PROVE Bound(d, q)'
    <3>0. region[r] = "judged" /\ ok' = [ok EXCEPT ![r] = FALSE]
      BY <2>3 DEF dma_finalize
    <3>1. PICK v \in {"free", "pending", "leaked"} :
            region' = [region EXCEPT ![r] = v] /\ (~ok[r] => v # "free")
      BY <2>3 DEF dma_finalize
    <3>2. CASE q # r
      <4>1. region'[q] = region[q] /\ ok'[q] = ok[q]
        BY <1>0, <3>0, <3>1, <3>2 DEF DmaTypeOK
      <4> QED BY <1>1, <1>2, <4>1 DEF Bound, Unmapped, TearDown
    <3>3. CASE q = r
      <4>1. region'[r] = v
        BY <1>0, <3>1 DEF DmaTypeOK
      <4>2. TearDown => r \notin op.batch
        BY <3>0 DEF TablesTrue, Batched
      <4> QED BY <1>1, <1>2, <3>0, <3>1, <3>3, <4>1, <4>2 DEF Bound, Unmapped
    <3> QED BY <3>2, <3>3
  <2> QED BY <2>1, <2>2, <2>3 DEF Hang, Land, dmaVars
<1> QED BY <1>1, <1>2 DEF FlightsTrue, Bound

\* attach translates more, and the beginning of a teardown changes no translation.
LEMMA BeginFlights ==
  ASSUME Base, TablesTrue, FlightsTrue,
         \/ \E d \in Devices, r \in Regions : attach(d, r)
         \/ AttachFull \/ AttachContext \/ AttachArm \/ AttachSync
         \/ (\E r \in Regions : detach(r)) \/ (\E B \in SUBSET Regions : finalize(B))
  PROVE  FlightsTrue'
<1>0. DmaTypeOK /\ OpKept /\ DmaAssumption
  BY DEF Base
<1>1. op = Idle \/ op.k = "attach"
  BY DEF attach, AttachFull, AttachContext, AttachArm, AttachSync, detach, finalize, At
<1>2. op.k # "finalize"
  BY <1>1, IdleFields
<1>3. ASSUME NEW x \in Devices, NEW r \in Regions, attach(x, r) PROVE FlightsTrue'
  <2>1. /\ flight' = flight /\ ok' = ok /\ region[r] = "new"
        /\ region' = [region EXCEPT ![r] = "owned"]
        /\ slpt' = [slpt EXCEPT ![GroupOf[x]] = @ \cup {r}]
    BY <1>3 DEF attach
  <2>2. \A g \in Groups : slpt[g] \subseteq slpt'[g]
    BY <1>0, <2>1 DEF DmaTypeOK
  <2>3. ASSUME NEW d \in Devices, NEW q \in Regions, Bound(d, q) PROVE Bound(d, q)'
    <3>1. GroupOf[d] \in Groups
      BY <1>0 DEF DmaAssumption
    <3>2. CASE q \in slpt[GroupOf[d]]
      BY <2>2, <3>1, <3>2 DEF Bound
    <3>3. CASE q \notin slpt[GroupOf[d]]
      <4>1. q # r
        BY <1>2, <2>1, <2>3, <3>3 DEF Bound
      <4>2. region'[q] = region[q]
        BY <1>0, <2>1, <4>1 DEF DmaTypeOK
      <4> QED BY <1>2, <2>1, <2>3, <3>3, <4>2 DEF Bound
    <3> QED BY <3>2, <3>3
  <2> QED BY <2>1, <2>3 DEF FlightsTrue, Bound
<1>4. CASE \/ AttachContext \/ AttachArm \/ AttachSync
           \/ (\E r \in Regions : detach(r)) \/ (\E B \in SUBSET Regions : finalize(B))
  <2>1. UNCHANGED <<slpt, region, ok, flight>>
    BY <1>4 DEF AttachContext, AttachArm, AttachSync, detach, finalize
  <2> QED BY <1>2, <2>1 DEF FlightsTrue, Bound
<1>5. ~AttachFull
  BY DEF AttachFull, At, TablesTrue, Batched
<1> QED BY <1>3, <1>4, <1>5

\* The first phases: verdicts are given for regions whose translation still stands.
LEMMA MarkFlights ==
  ASSUME Base, TablesTrue, FlightsTrue, FindContext \/ \E d \in Devices : Disarm(d) \/ Flush(d)
  PROVE  FlightsTrue'
<1>0. DmaTypeOK /\ OpKept
  BY DEF Base
<1>1. op.at \in {"pick", "disarm", "flush"} /\ UNCHANGED <<slpt, region>>
  BY DEF FindContext, Disarm, Flush
<1>2. TearDown /\ ~Unmapped
  BY <1>0, <1>1, OpFields DEF OpKept, TearDown, Unmapped, None, Idle
<1>3. flight' \subseteq flight
  BY DEF FindContext, Disarm, Flush
<1>4. ASSUME NEW q \in Regions, region[q] = "judged" PROVE ok'[q] => ok[q]
  <2>1. q \notin op.batch
    BY <1>2, <1>4 DEF TablesTrue, Batched
  <2>2. CASE FindContext
    <3>1. PICK r \in op.todo : ok' = [ok EXCEPT ![r] = TRUE]
      BY <1>0, <2>2, FindDoes
    <3>2. r # q
      BY <1>0, <1>2, <2>1 DEF OpKept
    <3> QED BY <1>0, <3>1, <3>2 DEF DmaTypeOK
  <2>3. ASSUME NEW d \in Devices, Flush(d) PROVE ok'[q] => ok[q]
    <3>1. ok' = [ok EXCEPT ![op.r] = @ /\ ~dev[d].hung /\ ~dev[d].bme]
      BY <2>3 DEF Flush
    <3> QED BY <1>0, <3>1 DEF DmaTypeOK
  <2>4. ASSUME NEW d \in Devices, Disarm(d) PROVE ok'[q] => ok[q]
    BY <2>4 DEF Disarm
  <2> QED BY <2>2, <2>3, <2>4
<1> QED BY <1>1, <1>2, <1>3, <1>4 DEF FlightsTrue, Bound

\* Unmapping: a region with writes under way has no good verdict.
LEMMA UnmapFlights ==
  ASSUME Base, TablesTrue, VerdictsTrue, FlightsTrue, Unmap
  PROVE  FlightsTrue'
<1>0. DmaTypeOK /\ OpKept /\ DmaAssumption
  BY DEF Base
<1>1. /\ op.at = "pick" /\ UNCHANGED <<flight, region, ok>>
      /\ op'.k = op.k /\ op'.at = "sync" /\ op'.batch = op.batch
      /\ \A g \in Groups : slpt'[g] = slpt[g] \ {r \in op.batch : <<r, g>> \in op.of}
  BY <1>0, UnmapDoes DEF Becomes
<1>2. TearDown /\ Marking /\ ~Unmapped
  BY <1>0, <1>1, OpFields DEF OpKept, TearDown, Marking, Unmapped, None, Idle
<1>3. ASSUME NEW d \in Devices, NEW r \in Regions, <<d, r>> \in flight, r \in slpt[GroupOf[d]],
             r \notin slpt'[GroupOf[d]]
      PROVE  op.k = "finalize" /\ r \in op.batch /\ ~ok[r]
  <2>1. GroupOf[d] \in Groups
    BY <1>0 DEF DmaAssumption
  <2>2. r \in op.batch /\ <<r, GroupOf[d]>> \in op.of
    BY <1>1, <1>3, <2>1
  <2>3. d \in SidsOf(GroupOf[d]) /\ ~Unasked(d, r)
    BY <1>1 DEF SidsOf, Unasked
  <2>4. ~ok[r]
    BY <1>2, <1>3, <2>2, <2>3 DEF VerdictsTrue, QuietTrue
  <2>5. op.k # "detach"
    BY <2>2, <2>4 DEF VerdictsTrue
  <2> QED BY <1>2, <2>2, <2>4, <2>5 DEF TearDown
<1>4. op.k = "finalize" => Unmapped'
  BY <1>1 DEF Unmapped, TearDown
<1> QED BY <1>1, <1>2, <1>3, <1>4 DEF FlightsTrue, Bound

\* The later phases leave regions without a good verdict so.
LEMMA LateFlights ==
  ASSUME Base, TablesTrue, FlightsTrue,
         Sync \/ (\E r \in Regions : Release(r)) \/ ClearEntries \/ FreeTables \/ Done
  PROVE  FlightsTrue'
<1>0. DmaTypeOK /\ OpKept /\ DmaAssumption
  BY DEF Base
<1>1. CASE Sync \/ (\E r \in Regions : Release(r)) \/ ClearEntries \/ FreeTables
  <2>1. UNCHANGED <<flight, region, ok>>
    BY <1>1 DEF Sync, Release, ClearEntries, FreeTables
  <2>2. op'.k = op.k /\ op'.batch = op.batch /\ op'.at \in {"release", "clear", "free"}
    <3>1. CASE Sync
      BY <1>0, <3>1, SyncDoes DEF Becomes
    <3>2. CASE \E r \in Regions : Release(r)
      BY <1>0, <3>2, ReleaseDoes DEF Becomes
    <3>3. CASE ClearEntries \/ FreeTables
      <4>1. Goto("free") \/ Goto("release")
        BY <3>3 DEF ClearEntries, FreeTables
      <4> QED BY <1>0, <4>1, GotoDoes DEF Becomes
    <3> QED BY <1>1, <3>1, <3>2, <3>3
  <2>3. \A g \in Groups : slpt[g] \subseteq slpt'[g]
    <3>1. CASE FreeTables
      <4>1. op.r \in Groups /\ op.at = "free" /\ slpt' = [slpt EXCEPT ![op.r] = {}]
        BY <1>0, <3>1 DEF FreeTables, OpKept
      <4>2. slpt[op.r] = {}
        BY <4>1 DEF TablesTrue, Batched, Entered
      <4> QED BY <1>0, <4>1, <4>2 DEF DmaTypeOK
    <3>2. CASE slpt' = slpt
      BY <3>2
    <3> QED BY <1>1, <3>1, <3>2 DEF Sync, Release, ClearEntries
  <2>4. op.k = "finalize" => Unmapped'
    BY <2>2 DEF Unmapped, TearDown
  <2>5. \A d \in Devices : GroupOf[d] \in Groups
    BY <1>0 DEF DmaAssumption
  <2> QED BY <2>1, <2>2, <2>3, <2>4, <2>5 DEF FlightsTrue, Bound
<1>2. CASE Done
  <2>1. /\ UNCHANGED <<slpt, flight, ok>> /\ op.at = "release"
        /\ region' = IF op.k = "detach" THEN region
                     ELSE [r \in Regions |-> IF r \in op.batch THEN "judged" ELSE region[r]]
    BY <1>2 DEF Done
  <2>2. TearDown
    BY <1>0, <2>1, OpFields DEF OpKept, TearDown, None, Idle
  <2>3. ASSUME NEW d \in Devices, NEW r \in Regions, Bound(d, r) PROVE Bound(d, r)'
    <3>1. CASE op.k = "detach"
      BY <2>1, <2>3, <3>1 DEF Bound
    <3>2. CASE op.k # "detach" /\ r \in op.batch
      <4>1. region'[r] = "judged" /\ region[r] = "dying"
        BY <2>1, <2>2, <3>2 DEF TablesTrue, Batched
      <4> QED BY <2>1, <2>3, <4>1 DEF Bound
    <3>3. CASE op.k # "detach" /\ r \notin op.batch
      <4>1. region'[r] = region[r]
        BY <2>1, <3>3
      <4> QED BY <2>1, <2>3, <3>3, <4>1 DEF Bound
    <3> QED BY <3>1, <3>2, <3>3
  <2> QED BY <2>1, <2>3 DEF FlightsTrue, Bound
<1> QED BY <1>1, <1>2

\* Every step keeps the writes under way where they belong.
LEMMA NextFlights ==
  ASSUME Base, AttachComplete, TablesTrue, VerdictsTrue, FlightsTrue, [DmaNext]_dmaVars
  PROVE  FlightsTrue'
<1>1. \A B \in SUBSET Regions : ~finalize_silent(B)
  BY DEF AttachComplete, finalize_silent
<1> QED BY <1>1, WriteFlights, AloneFlights, BeginFlights, MarkFlights, UnmapFlights, LateFlights DEF DmaNext

-----------------------------------------------------------------------------
(* The theorem.                                                            *)

DmaInv ==
  /\ Base /\ Served /\ DepthsTrue
  /\ AttachComplete => TablesTrue
  /\ AttachComplete /\ NoneHangsBeneath => VerdictsTrue /\ FlightsTrue

\* The invariant holds at the beginning.
LEMMA InitDma ==
  ASSUME DmaAssumption, DmaInit
  PROVE  DmaInv
<1>1. \A d \in Devices : dev[d] = [bme |-> FALSE, hung |-> FALSE, saved |-> FALSE, depth |-> 0,
                                   armed |-> FALSE]
  BY DEF DmaInit
<1>2. dev \in [Devices -> Dev]
  BY DEF DmaInit, Dev
<1>3. ctx \in [Groups -> Ctx] /\ \A g \in Groups : ctx[g].regs = {}
  BY DEF DmaInit, Ctx, EMPTY
<1>4. op = Idle /\ op.k = "idle" /\ op.at = None /\ op.of = {} /\ op \in Op
  BY IdleFields DEF DmaInit
<1>5. DmaTypeOK
  BY <1>2, <1>3, <1>4 DEF DmaInit, DmaTypeOK, Places
<1>6. OpKept
  BY <1>4 DEF OpKept, TearDown, Marking, None
<1>7. Served
  BY <1>1 DEF Served, ArmedServed, HeldStill
<1>8. DepthsTrue
  BY <1>1, <1>4 DEF DepthsTrue, TearDown, Marking, None
<1>9. slpt = [g \in Groups |-> {}] /\ iotlb = [g \in Groups |-> {}] /\ flight = {}
  BY DEF DmaInit
<1>10. Entered
  BY <1>3, <1>9 DEF Entered
<1>11. Cached
  BY <1>9 DEF Cached
<1>12. Batched
  BY <1>4 DEF Batched, TearDown, Marking, Unmapped, None
<1>13. VerdictsTrue /\ FlightsTrue
  BY <1>1, <1>4, <1>9 DEF VerdictsTrue, QuietTrue, FlightsTrue
<1> QED BY <1>5, <1>6, <1>7, <1>8, <1>10, <1>11, <1>12, <1>13 DEF DmaInv, Base, TablesTrue

\* Types hold, the lock has one holder, and quiesce_depth counts what it should (VtdEnforcer).
THEOREM DmaInvariant ==
  ASSUME DmaAssumption
  PROVE  DmaSpec => []DmaInv
<1>1. DmaInit => DmaInv
  BY InitDma
<1>2. DmaInv /\ [DmaNext]_dmaVars => DmaInv'
  <2> SUFFICES ASSUME DmaInv, [DmaNext]_dmaVars PROVE DmaInv'
    OBVIOUS
  <2>1. Base' /\ Served' /\ DepthsTrue'
    BY NextBase, NextServed, NextDepths DEF DmaInv
  <2>2. ASSUME AttachComplete PROVE TablesTrue'
    BY <2>2, NextTables DEF DmaInv
  <2>3. ASSUME AttachComplete, NoneHangsBeneath PROVE VerdictsTrue' /\ FlightsTrue'
    BY <2>3, NextVerdicts, NextFlights DEF DmaInv, Served
  <2>4. (AttachComplete' <=> AttachComplete) /\ (NoneHangsBeneath' <=> NoneHangsBeneath)
    BY DEF AttachComplete, NoneHangsBeneath
  <2> QED BY <2>1, <2>2, <2>3, <2>4 DEF DmaInv
<1> QED BY <1>1, <1>2, PTL DEF DmaSpec

\* The teardown of DMA regions is sound for any devices, groups and regions: between operations an
\* armed device is served, whatever fails; where every attach is entered an unconfirmed region is
\* cut off; and where no region is detached beneath a device that may hang, memory comes back only
\* when no device reaches it.
THEOREM DmaTeardownSound ==
  ASSUME DmaAssumption
  PROVE  DmaSpec => []TeardownSound
<1>1. DmaInv => TeardownSound
  <2> SUFFICES ASSUME DmaInv PROVE TeardownSound
    OBVIOUS
  <2>1. StillServed
    <3> SUFFICES ASSUME op = Idle, NEW d \in Devices, dev[d].armed, ~dev[d].hung
                 PROVE  dev[d].bme
      BY DEF StillServed
    <3>1. op.at = None /\ ~TearDown
      BY IdleFields DEF TearDown
    <3>2. dev[d].depth = 0
      BY <3>1 DEF DmaInv, DepthsTrue
    <3> QED BY <3>1, <3>2 DEF DmaInv, Served, ArmedServed, None
  <2>2. ASSUME AttachComplete PROVE PendingIsolated
    BY <2>2, TranslatedHeld DEF DmaInv, PendingIsolated
  <2>3. ASSUME AttachComplete, NoneHangsBeneath PROVE NoStrayWrite
    <3>0. Base /\ TablesTrue /\ FlightsTrue
      BY <2>3 DEF DmaInv
    <3> SUFFICES ASSUME NEW r \in Regions, region[r] \in {"free", "new"}
                 PROVE  ~Translated(r) /\ ~UnderWay(r)
      BY DEF NoStrayWrite
    <3>1. ~Translated(r)
      BY <3>0, TranslatedHeld
    <3>2. ASSUME NEW d \in Devices, <<d, r>> \in flight PROVE FALSE
      <4>1. r \in slpt[GroupOf[d]] \/ (op.k = "finalize" /\ Unmapped /\ r \in op.batch)
        BY <3>0, <3>2 DEF FlightsTrue, Bound
      <4>2. r \notin slpt[GroupOf[d]]
        BY <3>0 DEF Base, DmaAssumption, TablesTrue, Entered
      <4>3. TearDown => r \notin op.batch
        BY <3>0 DEF TablesTrue, Batched
      <4> QED BY <4>1, <4>2, <4>3 DEF Unmapped
    <3> QED BY <3>1, <3>2 DEF UnderWay
  <2> QED BY <2>1, <2>2, <2>3 DEF TeardownSound, NoneHangsBeneath
<1> QED BY <1>1, DmaInvariant, PTL

-----------------------------------------------------------------------------
(* The stripes of cache colours.                                           *)

Maybe == Stripes \cup {NoStripe}
JobType == [at : {"idle", "look", "cas", "kstack", "vspace", "bind", "rest", "clear", "back",
                  "release"},
            kind : Kinds \cup {"none"}, cur : SUBSET Stripes, stripe : Maybe, cmask : Maybe,
            asid : {0} \cup Asids]
EntryType == [used : BOOLEAN, stripe : Maybe, cmask : Maybe]

StripeTypes ==
  taken \subseteq Stripes /\ vspaces \in [Asids -> EntryType] /\ job \in [Cores -> JobType]

\* The stripe in the hands of a core, and the one bound to a VSpace.
Hand(c) == IF job[c].at \in {"kstack", "vspace", "bind", "release", "back"} THEN job[c].stripe
           ELSE NoStripe
Tied(a) == IF vspaces[a].used THEN vspaces[a].stripe ELSE NoStripe

\* A VSpace that is being built or torn down is in use, and in the hands of one core.
Stages ==
  \A c \in Cores :
    /\ job[c].at \in {"bind", "rest", "clear"} =>
         job[c].asid \in Asids /\ vspaces[job[c].asid].used
    /\ job[c].at \notin {"bind", "rest", "clear"} => job[c].asid = 0
    /\ job[c].at \in {"look", "cas"} => job[c].stripe = NoStripe
    /\ job[c].at = "cas" => job[c].cur # Stripes
    /\ job[c].at = "bind" => vspaces[job[c].asid].stripe = NoStripe
    /\ \A d \in Cores : c # d /\ job[c].asid # 0 => job[c].asid # job[d].asid

\* A stripe that is taken has one owner, and no other has one.
OwnedOnce ==
  /\ \A c \in Cores : Hand(c) \in taken \cup {NoStripe}
  /\ \A a \in Asids : Tied(a) \in taken \cup {NoStripe}
  /\ \A c, d \in Cores : c # d /\ Hand(c) = Hand(d) => Hand(c) = NoStripe
  /\ \A a, b \in Asids : a # b /\ Tied(a) = Tied(b) => Tied(a) = NoStripe
  /\ \A c \in Cores, a \in Asids : Hand(c) = Tied(a) => Hand(c) = NoStripe
  /\ \A i \in taken : (\E c \in Cores : Hand(c) = i) \/ (\E a \in Asids : Tied(a) = i)

\* Stripe s goes with colours m; without a stripe they are a mother's.
Fits(s, m) == (s = m /\ s \in Stripes) \/ (s = NoStripe /\ "fork" \in Kinds)

\* The colours of a VSpace are those of its stripe, or of the one it is about to be bound to.
Masks ==
  /\ \A c \in Cores : job[c].at \in {"kstack", "vspace", "bind"} => Fits(job[c].stripe, job[c].cmask)
  /\ \A c \in Cores : job[c].at = "bind" => vspaces[job[c].asid].cmask = job[c].cmask
  /\ \A a \in Asids : vspaces[a].used /\ (\A c \in Cores : job[c].at = "bind" => job[c].asid # a) =>
       Fits(vspaces[a].stripe, vspaces[a].cmask)

ColorBase == ColorsAssumption /\ StripeTypes /\ Stages

\* No stripe has the number that stands for none.
LEMMA StripeNumbers ==
  ASSUME ColorsAssumption
  PROVE  /\ NoStripe \notin Stripes /\ Stripes \subseteq Nat
         /\ Asids \subseteq Nat /\ 0 \notin Asids
BY DEF ColorsAssumption, NoStripe, Stripes, Asids

\* pick_free finds a member: the least one.
LEMMA LeastFound ==
  ASSUME NEW S \in SUBSET Nat, S # {}
  PROVE  Min(S) \in S
<1>1. \E x \in S : \A y \in S : x <= y
  BY LeastNatural
<1> QED BY <1>1 DEF Min

\* The work of one core; the others go on as they were.
Turns(c) == job' \in [Cores -> JobType] /\ \A x \in Cores \ {c} : job'[x] = job[x]

\* The record of a core that does nothing.
LEMMA IdleJob ==
  /\ NoJob \in JobType /\ NoJob.at = "idle" /\ NoJob.asid = 0 /\ NoJob.kind = "none"
  /\ NoJob.stripe = NoStripe /\ NoJob.cmask = NoStripe /\ NoJob.cur = {}
BY DEF NoJob, JobType, Maybe

\* A core stops.
LEMMA StopDoes ==
  ASSUME StripeTypes, NEW c \in Cores, Stop(c)
  PROVE  Turns(c) /\ job'[c].at = "idle" /\ job'[c].asid = 0 /\ Hand(c)' = NoStripe
<1> DEFINE i == NoJob
<1>1. i \in JobType /\ i.at = "idle" /\ i.asid = 0
  BY IdleJob
<1>2. job' = [job EXCEPT ![c] = i]
  BY DEF Stop, Step
<1> HIDE DEF i
<1>3. Turns(c) /\ job'[c] = i
  BY <1>1, <1>2 DEF StripeTypes, Turns
<1> QED BY <1>1, <1>3 DEF Hand

\* A core goes on, and takes with it what it has.
LEMMA ColorGoto ==
  ASSUME StripeTypes, NEW c \in Cores, NEW p \in {"kstack", "vspace", "rest", "clear", "release"},
         GoOn(c, p)
  PROVE  /\ Turns(c) /\ job'[c].at = p /\ job'[c].asid = job[c].asid /\ job'[c].kind = job[c].kind
         /\ job'[c].stripe = job[c].stripe /\ job'[c].cmask = job[c].cmask
<1>1. job[c] \in JobType /\ job' = [job EXCEPT ![c].at = p]
  BY DEF StripeTypes, GoOn
<1> DEFINE e == [job[c] EXCEPT !.at = p]
<1>2. /\ e \in JobType /\ e.at = p /\ e.asid = job[c].asid /\ e.kind = job[c].kind
      /\ e.stripe = job[c].stripe /\ e.cmask = job[c].cmask
  BY <1>1 DEF JobType
<1>3. job' = [job EXCEPT ![c] = e]
  BY <1>1
<1> HIDE DEF e
<1>4. job'[c] = e /\ Turns(c)
  BY <1>2, <1>3 DEF StripeTypes, Turns
<1> QED BY <1>2, <1>4

-----------------------------------------------------------------------------
(* Four things may happen to the owners of stripes.                        *)

\* The owners of all stripes but those of core c and VSpace a.
Elsewhere(c, a) ==
  /\ \A x \in Cores \ {c} : Hand(x)' = Hand(x)
  /\ \A b \in Asids \ {a} : Tied(b)' = Tied(b)

\* Nothing, a claim, a return, or a stripe that changes hands.
LEMMA OwnedStep ==
  ASSUME ColorsAssumption, StripeTypes, OwnedOnce, NEW c \in Cores, NEW a \in Asids \cup {0},
         Elsewhere(c, a),
         \/ taken' = taken /\ Hand(c)' = Hand(c) /\ (a # 0 => Tied(a)' = Tied(a))
         \/ /\ a = 0 /\ Hand(c) = NoStripe /\ Hand(c)' \in Stripes \ taken
            /\ taken' = taken \cup {Hand(c)'}
         \/ a = 0 /\ Hand(c)' = NoStripe /\ taken' = taken \ {Hand(c)}
         \/ /\ a # 0 /\ Hand(c)' = Tied(a) /\ Tied(a)' = Hand(c) /\ taken' = taken
            /\ Hand(c) = NoStripe \/ Tied(a) = NoStripe
  PROVE  OwnedOnce'
<1>0. NoStripe \notin Stripes /\ NoStripe \notin taken /\ 0 \notin Asids
  BY StripeNumbers DEF StripeTypes
<1>1. CASE taken' = taken /\ Hand(c)' = Hand(c) /\ (a # 0 => Tied(a)' = Tied(a))
  <2>1. \A x \in Cores : Hand(x)' = Hand(x)
    BY <1>1 DEF Elsewhere
  <2>2. \A b \in Asids : Tied(b)' = Tied(b)
    BY <1>0, <1>1 DEF Elsewhere
  <2> QED BY <1>1, <2>1, <2>2 DEF OwnedOnce
<1>2. CASE /\ a = 0 /\ Hand(c) = NoStripe /\ Hand(c)' \in Stripes \ taken
           /\ taken' = taken \cup {Hand(c)'}
  <2>1. \A b \in Asids : Tied(b)' = Tied(b)
    BY <1>0, <1>2 DEF Elsewhere
  <2>2. PICK i \in Stripes \ taken : Hand(c)' = i /\ taken' = taken \cup {i} /\ i # NoStripe
    BY <1>0, <1>2
  <2>3. \A x \in Cores \ {c} : Hand(x)' = Hand(x) /\ Hand(x) # i
    BY <1>0, <2>2 DEF Elsewhere, OwnedOnce
  <2>4. \A b \in Asids : Tied(b) # i
    BY <1>0, <2>2 DEF OwnedOnce
  <2> QED BY <1>0, <1>2, <2>1, <2>2, <2>3, <2>4 DEF OwnedOnce
<1>3. CASE a = 0 /\ Hand(c)' = NoStripe /\ taken' = taken \ {Hand(c)}
  <2>1. \A b \in Asids : Tied(b)' = Tied(b)
    BY <1>0, <1>3 DEF Elsewhere
  <2>2. \A x \in Cores \ {c} : Hand(x)' = Hand(x)
    BY DEF Elsewhere
  <2>3. /\ \A b \in Asids : Tied(b) = Hand(c) => Tied(b) = NoStripe
        /\ \A x \in Cores \ {c} : Hand(x) = Hand(c) => Hand(x) = NoStripe
    BY DEF OwnedOnce
  <2>4. \A i \in taken' : (\E x \in Cores : Hand(x)' = i) \/ (\E b \in Asids : Tied(b)' = i)
    <3> SUFFICES ASSUME NEW i \in taken'
                 PROVE  (\E x \in Cores : Hand(x)' = i) \/ (\E b \in Asids : Tied(b)' = i)
      OBVIOUS
    <3>1. i \in taken /\ i # Hand(c)
      BY <1>3
    <3>2. (\E x \in Cores \ {c} : Hand(x) = i) \/ (\E b \in Asids : Tied(b) = i)
      BY <3>1 DEF OwnedOnce
    <3> QED BY <2>1, <2>2, <3>2
  <2>5. /\ \A x \in Cores : Hand(x)' \in taken' \cup {NoStripe}
        /\ \A b \in Asids : Tied(b)' \in taken' \cup {NoStripe}
    BY <1>3, <2>1, <2>2, <2>3 DEF OwnedOnce
  <2> QED BY <1>3, <2>1, <2>2, <2>4, <2>5 DEF OwnedOnce
<1>4. CASE /\ a # 0 /\ Hand(c)' = Tied(a) /\ Tied(a)' = Hand(c) /\ taken' = taken
           /\ Hand(c) = NoStripe \/ Tied(a) = NoStripe
  <2>1. \A b \in Asids \ {a} : Tied(b)' = Tied(b)
    BY DEF Elsewhere
  <2>2. \A x \in Cores \ {c} : Hand(x)' = Hand(x)
    BY DEF Elsewhere
  <2>3. a \in Asids
    BY <1>4
  <2>4. /\ \A x \in Cores : Hand(x)' \in taken' \cup {NoStripe}
        /\ \A b \in Asids : Tied(b)' \in taken' \cup {NoStripe}
    BY <1>4, <2>1, <2>2, <2>3 DEF OwnedOnce
  <2>5. \A x, y \in Cores : x # y /\ Hand(x)' = Hand(y)' => Hand(x)' = NoStripe
    BY <1>4, <2>2, <2>3 DEF OwnedOnce
  <2>6. \A x, y \in Asids : x # y /\ Tied(x)' = Tied(y)' => Tied(x)' = NoStripe
    BY <1>4, <2>1, <2>3 DEF OwnedOnce
  <2>7. \A x \in Cores, b \in Asids : Hand(x)' = Tied(b)' => Hand(x)' = NoStripe
    <3> SUFFICES ASSUME NEW x \in Cores, NEW b \in Asids, Hand(x)' = Tied(b)'
                 PROVE  Hand(x)' = NoStripe
      OBVIOUS
    <3>1. CASE x = c /\ b = a
      BY <1>4, <3>1
    <3>2. CASE x = c /\ b # a
      <4>1. Hand(x)' = Tied(a) /\ Tied(b)' = Tied(b)
        BY <1>4, <2>1, <3>2
      <4>2. Tied(a) = Tied(b)
        BY <4>1
      <4>3. Tied(a) = NoStripe
        BY <2>3, <3>2, <4>2 DEF OwnedOnce
      <4> QED BY <4>1, <4>3
    <3>3. CASE x # c /\ b = a
      <4>1. Hand(x)' = Hand(x) /\ Tied(b)' = Hand(c)
        BY <1>4, <2>2, <3>3
      <4> QED BY <3>3, <4>1 DEF OwnedOnce
    <3>4. CASE x # c /\ b # a
      <4>1. Hand(x)' = Hand(x) /\ Tied(b)' = Tied(b)
        BY <2>1, <2>2, <3>4
      <4> QED BY <4>1 DEF OwnedOnce
    <3> QED BY <3>1, <3>2, <3>3, <3>4
  <2>8. \A i \in taken' : (\E x \in Cores : Hand(x)' = i) \/ (\E b \in Asids : Tied(b)' = i)
    <3> SUFFICES ASSUME NEW i \in taken
                 PROVE  (\E x \in Cores : Hand(x)' = i) \/ (\E b \in Asids : Tied(b)' = i)
      BY <1>4
    <3>1. CASE \E x \in Cores : Hand(x) = i
      BY <1>4, <2>2, <2>3, <3>1
    <3>2. CASE \E b \in Asids : Tied(b) = i
      BY <1>4, <2>1, <2>3, <3>2
    <3> QED BY <3>1, <3>2 DEF OwnedOnce
  <2> QED BY <2>4, <2>5, <2>6, <2>7, <2>8 DEF OwnedOnce
<1> QED BY <1>1, <1>2, <1>3, <1>4

-----------------------------------------------------------------------------
(* The steps of a core.                                                    *)

\* A step that leaves the VSpaces, and gives its core another place.
LEMMA PlaceStages ==
  ASSUME ColorBase, NEW c \in Cores, Turns(c), vspaces' = vspaces,
         job'[c].at \in {"look", "cas"} => job'[c].stripe = NoStripe,
         \/ job'[c].at \notin {"bind", "rest", "clear", "cas"} /\ job'[c].asid = 0
         \/ job'[c].at = "cas" /\ job'[c].asid = 0 /\ job'[c].cur # Stripes
         \/ job[c].at = "rest" /\ job'[c].at = "clear" /\ job'[c].asid = job[c].asid
  PROVE  Stages'
<1>1. \A x \in Cores : x # c => job'[x] = job[x]
  BY DEF Turns
<1>2. Stages /\ job'[c].asid \in {0, job[c].asid}
  BY DEF ColorBase
<1> QED BY <1>1, <1>2 DEF Stages

\* The work of core c changes the hands of no other.
LEMMA HandsElsewhere ==
  ASSUME NEW c \in Cores, Turns(c), NEW a,
         \A b \in Asids \ {a} : vspaces'[b] = vspaces[b]
  PROVE  Elsewhere(c, a)
BY DEF Turns, Elsewhere, Hand, Tied

\* A load or a fork begins, and the death of a PD.
LEMMA BeginColors ==
  ASSUME ColorBase, OwnedOnce, NEW c \in Cores,
         \/ \E kind \in Kinds, m \in Asids : begin(c, kind, m)
         \/ \E a \in Asids : die(c, a)
  PROVE  StripeTypes' /\ Stages' /\ OwnedOnce' /\ Hand(c)' = NoStripe /\ Turns(c)
         /\ UNCHANGED <<taken, vspaces>> /\ job'[c].at \in {"look", "clear"}
<1> DEFINE i == NoJob
<1>0. StripeTypes /\ Stages /\ ColorsAssumption /\ 0 \notin Asids
  BY StripeNumbers DEF ColorBase
<1>1. /\ i \in JobType /\ i.at = "idle" /\ i.asid = 0 /\ i.stripe = NoStripe
      /\ job[c] = i /\ UNCHANGED <<taken, vspaces>>
  BY IdleJob DEF begin, die
<1> HIDE DEF i
<1>2. ASSUME NEW kind \in Kinds, NEW m \in Asids, begin(c, kind, m)
      PROVE  Turns(c) /\ job'[c].at = "look" /\ job'[c].asid = 0 /\ job'[c].stripe = NoStripe
  <2>1. PICK k \in Maybe : k = IF kind = "fork" THEN vspaces[m].cmask ELSE NoStripe
    BY <1>0 DEF StripeTypes, EntryType, Maybe
  <2> DEFINE e == [i EXCEPT !.at = "look", !.kind = kind, !.cmask = k]
  <2>2. e \in JobType /\ e.at = "look" /\ e.asid = 0 /\ e.stripe = NoStripe
    BY <1>1 DEF JobType
  <2>3. job' = [job EXCEPT ![c] = e]
    BY <1>2, <2>1 DEF begin, Step, i
  <2> HIDE DEF e
  <2> QED BY <1>0, <2>2, <2>3 DEF StripeTypes, Turns
<1>3. ASSUME NEW a \in Asids, die(c, a)
      PROVE  Turns(c) /\ job'[c].at = "clear" /\ job'[c].asid = a /\ Runs(a)
  <2> DEFINE e == [i EXCEPT !.at = "clear", !.asid = a]
  <2>2. e \in JobType /\ e.at = "clear" /\ e.asid = a
    BY <1>1 DEF JobType
  <2>3. job' = [job EXCEPT ![c] = e] /\ Runs(a)
    BY <1>3 DEF die, Step, i
  <2> HIDE DEF e
  <2> QED BY <1>0, <2>2, <2>3 DEF StripeTypes, Turns
<1>4. Turns(c) /\ job'[c].at \in {"look", "clear"}
  BY <1>2, <1>3
<1>5. StripeTypes'
  BY <1>0, <1>1, <1>4 DEF StripeTypes, Turns
<1>6. Hand(c)' = NoStripe /\ Hand(c) = NoStripe
  BY <1>1, <1>4 DEF Hand
<1>7. Elsewhere(c, 0)
  BY <1>1, <1>4, HandsElsewhere
<1>8. OwnedOnce'
  BY <1>0, <1>1, <1>6, <1>7, OwnedStep
<1>9. Stages'
  <2>1. ASSUME NEW kind \in Kinds, NEW m \in Asids, begin(c, kind, m) PROVE Stages'
    BY <1>1, <1>2, <2>1, PlaceStages
  <2>2. ASSUME NEW a \in Asids, die(c, a) PROVE Stages'
    <3>1. /\ Turns(c) /\ job'[c].at = "clear" /\ job'[c].asid = a
          /\ vspaces[a].used /\ \A x \in Cores : job[x].asid # a
      BY <1>3, <2>2 DEF Runs
    <3> QED BY <1>0, <1>1, <3>1 DEF Stages, Turns
  <2> QED BY <2>1, <2>2
<1> QED BY <1>1, <1>4, <1>5, <1>6, <1>8, <1>9

\* claim_stripe looks at the word.
LEMMA LookColors ==
  ASSUME ColorBase, OwnedOnce, NEW c \in Cores, look(c)
  PROVE  /\ StripeTypes' /\ Stages' /\ OwnedOnce' /\ Turns(c) /\ UNCHANGED <<taken, vspaces>>
         /\ job[c].at = "look"
         /\ \/ job'[c].at \in {"idle", "cas"}
            \/ job[c].kind = "fork" /\ job'[c].at = "kstack" /\ job'[c].stripe = NoStripe
<1>0. StripeTypes /\ Stages /\ ColorsAssumption /\ 0 \notin Asids
  BY StripeNumbers DEF ColorBase
<1>1. /\ UNCHANGED <<taken, vspaces>> /\ job[c].at = "look" /\ job[c].asid = 0
      /\ job[c].stripe = NoStripe
  BY <1>0 DEF look, Stages
<1>2. CASE taken = Stripes /\ job[c].kind # "fork"
  <2>1. /\ Turns(c) /\ job'[c].at = "idle" /\ job'[c].asid = 0 /\ Hand(c)' = NoStripe
    BY <1>0, <1>2, StopDoes DEF look
  <2>2. StripeTypes' /\ Stages'
    BY <1>0, <1>1, <2>1, PlaceStages DEF StripeTypes, Turns
  <2>3. Hand(c) = NoStripe
    BY <1>1 DEF Hand
  <2>4. Elsewhere(c, 0)
    BY <1>1, <2>1, HandsElsewhere
  <2> QED BY <1>0, <1>1, <2>1, <2>2, <2>3, <2>4, OwnedStep
<1>3. CASE taken # Stripes
  <2>1. job' = [job EXCEPT ![c].at = "cas", ![c].cur = taken]
    BY <1>3 DEF look
  <2> DEFINE e == [job[c] EXCEPT !.at = "cas", !.cur = taken]
  <2>2. e \in JobType /\ e.at = "cas" /\ e.cur = taken /\ e.asid = job[c].asid
        /\ e.stripe = job[c].stripe
    BY <1>0 DEF StripeTypes, JobType
  <2>3. job' = [job EXCEPT ![c] = e]
    BY <2>1
  <2> HIDE DEF e
  <2>4. Turns(c) /\ job'[c] = e
    BY <1>0, <2>2, <2>3 DEF StripeTypes, Turns
  <2>5. StripeTypes' /\ Stages'
    BY <1>0, <1>1, <1>3, <2>2, <2>4, PlaceStages DEF StripeTypes, Turns
  <2>6. Hand(c) = NoStripe /\ Hand(c)' = NoStripe
    BY <1>1, <2>2, <2>4 DEF Hand
  <2>7. Elsewhere(c, 0)
    BY <1>1, <2>4, HandsElsewhere
  <2> QED BY <1>0, <1>1, <2>2, <2>4, <2>5, <2>6, <2>7, OwnedStep
<1>4. CASE taken = Stripes /\ job[c].kind = "fork"
  <2>1. Turns(c) /\ job'[c].at = "kstack" /\ job'[c].asid = 0 /\ job'[c].stripe = NoStripe
    BY <1>0, <1>1, <1>4, ColorGoto DEF look
  <2>2. StripeTypes' /\ Stages'
    BY <1>0, <1>1, <2>1, PlaceStages DEF StripeTypes, Turns
  <2>3. Hand(c) = NoStripe /\ Hand(c)' = NoStripe
    BY <1>1, <2>1 DEF Hand
  <2>4. Elsewhere(c, 0)
    BY <1>1, <2>1, HandsElsewhere
  <2> QED BY <1>0, <1>1, <1>4, <2>1, <2>2, <2>3, <2>4, OwnedStep
<1> QED BY <1>2, <1>3, <1>4

\* The compare-and-swap claims a stripe that was free, or fails.
LEMMA CasColors ==
  ASSUME ColorBase, OwnedOnce, NEW c \in Cores, cas(c)
  PROVE  /\ StripeTypes' /\ Stages' /\ OwnedOnce' /\ Turns(c) /\ UNCHANGED vspaces
         /\ job[c].at = "cas"
         /\ \/ job'[c].at = "look"
            \/ /\ job'[c].at = "kstack" /\ job'[c].stripe = job'[c].cmask
               /\ job'[c].stripe \in Stripes
<1> DEFINE i == Min(Stripes \ job[c].cur)
<1>0. /\ StripeTypes /\ Stages /\ ColorsAssumption /\ 0 \notin Asids
      /\ Stripes \subseteq Nat /\ NoStripe \notin Stripes
  BY StripeNumbers DEF ColorBase
<1>1. /\ UNCHANGED vspaces /\ job[c].at = "cas" /\ job[c].asid = 0 /\ job[c].stripe = NoStripe
      /\ job[c].cur # Stripes /\ job[c].cur \subseteq Stripes /\ job[c] \in JobType
  BY <1>0 DEF cas, Stages, StripeTypes, JobType
<1>2. i \in Stripes \ job[c].cur
  <2>1. Stripes \ job[c].cur # {} /\ Stripes \ job[c].cur \in SUBSET Nat
    BY <1>0, <1>1
  <2> QED BY <2>1, LeastFound
<1>3. \/ /\ taken = job[c].cur
         /\ taken' = taken \cup {i}
         /\ job' = [job EXCEPT ![c].at = "kstack", ![c].cur = {}, ![c].stripe = i, ![c].cmask = i]
      \/ /\ job' = [job EXCEPT ![c].at = "look", ![c].cur = {}]
         /\ UNCHANGED taken
  BY DEF cas
<1> HIDE DEF i
<1>4. Hand(c) = NoStripe
  BY <1>1 DEF Hand
<1>5. CASE /\ taken = job[c].cur
           /\ taken' = taken \cup {i}
           /\ job' = [job EXCEPT ![c].at = "kstack", ![c].cur = {}, ![c].stripe = i, ![c].cmask = i]
  <2> DEFINE e == [job[c] EXCEPT !.at = "kstack", !.cur = {}, !.stripe = i, !.cmask = i]
  <2>1. e \in JobType /\ e.at = "kstack" /\ e.stripe = i /\ e.cmask = i /\ e.asid = job[c].asid
    BY <1>1, <1>2 DEF JobType, Maybe
  <2>2. job' = [job EXCEPT ![c] = e]
    BY <1>5
  <2> HIDE DEF e
  <2>3. Turns(c) /\ job'[c] = e
    BY <1>0, <2>1, <2>2 DEF StripeTypes, Turns
  <2>4. StripeTypes' /\ Stages'
    BY <1>0, <1>1, <1>2, <1>5, <2>1, <2>3, PlaceStages DEF StripeTypes, Turns
  <2>5. Hand(c)' = i
    BY <2>1, <2>3 DEF Hand
  <2>6. Elsewhere(c, 0)
    BY <1>1, <2>3, HandsElsewhere
  <2>7. OwnedOnce'
    BY <1>0, <1>2, <1>4, <1>5, <2>5, <2>6, OwnedStep
  <2> QED BY <1>1, <1>2, <2>1, <2>3, <2>4, <2>7
<1>6. CASE job' = [job EXCEPT ![c].at = "look", ![c].cur = {}] /\ UNCHANGED taken
  <2> DEFINE e == [job[c] EXCEPT !.at = "look", !.cur = {}]
  <2>1. e \in JobType /\ e.at = "look" /\ e.stripe = job[c].stripe /\ e.asid = job[c].asid
    BY <1>1 DEF JobType
  <2>2. job' = [job EXCEPT ![c] = e]
    BY <1>6
  <2> HIDE DEF e
  <2>3. Turns(c) /\ job'[c] = e
    BY <1>0, <2>1, <2>2 DEF StripeTypes, Turns
  <2>4. StripeTypes' /\ Stages'
    BY <1>0, <1>1, <1>6, <2>1, <2>3, PlaceStages DEF StripeTypes, Turns
  <2>5. Hand(c)' = NoStripe
    BY <2>1, <2>3 DEF Hand
  <2>6. Elsewhere(c, 0)
    BY <1>1, <2>3, HandsElsewhere
  <2>7. OwnedOnce'
    BY <1>0, <1>4, <1>6, <2>5, <2>6, OwnedStep
  <2> QED BY <1>1, <2>1, <2>3, <2>4, <2>7
<1> QED BY <1>3, <1>5, <1>6

\* A stripe goes back: after a path that failed, or with the VSpace it was bound to.
LEMMA ReturnColors ==
  ASSUME ColorBase, "auto" \notin Kinds, OwnedOnce, NEW c \in Cores,
         release_stripe(c) \/ back(c)
  PROVE  StripeTypes' /\ Stages' /\ OwnedOnce' /\ Turns(c) /\ UNCHANGED vspaces
         /\ job'[c].at = "idle" /\ job[c].at # "bind"
<1>0. StripeTypes /\ Stages /\ ColorsAssumption /\ 0 \notin Asids
  BY StripeNumbers DEF ColorBase
<1>1. /\ UNCHANGED vspaces /\ taken' = taken \ {job[c].stripe} /\ job[c].at \in {"release", "back"}
  BY DEF release_stripe, back
<1>2. job[c].kind # "auto"
  BY <1>0 DEF StripeTypes, JobType
<1>3. Turns(c) /\ job'[c].at = "idle" /\ job'[c].asid = 0 /\ Hand(c)' = NoStripe
  BY <1>0, <1>2, StopDoes DEF release_stripe, back
<1>4. Hand(c) = job[c].stripe
  BY <1>1 DEF Hand
<1>5. StripeTypes' /\ Stages'
  BY <1>0, <1>1, <1>3, PlaceStages DEF StripeTypes, Turns
<1>6. Elsewhere(c, 0)
  BY <1>1, <1>3, HandsElsewhere
<1>7. OwnedOnce'
  BY <1>0, <1>1, <1>3, <1>4, <1>6, OwnedStep
<1> QED BY <1>1, <1>3, <1>5, <1>7

\* The steps that may run out of memory on the way: the stripe stays where it is.
LEMMA WayColors ==
  ASSUME ColorBase, OwnedOnce, NEW c \in Cores, UNCHANGED <<taken, vspaces>>,
         \/ job[c].at = "kstack" /\ (GoOn(c, "vspace") \/ GoOn(c, "release"))
         \/ job[c].at = "vspace" /\ GoOn(c, "release")
         \/ job[c].at = "rest" /\ (Stop(c) \/ GoOn(c, "clear"))
  PROVE  /\ StripeTypes' /\ Stages' /\ OwnedOnce' /\ Turns(c)
         /\ \/ job'[c].at \in {"idle", "clear", "release"}
            \/ /\ job[c].at = "kstack" /\ job'[c].at = "vspace"
               /\ job'[c].stripe = job[c].stripe /\ job'[c].cmask = job[c].cmask
<1>0. StripeTypes /\ Stages /\ ColorsAssumption /\ 0 \notin Asids
  BY StripeNumbers DEF ColorBase
<1>1. job[c].at # "rest" => job[c].asid = 0
  BY <1>0 DEF Stages
<1>2. CASE Stop(c) /\ job[c].at = "rest"
  <2>1. Turns(c) /\ job'[c].at = "idle" /\ job'[c].asid = 0 /\ Hand(c)' = NoStripe
    BY <1>0, <1>2, StopDoes
  <2>2. Hand(c) = NoStripe /\ Elsewhere(c, 0)
    BY <1>2, <2>1, HandsElsewhere DEF Hand
  <2>3. StripeTypes' /\ Stages'
    BY <1>0, <2>1, PlaceStages DEF StripeTypes, Turns
  <2> QED BY <1>0, <2>1, <2>2, <2>3, OwnedStep
<1>3. ASSUME NEW p \in {"vspace", "release", "clear"}, GoOn(c, p),
             IF p = "clear" THEN job[c].at = "rest" ELSE job[c].at \in {"kstack", "vspace"}
      PROVE  /\ StripeTypes' /\ Stages' /\ OwnedOnce' /\ Turns(c)
             /\ job'[c].at = p /\ job'[c].stripe = job[c].stripe /\ job'[c].cmask = job[c].cmask
  <2>1. /\ Turns(c) /\ job'[c].at = p /\ job'[c].asid = job[c].asid
        /\ job'[c].stripe = job[c].stripe /\ job'[c].cmask = job[c].cmask
    BY <1>0, <1>3, ColorGoto
  <2>2. Hand(c)' = Hand(c) /\ Elsewhere(c, 0)
    BY <1>3, <2>1, HandsElsewhere DEF Hand
  <2>3. StripeTypes' /\ Stages'
    BY <1>0, <1>1, <1>3, <2>1, PlaceStages DEF StripeTypes, Turns
  <2> QED BY <1>0, <2>1, <2>2, <2>3, OwnedStep
<1>4. CASE job[c].at = "kstack" /\ GoOn(c, "vspace")
  BY <1>3, <1>4
<1>5. CASE job[c].at \in {"kstack", "vspace"} /\ GoOn(c, "release")
  BY <1>3, <1>5
<1>6. CASE job[c].at = "rest" /\ GoOn(c, "clear")
  BY <1>3, <1>6
<1> QED BY <1>2, <1>4, <1>5, <1>6

\* A VSpace is created: it has no stripe yet.
Creates(c, a) ==
  /\ job[c].at = "vspace" /\ ~vspaces[a].used /\ taken' = taken
  /\ vspaces' = [vspaces EXCEPT ![a] = [used |-> TRUE, stripe |-> NoStripe, cmask |-> job[c].cmask]]
  /\ job' = [job EXCEPT ![c].at = "bind", ![c].asid = a]

LEMMA CreateColors ==
  ASSUME ColorBase, OwnedOnce, NEW c \in Cores, NEW a \in Asids, Creates(c, a)
  PROVE  /\ StripeTypes' /\ Stages' /\ OwnedOnce' /\ Turns(c)
         /\ job'[c].at = "bind" /\ job'[c].asid = a
         /\ job'[c].stripe = job[c].stripe /\ job'[c].cmask = job[c].cmask
         /\ vspaces'[a].used /\ vspaces'[a].cmask = job[c].cmask
         /\ \A b \in Asids : b # a => vspaces'[b] = vspaces[b]
<1>0. StripeTypes /\ Stages /\ ColorsAssumption /\ 0 \notin Asids /\ job[c] \in JobType
  BY StripeNumbers DEF ColorBase, StripeTypes
<1>1. /\ job[c].at = "vspace" /\ ~vspaces[a].used /\ taken' = taken
      /\ job' = [job EXCEPT ![c].at = "bind", ![c].asid = a]
  BY DEF Creates
<1> DEFINE v == [used |-> TRUE, stripe |-> NoStripe, cmask |-> job[c].cmask]
           e == [job[c] EXCEPT !.at = "bind", !.asid = a]
<1>2. v \in EntryType /\ v.used = TRUE /\ v.stripe = NoStripe /\ v.cmask = job[c].cmask
  BY <1>0 DEF EntryType, JobType, Maybe
<1>3. vspaces' = [vspaces EXCEPT ![a] = v]
  BY DEF Creates
<1>4. /\ e \in JobType /\ e.at = "bind" /\ e.asid = a /\ e.stripe = job[c].stripe
      /\ e.cmask = job[c].cmask
  BY <1>0 DEF JobType
<1>5. job' = [job EXCEPT ![c] = e]
  BY <1>1
<1> HIDE DEF v, e
<1>6. Turns(c) /\ job'[c] = e
  BY <1>0, <1>4, <1>5 DEF StripeTypes, Turns
<1>7. /\ vspaces' \in [Asids -> EntryType] /\ vspaces'[a] = v
      /\ \A b \in Asids : b # a => vspaces'[b] = vspaces[b]
  BY <1>0, <1>2, <1>3 DEF StripeTypes
<1>8. StripeTypes'
  BY <1>0, <1>1, <1>6, <1>7 DEF StripeTypes, Turns
<1>9. \A x \in Cores : job[x].asid # a
  BY <1>0, <1>1 DEF Stages
<1>10. Stages'
  <2>1. \A x \in Cores : x # c => job'[x] = job[x]
    BY <1>6 DEF Turns
  <2> QED BY <1>0, <1>2, <1>4, <1>6, <1>7, <1>9, <2>1 DEF Stages
<1>11. Hand(c)' = Hand(c)
  BY <1>1, <1>4, <1>6 DEF Hand
<1>12. Tied(a)' = Tied(a)
  BY <1>1, <1>2, <1>7 DEF Tied
<1>13. Elsewhere(c, a)
  BY <1>6, <1>7, HandsElsewhere
<1>14. OwnedOnce'
  BY <1>0, <1>1, <1>11, <1>12, <1>13, OwnedStep
<1> QED BY <1>2, <1>4, <1>6, <1>7, <1>8, <1>10, <1>14

\* vspace_bind_stripe: the stripe changes hands, from the core to the VSpace.
LEMMA BindColors ==
  ASSUME ColorBase, OwnedOnce, NEW c \in Cores, vspace_bind_stripe(c)
  PROVE  /\ StripeTypes' /\ Stages' /\ OwnedOnce' /\ Turns(c)
         /\ job[c].at = "bind" /\ job[c].asid \in Asids /\ job'[c].at = "rest"
         /\ vspaces[job[c].asid].stripe = NoStripe
         /\ vspaces'[job[c].asid].stripe = job[c].stripe
         /\ vspaces'[job[c].asid].cmask = vspaces[job[c].asid].cmask
         /\ \A b \in Asids : b # job[c].asid => vspaces'[b] = vspaces[b]
<1>0. StripeTypes /\ Stages /\ ColorsAssumption /\ 0 \notin Asids /\ job[c] \in JobType
  BY StripeNumbers DEF ColorBase, StripeTypes
<1>a. job[c].at = "bind" /\ job[c].asid \in Asids
  BY <1>0 DEF vspace_bind_stripe, Stages
<1>b. PICK a \in Asids : a = job[c].asid
  BY <1>a
<1>1. /\ job[c].at = "bind" /\ taken' = taken /\ GoOn(c, "rest")
      /\ vspaces' = [vspaces EXCEPT ![a].stripe = job[c].stripe]
  BY <1>b DEF vspace_bind_stripe
<1>2. a \in Asids /\ vspaces[a].used /\ vspaces[a].stripe = NoStripe /\ vspaces[a] \in EntryType
  BY <1>0, <1>1, <1>b DEF Stages, StripeTypes
<1>3. PICK s \in Maybe : s = job[c].stripe
  BY <1>0 DEF JobType
<1> DEFINE v == [vspaces[a] EXCEPT !.stripe = s]
<1>4. v \in EntryType /\ v.used = vspaces[a].used /\ v.stripe = s /\ v.cmask = vspaces[a].cmask
  BY <1>2 DEF EntryType
<1>5. vspaces' = [vspaces EXCEPT ![a] = v]
  BY <1>1, <1>3
<1> HIDE DEF v
<1>6. /\ Turns(c) /\ job'[c].at = "rest" /\ job'[c].asid = a
  BY <1>0, <1>1, <1>b, ColorGoto
<1>7. /\ vspaces' \in [Asids -> EntryType] /\ vspaces'[a] = v
      /\ \A b \in Asids : b # a => vspaces'[b] = vspaces[b]
  BY <1>0, <1>2, <1>4, <1>5 DEF StripeTypes
<1>8. StripeTypes'
  BY <1>0, <1>1, <1>6, <1>7 DEF StripeTypes, Turns
<1>9. \A x \in Cores : x # c => job[x].asid # a /\ job'[x] = job[x]
  BY <1>0, <1>2, <1>6, <1>b DEF Stages, Turns
<1>10. Stages'
  <2>1. vspaces'[a].used
    BY <1>2, <1>4, <1>7
  <2>2. ASSUME NEW x \in Cores, x # c
        PROVE  /\ job'[x] = job[x] /\ job[x].asid # a
               /\ job[x].asid \in Asids => vspaces'[job[x].asid] = vspaces[job[x].asid]
    BY <1>7, <1>9, <2>2
  <2> QED BY <1>0, <1>2, <1>6, <2>1, <2>2 DEF Stages
<1>11. Hand(c)' = NoStripe /\ Hand(c) = s
  BY <1>1, <1>3, <1>6 DEF Hand
<1>12. Tied(a)' = s /\ Tied(a) = NoStripe
  BY <1>2, <1>4, <1>7 DEF Tied
<1>13. Elsewhere(c, a)
  BY <1>6, <1>7, HandsElsewhere
<1>14. OwnedOnce'
  <2>1. a # 0
    BY <1>0, <1>2
  <2> QED BY <1>0, <1>1, <1>2, <1>11, <1>12, <1>13, <2>1, OwnedStep
<1> QED BY <1>1, <1>2, <1>3, <1>4, <1>6, <1>7, <1>8, <1>10, <1>14, <1>b

\* vspace_teardown: the stripe changes hands, from the VSpace to the core.
LEMMA ClearColors ==
  ASSUME ColorBase, OwnedOnce, NEW c \in Cores, clear(c)
  PROVE  /\ StripeTypes' /\ Stages' /\ OwnedOnce' /\ Turns(c)
         /\ job[c].at = "clear" /\ job'[c].at = "back"
         /\ \A b \in Asids : vspaces'[b].used => vspaces'[b] = vspaces[b]
         /\ \A b \in Asids : b # job[c].asid => vspaces'[b] = vspaces[b]
<1>0. StripeTypes /\ Stages /\ ColorsAssumption /\ 0 \notin Asids /\ job[c] \in JobType
  BY StripeNumbers DEF ColorBase, StripeTypes
<1>a. job[c].at = "clear" /\ job[c].asid \in Asids
  BY <1>0 DEF clear, Stages
<1>b. PICK a \in Asids : a = job[c].asid
  BY <1>a
<1> DEFINE f == FREI
<1>1. /\ job[c].at = "clear" /\ taken' = taken
      /\ vspaces' = [vspaces EXCEPT ![a] = f]
      /\ job' = [job EXCEPT ![c].at = "back", ![c].stripe = vspaces[a].stripe,
                            ![c].cmask = NoStripe, ![c].asid = 0]
  BY <1>b DEF clear
<1>2. a \in Asids /\ vspaces[a].used /\ vspaces[a] \in EntryType
  BY <1>0, <1>1, <1>b DEF Stages, StripeTypes
<1>3. f \in EntryType /\ f.used = FALSE
  BY DEF FREI, EntryType, Maybe
<1> HIDE DEF f
<1>4. PICK s \in Maybe : s = vspaces[a].stripe
  BY <1>2 DEF EntryType
<1> DEFINE e == [job[c] EXCEPT !.at = "back", !.stripe = s, !.cmask = NoStripe, !.asid = 0]
<1>5. e \in JobType /\ e.at = "back" /\ e.asid = 0 /\ e.stripe = s
  BY <1>0 DEF JobType, Maybe
<1>6. job' = [job EXCEPT ![c] = e]
  BY <1>1, <1>4
<1> HIDE DEF e
<1>7. Turns(c) /\ job'[c] = e
  BY <1>0, <1>5, <1>6 DEF StripeTypes, Turns
<1>8. /\ vspaces' \in [Asids -> EntryType] /\ vspaces'[a] = f
      /\ \A b \in Asids : b # a => vspaces'[b] = vspaces[b]
  BY <1>0, <1>1, <1>2, <1>3 DEF StripeTypes
<1>9. StripeTypes'
  BY <1>0, <1>1, <1>7, <1>8 DEF StripeTypes, Turns
<1>10. \A x \in Cores : x # c => job[x].asid # a /\ job'[x] = job[x]
  BY <1>0, <1>2, <1>7, <1>b DEF Stages, Turns
<1>11. Stages'
  BY <1>0, <1>2, <1>5, <1>7, <1>8, <1>10 DEF Stages
<1>12. Hand(c)' = s /\ Hand(c) = NoStripe
  BY <1>1, <1>5, <1>7 DEF Hand
<1>13. Tied(a)' = NoStripe /\ Tied(a) = s
  BY <1>2, <1>3, <1>4, <1>8 DEF Tied
<1>14. Elsewhere(c, a)
  BY <1>7, <1>8, HandsElsewhere
<1>15. OwnedOnce'
  <2>1. a # 0
    BY <1>0, <1>2
  <2> QED BY <1>0, <1>1, <1>2, <1>12, <1>13, <1>14, <2>1, OwnedStep
<1> QED BY <1>b, <1>1, <1>3, <1>5, <1>7, <1>8, <1>9, <1>11, <1>15

\* create_vspace_masked takes a free entry, or fails.
LEMMA CreateCase ==
  ASSUME ColorsAssumption, NEW c \in Cores, create_vspace_masked(c)
  PROVE  \/ \E a \in Asids : Creates(c, a)
         \/ job[c].at = "vspace" /\ GoOn(c, "release") /\ UNCHANGED <<taken, vspaces>>
<1> DEFINE free == {a \in Asids : ~vspaces[a].used}
<1>1. CASE free # {}
  <2>1. free \in SUBSET Nat
    BY StripeNumbers
  <2> HIDE DEF free
  <2>2. PICK a \in free : a = Min(free)
    BY <1>1, <2>1, LeastFound
  <2> USE DEF free
  <2> QED BY <2>2 DEF create_vspace_masked, Creates
<1>2. CASE free = {}
  BY <1>2 DEF create_vspace_masked
<1> QED BY <1>1, <1>2

-----------------------------------------------------------------------------
(* All steps together.                                                     *)

\* Each step keeps types, stages and owners, unless a path gives its stripe back twice.
LEMMA NextColors ==
  ASSUME ColorBase, OwnedOnce, "auto" \notin Kinds, [ColorsNext]_colorVars
  PROVE  ColorBase' /\ OwnedOnce'
<1>0. ASSUME UNCHANGED colorVars PROVE StripeTypes' /\ Stages' /\ OwnedOnce'
  <2>1. taken' = taken /\ vspaces' = vspaces /\ job' = job
    BY <1>0 DEF colorVars
  <2>2. StripeTypes' /\ Stages'
    BY <2>1 DEF ColorBase, StripeTypes, Stages
  <2>3. (\A c \in Cores : Hand(c)' = Hand(c)) /\ \A a \in Asids : Tied(a)' = Tied(a)
    BY <2>1 DEF Hand, Tied
  <2> QED BY <2>1, <2>2, <2>3 DEF OwnedOnce
<1>1. ASSUME NEW c \in Cores, create_vspace_masked(c)
      PROVE  StripeTypes' /\ Stages' /\ OwnedOnce'
  <2>1. (\E a \in Asids : Creates(c, a)) \/
        (job[c].at = "vspace" /\ GoOn(c, "release") /\ UNCHANGED <<taken, vspaces>>)
    BY <1>1, CreateCase DEF ColorBase
  <2> QED BY <2>1, CreateColors, WayColors
<1>2. ASSUME NEW c \in Cores, kstack(c) \/ rest(c)
      PROVE  StripeTypes' /\ Stages' /\ OwnedOnce'
  BY <1>2, WayColors DEF kstack, rest
<1>3. StripeTypes' /\ Stages' /\ OwnedOnce'
  BY <1>0, <1>1, <1>2, BeginColors, LookColors, CasColors, ReturnColors, BindColors, ClearColors
     DEF ColorsNext
<1>4. ColorsAssumption' <=> ColorsAssumption
  BY DEF ColorsAssumption
<1> QED BY <1>3, <1>4 DEF ColorBase

\* STRIPES_TAKEN tells the truth.
LEMMA OwnersCount ==
  ASSUME ColorBase, OwnedOnce
  PROVE  StripeOwned
<1>0. NoStripe \notin Stripes
  BY StripeNumbers DEF ColorBase
<1> SUFFICES ASSUME NEW i \in Stripes
             PROVE  IF i \in taken THEN \E o \in Owners(i) : Owners(i) = {o} ELSE Owners(i) = {}
  BY DEF StripeOwned
<1> DEFINE A == {b \in Asids : vspaces[b].used /\ vspaces[b].stripe = i}
           D == {d \in Cores : Holds(d, i)}
           S == {<<"vspace", a>> : a \in A} \cup {<<"core", c>> : c \in D}
<1>s. Owners(i) = S
  BY DEF Owners
<1>1. A = {b \in Asids : Tied(b) = i}
  BY <1>0 DEF Tied
<1>2. D = {d \in Cores : Hand(d) = i}
  BY <1>0 DEF Hand, Holds
<1> HIDE DEF A, D
<1>3. CASE i \notin taken
  <2>1. A = {} /\ D = {}
    BY <1>0, <1>1, <1>2, <1>3 DEF OwnedOnce
  <2>2. S = {}
    BY <2>1
  <2> QED BY <1>3, <2>2, <1>s
<1>4. CASE i \in taken
  <2>1. \E x : S = {x}
    <3>1. CASE \E c \in Cores : Hand(c) = i
      <4>1. PICK c \in Cores : Hand(c) = i
        BY <3>1
      <4>2. A = {} /\ D = {c}
        BY <1>0, <1>1, <1>2, <4>1 DEF OwnedOnce
      <4>3. S = {<<"core", c>>}
        BY <4>2
      <4> QED BY <4>3
    <3>2. CASE \E a \in Asids : Tied(a) = i
      <4>1. PICK a \in Asids : Tied(a) = i
        BY <3>2
      <4>2. D = {} /\ A = {a}
        BY <1>0, <1>1, <1>2, <4>1 DEF OwnedOnce
      <4>3. S = {<<"vspace", a>>}
        BY <4>2
      <4> QED BY <4>3
    <3> QED BY <1>4, <3>1, <3>2 DEF OwnedOnce
  <2> HIDE DEF S
  <2> QED BY <1>4, <2>1, <1>s
<1> QED BY <1>3, <1>4

\* A step keeps the colours with their stripes.
LEMMA NextMasks ==
  ASSUME ColorBase, OwnedOnce, Masks, "auto" \notin Kinds, [ColorsNext]_colorVars
  PROVE  Masks'
<1>0. StripeTypes /\ Stages /\ ColorsAssumption /\ 0 \notin Asids
  BY StripeNumbers DEF ColorBase
<1>k. \A c \in Cores : job[c].kind = "fork" => "fork" \in Kinds
  BY <1>0 DEF StripeTypes, JobType
<1>1. ASSUME NEW c \in Cores, Turns(c), job[c].at # "bind", job'[c].at # "bind",
             \A b \in Asids : vspaces'[b].used => vspaces'[b] = vspaces[b],
             \A x \in Cores : job[x].at = "bind" => vspaces'[job[x].asid] = vspaces[job[x].asid],
             job'[c].at \in {"kstack", "vspace"} => Fits(job'[c].stripe, job'[c].cmask)
      PROVE  Masks'
  <2>1. \A x \in Cores : x # c => job'[x] = job[x]
    BY <1>1 DEF Turns
  <2>2. \A x \in Cores : job'[x].at \in {"kstack", "vspace", "bind"} => Fits(job'[x].stripe, job'[x].cmask)
    BY <1>1, <2>1 DEF Masks
  <2>3. \A x \in Cores : job'[x].at = "bind" => vspaces'[job'[x].asid].cmask = job'[x].cmask
    BY <1>1, <2>1 DEF Masks
  <2>4. ASSUME NEW a \in Asids, vspaces'[a].used, \A x \in Cores : job'[x].at = "bind" => job'[x].asid # a
        PROVE  Fits(vspaces'[a].stripe, vspaces'[a].cmask)
    <3>1. vspaces'[a] = vspaces[a]
      BY <1>1, <2>4
    <3>2. \A x \in Cores : job[x].at = "bind" => job'[x] = job[x]
      BY <1>1, <2>1
    <3> QED BY <2>4, <3>1, <3>2 DEF Masks
  <2> QED BY <2>2, <2>3, <2>4 DEF Masks, Fits
<1>2. ASSUME NEW c \in Cores,
             \/ \E kind \in Kinds, m \in Asids : begin(c, kind, m)
             \/ \E a \in Asids : die(c, a)
      PROVE  Masks'
  <2>1. Turns(c) /\ vspaces' = vspaces /\ job'[c].at \in {"look", "clear"}
    BY <1>2, BeginColors
  <2>2. job[c].at # "bind"
    BY <1>2, IdleJob DEF begin, die
  <2> QED BY <1>1, <2>1, <2>2
<1>3. ASSUME NEW c \in Cores, look(c) PROVE Masks'
  <2>1. /\ Turns(c) /\ vspaces' = vspaces /\ job[c].at = "look"
        /\ \/ job'[c].at \in {"idle", "cas"}
           \/ job[c].kind = "fork" /\ job'[c].at = "kstack" /\ job'[c].stripe = NoStripe
    BY <1>3, LookColors
  <2> QED BY <1>1, <1>k, <2>1 DEF Fits
<1>4. ASSUME NEW c \in Cores, cas(c) PROVE Masks'
  <2>1. /\ Turns(c) /\ vspaces' = vspaces /\ job[c].at = "cas"
        /\ \/ job'[c].at = "look"
           \/ /\ job'[c].at = "kstack" /\ job'[c].stripe = job'[c].cmask
              /\ job'[c].stripe \in Stripes
    BY <1>4, CasColors
  <2> QED BY <1>1, <2>1 DEF Fits
<1>5. ASSUME NEW c \in Cores, release_stripe(c) \/ back(c) PROVE Masks'
  <2>1. Turns(c) /\ vspaces' = vspaces /\ job'[c].at = "idle" /\ job[c].at # "bind"
    BY <1>5, ReturnColors
  <2> QED BY <1>1, <2>1
<1>6. ASSUME NEW c \in Cores, UNCHANGED <<taken, vspaces>>,
             \/ job[c].at = "kstack" /\ (GoOn(c, "vspace") \/ GoOn(c, "release"))
             \/ job[c].at = "vspace" /\ GoOn(c, "release")
             \/ job[c].at = "rest" /\ (Stop(c) \/ GoOn(c, "clear"))
      PROVE  Masks'
  <2>1. /\ Turns(c) /\ job[c].at # "bind"
        /\ \/ job'[c].at \in {"idle", "clear", "release"}
           \/ /\ job[c].at = "kstack" /\ job'[c].at = "vspace"
              /\ job'[c].stripe = job[c].stripe /\ job'[c].cmask = job[c].cmask
    BY <1>6, WayColors
  <2>2. job[c].at = "kstack" => Fits(job[c].stripe, job[c].cmask)
    BY DEF Masks
  <2> QED BY <1>1, <1>6, <2>1, <2>2
<1>7. ASSUME NEW c \in Cores, kstack(c) \/ rest(c) PROVE Masks'
  BY <1>6, <1>7 DEF kstack, rest
<1>8. ASSUME NEW c \in Cores, NEW a \in Asids, Creates(c, a) PROVE Masks'
  <2>1. /\ Turns(c) /\ job'[c].at = "bind" /\ job'[c].asid = a
        /\ job'[c].stripe = job[c].stripe /\ job'[c].cmask = job[c].cmask
        /\ vspaces'[a].cmask = job[c].cmask
        /\ \A b \in Asids : b # a => vspaces'[b] = vspaces[b]
    BY <1>8, CreateColors
  <2>2. job[c].at = "vspace" /\ ~vspaces[a].used /\ Fits(job[c].stripe, job[c].cmask)
    BY <1>8 DEF Creates, Masks
  <2>3. \A x \in Cores : x # c => job'[x] = job[x]
    BY <2>1 DEF Turns
  <2>4. \A x \in Cores : job[x].at = "bind" => job[x].asid \in Asids /\ job[x].asid # a
    BY <1>0, <2>2 DEF Stages
  <2>5. \A x \in Cores : job'[x].at \in {"kstack", "vspace", "bind"} => Fits(job'[x].stripe, job'[x].cmask)
    BY <2>1, <2>2, <2>3 DEF Masks
  <2>6. ASSUME NEW x \in Cores, job'[x].at = "bind" PROVE vspaces'[job'[x].asid].cmask = job'[x].cmask
    <3>1. CASE x = c
      BY <2>1, <3>1
    <3>2. CASE x # c
      BY <2>1, <2>3, <2>4, <2>6, <3>2 DEF Masks
    <3> QED BY <3>1, <3>2
  <2>7. ASSUME NEW b \in Asids, vspaces'[b].used, \A x \in Cores : job'[x].at = "bind" => job'[x].asid # b
        PROVE  Fits(vspaces'[b].stripe, vspaces'[b].cmask)
    <3>1. b # a
      BY <2>1, <2>7
    <3>2. vspaces'[b] = vspaces[b]
      BY <2>1, <3>1
    <3>3. \A x \in Cores : job[x].at = "bind" => job[x].asid # b
      BY <2>2, <2>3, <2>7
    <3> QED BY <2>7, <3>2, <3>3 DEF Masks
  <2> QED BY <2>5, <2>6, <2>7 DEF Masks, Fits
<1>9. ASSUME NEW c \in Cores, create_vspace_masked(c) PROVE Masks'
  <2>1. (\E a \in Asids : Creates(c, a)) \/
        (job[c].at = "vspace" /\ GoOn(c, "release") /\ UNCHANGED <<taken, vspaces>>)
    BY <1>0, <1>9, CreateCase
  <2> QED BY <1>6, <1>8, <2>1
<1>10. ASSUME NEW c \in Cores, vspace_bind_stripe(c) PROVE Masks'
  <2>1. PICK a \in Asids : a = job[c].asid
    BY <1>10, BindColors
  <2>2. /\ Turns(c) /\ job[c].at = "bind" /\ job'[c].at = "rest"
        /\ vspaces'[a].stripe = job[c].stripe /\ vspaces'[a].cmask = vspaces[a].cmask
        /\ \A b \in Asids : b # a => vspaces'[b] = vspaces[b]
    BY <1>10, <2>1, BindColors
  <2>3. \A x \in Cores : x # c => job'[x] = job[x] /\ job[x].asid # a
    <3>1. a # 0
      BY <1>0, <2>1
    <3> QED BY <1>0, <2>1, <2>2, <3>1 DEF Turns, Stages
  <2>4. vspaces[a].cmask = job[c].cmask /\ Fits(job[c].stripe, job[c].cmask)
    BY <2>1, <2>2 DEF Masks
  <2>5. \A x \in Cores : job'[x].at \in {"kstack", "vspace", "bind"} => Fits(job'[x].stripe, job'[x].cmask)
    BY <2>2, <2>3 DEF Masks
  <2>6. \A x \in Cores : job'[x].at = "bind" => vspaces'[job'[x].asid].cmask = job'[x].cmask
    <3>1. \A x \in Cores : job[x].at = "bind" => job[x].asid \in Asids
      BY <1>0 DEF Stages
    <3> QED BY <2>2, <2>3, <3>1 DEF Masks
  <2>7. ASSUME NEW b \in Asids, vspaces'[b].used, \A x \in Cores : job'[x].at = "bind" => job'[x].asid # b
        PROVE  Fits(vspaces'[b].stripe, vspaces'[b].cmask)
    <3>1. CASE b = a
      BY <2>2, <2>4, <3>1
    <3>2. CASE b # a
      <4>1. vspaces'[b] = vspaces[b]
        BY <2>2, <3>2
      <4>2. \A x \in Cores : job[x].at = "bind" => job[x].asid # b
        BY <2>1, <2>2, <2>3, <2>7, <3>2
      <4> QED BY <2>7, <4>1, <4>2 DEF Masks
    <3> QED BY <3>1, <3>2
  <2> QED BY <2>5, <2>6, <2>7 DEF Masks, Fits
<1>11. ASSUME NEW c \in Cores, clear(c) PROVE Masks'
  <2>1. /\ Turns(c) /\ job[c].at = "clear" /\ job'[c].at = "back"
        /\ \A b \in Asids : vspaces'[b].used => vspaces'[b] = vspaces[b]
        /\ \A b \in Asids : b # job[c].asid => vspaces'[b] = vspaces[b]
    BY <1>11, ClearColors
  <2>2. \A x \in Cores : job[x].at = "bind" => job[x].asid \in Asids /\ job[x].asid # job[c].asid
    BY <1>0, <2>1 DEF Stages
  <2> QED BY <1>1, <2>1, <2>2
<1>12. ASSUME UNCHANGED colorVars PROVE Masks'
  BY <1>12 DEF colorVars, Masks, Fits
<1> QED BY <1>2, <1>3, <1>4, <1>5, <1>7, <1>9, <1>10, <1>11, <1>12 DEF ColorsNext

\* VSpaces whose colours are those of their stripes share none; without forks every one has a stripe.
LEMMA MasksApart ==
  ASSUME ColorBase, OwnedOnce, Masks
  PROVE  OwnColoursApart /\ ("fork" \notin Kinds => ColoursApart)
<1>0. NoStripe \notin Stripes /\ Stages /\ StripeTypes /\ 0 \notin Asids
  BY StripeNumbers DEF ColorBase
<1>1. ASSUME NEW x \in Asids, HasStripe(x)
      PROVE  \E m \in Stripes :
               /\ vspaces[x].cmask = m
               /\ Tied(x) = m \/ \E c \in Cores : Hand(c) = m /\ job[c].asid = x
  <2>1. CASE vspaces[x].stripe # NoStripe
    <3>1. \A c \in Cores : job[c].at = "bind" => job[c].asid # x
      BY <1>0, <2>1 DEF Stages
    <3>2. Fits(vspaces[x].stripe, vspaces[x].cmask) /\ vspaces[x].used
      BY <1>1, <3>1 DEF Masks, HasStripe
    <3> QED BY <2>1, <3>2 DEF Fits, Tied
  <2>2. ASSUME NEW c \in Cores, job[c].at = "bind", job[c].asid = x, job[c].stripe # NoStripe
        PROVE  vspaces[x].cmask \in Stripes /\ Hand(c) = vspaces[x].cmask
    BY <2>2 DEF Masks, Fits, Hand
  <2> QED BY <1>1, <2>1, <2>2 DEF HasStripe
<1>2. ASSUME NEW a \in Asids, NEW b \in Asids, a # b, HasStripe(a), HasStripe(b),
             vspaces[a].cmask = vspaces[b].cmask
      PROVE  FALSE
  <2>1. PICK m \in Stripes :
          /\ vspaces[a].cmask = m
          /\ Tied(a) = m \/ \E c \in Cores : Hand(c) = m /\ job[c].asid = a
    BY <1>1, <1>2
  <2>2. Tied(b) = m \/ \E c \in Cores : Hand(c) = m /\ job[c].asid = b
    BY <1>1, <1>2, <2>1
  <2>3. CASE Tied(a) = m /\ Tied(b) = m
    BY <1>0, <1>2, <2>3 DEF OwnedOnce
  <2>4. CASE (Tied(a) = m \/ Tied(b) = m) /\ \E c \in Cores : Hand(c) = m
    BY <1>0, <2>4 DEF OwnedOnce
  <2>5. ASSUME NEW c \in Cores, NEW d \in Cores, Hand(c) = m, Hand(d) = m, job[c].asid = a,
               job[d].asid = b
        PROVE  FALSE
    BY <1>0, <1>2, <2>5 DEF OwnedOnce
  <2> QED BY <2>1, <2>2, <2>3, <2>4, <2>5
<1>3. ASSUME "fork" \notin Kinds, NEW a \in Asids, vspaces[a].used PROVE HasStripe(a)
  BY <1>0, <1>3 DEF Masks, Fits, HasStripe
<1> QED BY <1>2, <1>3 DEF OwnColoursApart, ColoursApart

ColorsInv == ColorBase /\ OwnedOnce /\ Masks

\* Owners and colours stay what they are, unless a path gives its stripe back twice.
LEMMA ColorsInvariant ==
  ASSUME ColorsAssumption, "auto" \notin Kinds
  PROVE  (ColorsInit => ColorsInv) /\ (ColorsInv /\ [ColorsNext]_colorVars => ColorsInv')
<1>1. ASSUME ColorsInit PROVE ColorsInv
  <2>1. \A c \in Cores : /\ job[c] \in JobType /\ job[c].at = "idle" /\ job[c].asid = 0
                         /\ job[c].stripe = NoStripe
    BY <1>1, IdleJob DEF ColorsInit
  <2>2. \A a \in Asids : vspaces[a] \in EntryType /\ ~vspaces[a].used
    BY <1>1 DEF ColorsInit, FREI, EntryType, Maybe
  <2>3. StripeTypes
    BY <1>1, <2>1, <2>2 DEF ColorsInit, StripeTypes
  <2>4. Stages
    BY <2>1 DEF Stages
  <2>5. \A c \in Cores : Hand(c) = NoStripe
    BY <2>1 DEF Hand
  <2>6. \A a \in Asids : Tied(a) = NoStripe
    BY <2>2 DEF Tied
  <2>7. OwnedOnce
    BY <1>1, <2>5, <2>6 DEF OwnedOnce, ColorsInit
  <2>8. Masks
    BY <2>1, <2>2 DEF Masks
  <2> QED BY <2>3, <2>4, <2>7, <2>8 DEF ColorsInv, ColorBase
<1>2. ASSUME ColorsInv, [ColorsNext]_colorVars PROVE ColorsInv'
  BY <1>2, NextColors, NextMasks DEF ColorsInv
<1> QED BY <1>1, <1>2

\* STRIPES_TAKEN tells the truth for any number of cores, stripes and VSpaces, and PDs with stripes
\* of their own share no colour, unless a path gives its stripe back twice (claim_stripe,
\* vspace_bind_stripe, vspace_teardown).
THEOREM StripesStayApart ==
  ASSUME ColorsAssumption
  PROVE  ColorsSpec => []StripesApart
<1> DEFINE Inv == "auto" \notin Kinds => ColorsInv
<1>1. (ColorsInit => Inv) /\ (Inv /\ [ColorsNext]_colorVars => Inv')
  BY ColorsInvariant
<1>2. Inv => StripesApart
  BY OwnersCount, MasksApart DEF StripesApart, ColorsInv
<1> QED BY <1>1, <1>2, PTL DEF ColorsSpec

\* Where PDs are only loaded, no two share a colour at all: without a free stripe a load is refused
\* (claim_stripe), never run with another's colours.
THEOREM LoadedStayApart ==
  ASSUME ColorsAssumption, Kinds \subseteq {"load"}
  PROVE  ColorsSpec => []ColoursApart
<1>1. "auto" \notin Kinds /\ "fork" \notin Kinds
  OBVIOUS
<1>2. (ColorsInit => ColorsInv) /\ (ColorsInv /\ [ColorsNext]_colorVars => ColorsInv')
  BY <1>1, ColorsInvariant
<1>3. ColorsInv => ColoursApart
  BY <1>1, MasksApart DEF ColorsInv
<1> QED BY <1>2, <1>3, PTL DEF ColorsSpec
=============================================================================
