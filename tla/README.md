# TLA+ models of the Caprock kernel

Caprock is a capability microkernel in Rust for aarch64 and x86_64. This directory models
parts of it in TLA+, checks them with TLC on small instances and proves theorems about them
with TLAPS. `PROJECT.json` maps every definition to the lines it models and lists runs,
mutants, findings, hazards and theorems.

## The system

| component | state | operations | hard behaviour |
|---|---|---|---|
| capability space (`crates/caprock-cap`) | slot table with the derivation tree (CDT), object table with reference counts | install, copy, mint, subregion, move, delete, revoke | pointer surgery in a tree, reuse of slots, region ownership, reports that leave the lock |
| IPC (`crates/caprock-ipc`) | per endpoint: queues of senders and receivers, reply token (caller, reply_owner), quiescing bit; per notification: pending word, one waiter | CALL, RECV, REPLY, SIGNAL, WAIT, purge, owner_died, abort, migrate, rebind, retire, quiesce | cross-core rendezvous, dead threads in queues, timeouts, exchange of a server |
| scheduler (`crates/caprock-sched`) | per core: ready queues, block reasons, budgets, donations, deadlines; a global thread directory | block, unblock, switch_to, tick, park, kill, migrate, deadlines, redirect | one lock per core, lock-free directory, migration between lookup and lock |
| system calls (`crates/caprock-microkit`) | PD table, per-PD capability space, sidecar slots | dispatch, spawn, IRQ binding, handlers | two-lock operations, budgets |
| kernel (`kernel/src/system.rs`, `loader.rs`, `pdfreeze.rs`, `ckptcut.rs`, `colors.rs`) | the locked tables, IRQ bindings, DMA contexts, VSpaces, images, stripes, finalisation buffers | death sweep, timer path, load, fork, exec, stop, hot reload, freeze, DMA attach and teardown, grants of MSI vectors | work after the lock is dropped, a participant that dies or stops answering in the middle |
| memory (`caprock-mem`, `-region`, `-slab`) | free lists, colours, slabs | alloc, free, split, merge | exhaustion, coalescing |
| locks and waiting (`caprock-sync`, `caprock-wait`) | ticket and reader-writer locks; mutex, completion | lock, unlock, wait, complete | fairness, starvation, interrupts, lost wake-ups |
| loader, trust, manifest, virtio, FAT, Linux personality, HAL, programs | formats, devices, clients | - | outside the core logic |

They interact by calls under locks. The order is CAPS < EPS/NTFNS < SCHEDS (with IPC_ORPHANS
before EPS), an interrupt handler never holds one, and what an operation learns under an
earlier lock it often uses after releasing it: reported replies, DMA regions and debug rights
of a delete, the orphans of a dead server, the threads a tick has released, the owner of a
thread that may have migrated. Most of the hazards in `PROJECT.json` sit there.

What makes the components correct:

* capability space: the CDT is a forest whose child lists are exact; counts match; nothing
  derived exceeds its source; a handle that died stays dead; revoke is complete and ends.
* IPC: a blocked thread is entered exactly where it waits, a thread that does not wait is
  entered nowhere; an answer reaches the request it belongs to; signals are not lost; the
  caller of a dead server and a wait with a deadline come back.
* scheduler: exactly the threads without a block reason and with budget are in a ready queue;
  a waker removes only its own reason; a thread lives on one core.
* life and death: a thread that runs has its stack and its address space; frames, ASIDs,
  stacks, slots and numbers come back exactly once.
* freeze: a domain stands as a whole or not at all, and the freezer always returns.
* devices: an interrupt that arrives is delivered; memory a device can reach is not free.
* locks: exclusion, order, progress; no wake-up is lost.

## Modules

| module | models | source |
|---|---|---|
| `CapSpace` | the capability space | `caprock-cap` |
| `Ipc` | endpoints, notifications, and the kernel paths that reach into them | `caprock-ipc`, parts of `caprock-microkit`, `system.rs` |
| `Sched` | one core: queues, block reasons, budgets and donation, deadlines, parking | `caprock-sched` |
| `Migrate` | the thread directory, the balancer, operations on a thread of another core | `system.rs`, `caprock-sched` |
| `Redirect` | redirected system calls, their handlers and binding tables | `caprock-microkit`, `redirect.rs` |
| `PdFreeze` | freezing and thawing a protection domain | `system.rs` |
| `ThreadDeath` | stacks, VSpaces, slots and numbers of threads that end | `system.rs`, `caprock-sched` |
| `PdLife` | load, fork, exec, stop, exit of protection domains | `system.rs` |
| `IrqDelivery` | interrupt hook, pending bits, drain, binding | `system.rs` |
| `Msi` | grants of vectors, remapping entries and MSI-X rows | `system.rs`, `irte.rs` |
| `DmaTeardown` | DMA attach, detach and finalisation beneath running devices | `system.rs` |
| `PhysAlloc`, `FrameSpec` | the frame allocator and what it promises | `caprock-mem` |
| `Colors` | stripes of cache colours | `colors.rs`, `system.rs` |
| `LockContext`, `SpinLock`, `RwSpinLock`, `LockSpec` | threads and interrupt handlers on a core, the two locks, and what a lock promises | `caprock-sync` |
| `Wait` | mutex, completion and timed waiting on park | `caprock-wait` |
| `Queues` | the waiting lists the IPC, freeze and wait modules share | `caprock-ipc`, `caprock-wait` |
| `CapSpaceProofs`, `IpcProofs`, `ThreadProofs`, `PdFreezeProofs`, `InterruptProofs`, `MemoryProofs`, `LockProofs`, `QueueProofs` | proofs | |
| `MC*` | instances for TLC | |

### Worlds and parts

Two techniques put several circumstances into one run. `Ipc` and `Sched` have a variable
`world` (who holds which capability, who may die, which reasons are imposed...) that is chosen
by `Init` from the constant `Worlds` and never changes. `MCSpinLock`, `MCPdFreeze`,
`MCIrqDelivery`, `MCPhysAlloc` and `MCThreadDeath` hold modules that share no state side by
side: a variable `part` says which one moves, the others stand still. A property of such a run
speaks of the parts it names. These MC modules EXTEND the modules whose properties the run checks
(`SpinLock`, `RwSpinLock` and `Wait`; `IrqDelivery` and `Msi`; `PdFreeze` and `Redirect`; `PhysAlloc`, `Colors` and `DmaTeardown`), so
that the run checks the very definitions the theorems are about; that is why `Wait`, `Msi`, `Redirect`, `Colors` and
`DmaTeardown` carry their names in `WaitInit`, `MsiNext`, `DmaSpec` and the like (and `RwSpinLock` in
`RwNext`, `RwSpec`). The same module under
other constants is an INSTANCE: `Move` (a freeze with migration), `Nest` and `Narrow` (a teardown of
nested devices, and one whose units fail) with variables of their own, `Full` (a free list
of two entries) on those of `PhysAlloc`, `Tables` (callers of SETHANDLER, no calls) on those of `Redirect`, whose
redirected calls run under the constants of the configuration.

Some properties have a condition on the constants or the world in front, which names the circumstances the code
does not handle (see the table of statements below): `FrozenStandsStill` (`~Balancing`; it speaks of the threads whose
SPAWN was over when the freezer began its last round), `GrantsSound`
(`~DeadConfig` for misrouting), `StripesApart` (`"auto" \notin Kinds`), `TeardownSound` (`AttachComplete`: tables and contexts have room and the unit answers,
also later on; and
no region detached beneath a device that may hang), `RedirectsTrue` (`FixedBindings`: nobody binds
or unbinds, an endpoint has one handler thread, and two ways a call goes astray are named in it; `OwnThreads`: each caller of SETHANDLER has threads of its
own, binds a thread only while it has no handler, and no guest dies; the two settings of the run),
the mutex in `NoWakeUpLost` and `EveryoneServed` (`OwnMarksOnly`: no thread is stopped or waits with a deadline;
the completion has no condition), the EXEC part of `LifeSound` (until an EXEC has gone on past a refused kill, `spared`), and in `Ipc` `SignalNotLost` (nobody waits with a
deadline), `EnteredWhereWaiting` and `FramesTrue` (`OrphansWait`: no thread with a deadline can become
an orphan; `OneServer`: an endpoint has a single server, which uses no deadlines; `OneClient`). Each has
an instance that satisfies it; the worlds of `MCIpc` satisfy `OrphansWait` throughout, and `OneServer` at
every endpoint except in the world of the exchange, which has `OneClient`.

### CapSpace

`slots`, `objects` are the two tables, `issued` every handle (`CapPtr`) ever returned, so that
stale handles are presented too. `fin` is the `Finalized` report of the running or last
operation, `owner` says who answers for a physical region: the allocator, the capability
system, the DMA teardown, or nobody after a failed install. Every operation runs under the CAPS
lock and is one action. Only `revoke` is cut: one step per iteration of its loop, so that the
invariants also see the half-dismantled tree, and no other operation in between. Loops over
links (`ChildList`, `Leaf`) are least closed sets, which is what a bounded walk visits on any
graph, malformed ones included. The `install_*` wrappers differ in the variant only; of the
variants the model tells apart Memory, Dma, Reply, Debuggable and the rest ("Plain", whose
deletion has no effect outside the tables). Operations that return an error change nothing and
are not steps, except `install`, which has consumed its linear `MemoryCap` by then.
Addresses are `0..AddrMax` with every sum of `teilfenster_rechnen` checked against it.
Generations are counted without end and compared modulo `GenMod`, as handles see them.

The comments at `space.rs:133-142` say that one `revoke` may finalise several Reply and DMA objects. In the
code it finalises none: `copy`, `mint` and `subregion` share the object of their source, so every
capability below a root names the root's object, and the root keeps its reference (`refcount` never
reaches zero in the loop). Only `delete` finalises, one object at a time. The buffers of the report are
large enough either way. `RevokeGrounded` therefore says what both readings need: the capability whose descendants go stays, and no report
is lost; the reports a revoke does make are those of debug rights (`drop_debug`).

### Ipc

One core runs one kernel operation at a time with interrupts masked; each endpoint and
notification has a lock that is held for the whole operation; the scheduler lock of the target
core is taken for each question (`frame_of`, `wartet_auf_ipc`) or effect (`unblock`). So an
operation is one action up to the point where it has written into another thread's frame, and
`op[core]` then holds the rest: `Wake` (unblock, for CALL also the blocking of the caller),
the sweeps of `reschedule` and `purge_ipc_queues` object by object, and the waking of orphans.
`frame[t]` is what the kernel has written into a blocked thread's frame, reduced to the result
code, the request an answer belongs to and the badge word; `serving` is the request a server
program has in hand, and becomes "stale" when its client has given up. `Released`,
`TimeoutFrame` and `SignOff` are the deadline half of the timer tick; which of the armed
deadlines are due is left open. `Die` is exit, fault, kill and STOP. `SetQuiescing` to
`AbortCall` are the management calls of a reload.

Assumptions: a server program alternates RECV and REPLY at an endpoint (it may serve several,
and may itself call); no thread migrates; IPC is the only block reason; all endpoints fit one
batch of `PURGE_EP_SCHRITT` and the due deadlines fit `FRISTEN_JE_TICK`. A sweep visits the
objects in any order, and a thread in the middle of REPLY or SIGNAL may be killed as well: both
allow more than the code does. Not modelled: the capability grant of REPLY, message contents.

### Sched, Migrate, Redirect

`Sched` keeps the scheduler of a core as one record and writes its methods as operators on it,
under their names; an action is a system call or the timer tick with all the methods it calls.
Time is relative: a deadline or a refill counts the ticks that are left. IPC appears as its
scheduler side only (who blocks, donates, wakes). `impose` stands for the four methods that add a block
reason from outside: `pause`, `mark_handler_wait`, `debug_stop` and one thread of `freeze_group`. `Migrate` has the directory (gid to core and
slot, read without a lock), the balancer in two steps (pick under one lock, move under
another), `with_owner` with its retries, and the reaping of numbers. `Redirect` has the trap
of a guest step by step (read the binding, put the frame into its sidecar slot, block, deliver),
the handler's RECV and REPLY, and SETHANDLER with one step per lock it takes. A REPLY may carry a grant, which
takes the other branch and does not finish the system call. The exit of a handler thread (`exit`: the endpoint's
receivers, and the caller it owes a reply) and the freeing of its PD (`pd_free`) are two operations: after the first
alone the PD is in use and guests go on calling it. The gates of PD and endpoint close and open beside the calls
(`set_quiescing`, `close_endpoint`). Guests queued at an endpoint stay there when its PD is freed. The index of a PD is not given out
again.

### PdFreeze, ThreadDeath, PdLife

`PdFreeze` follows the freezer: gate, list and mark the threads core by core, wait until they
have left their cores, close the channels, judge, and freeze or undo; threads call, receive,
reply, are stopped by a debugger and migrate meanwhile. SPAWN is not behind the gate: a member makes another thread in two
steps, bound to the domain and not admitted, then admitted, while the freezer lists and marks (`birth`). A mark
that comes before `admit` does not keep the thread out of the ready queue ("slipped"). `fz.seen` remembers the
threads that were admitted when the round began. A thread that is woken before it is admitted does not
migrate within that window. `ThreadDeath` follows the things that
hang on a thread slot through exit, fault, kill, stop and destroy, with one step for each table
that is written without a common lock. `PdLife` is the same for VSpace, ASID, image and control
capability of a domain over load, fork, exec, stop and exit, with a failure possible at every
allocation, at the control capability of a fork (no room, or refused by the policy) and at `admit`; each ends on the
clean-up path of its caller. FORK_SCRATCH is held over a whole fork, LOAD_SCRATCH only inside
`load_into_pd_mit_va`: an EXEC reads its ASID, kills, rebinds and tears down without it, so that two
EXECs of one domain overlap. `spared` remembers that an EXEC went on although a kill was refused.

### IrqDelivery, Msi, DmaTeardown

An interrupt may come between any two steps of a drain or a binding. `Msi` grants take vectors
one compare_exchange at a time, write the remapping table and its rows, and may fail at every
invalidation; the unit caches entries. In `DmaTeardown` the operations hold DMA_CTX, but devices
go on between any two accesses: they write through cached or present translations, their writes
land later, and a device may stop answering on its configuration space. A unit may fall silent after it has
served an attach (`SyncFails`): then `caps_common` is None, attach and detach return early and change nothing, and
finalize gives a good verdict to the whole batch (`finalize_silent`). Only the VT-d enforcer is
modelled. Callers attach a region once and do not delete its capability during an attach or
detach, as in `grossdma.rs` and `system.rs:10299`.

### PhysAlloc, Colors, locks, Wait

`PhysAlloc` writes `alloc`, `insert`, `coalesce` and the searches as functions on the sorted free
list; `FrameSpec` is what they promise: every frame is free or owned by exactly one capability.
`Colors` has one step per access to STRIPES_TAKEN and the VSpace table. The locks are modelled
instruction by instruction, with a thread and an interrupt handler on every core that both use
the lock; `LockSpec` is an abstract shared and exclusive lock. `Wait` has one step per operation
on the inner lock, and marks from elsewhere (`Kthread::stop`). A deadline is set when the thread parks; the kernel's wake-up at the
deadline and the thread's own removal from the list are two steps, with completes, unlocks and
stops in between. UNPARK does not clear a deadline, so one that is left over may end a later park, that of the
mutex too. Marks are those of `park` and `unpark` in the scheduler (`park_wake`).

## Runs

| run | instance | checks |
|---|---|---|
| `cap_tree` | 4 slots, 3 objects, one release per slot; reply and debug objects | `LinksReciprocal`, `ChildListsExact`, `RefcountExact`; `RevokeGrounded` (no cycle, no lost report, the revoked root stays); `RevokeSound` (nothing below is left, lost debug rights are reported); `RevokeReturns` |
| `cap_handles` | 3 slots, two releases, generations modulo 3, four addresses; memory and DMA | `Attenuation`, `RegionOwnership`, `HandlesSound` |
| `ipc` | 2 cores, 3 threads; worlds: deaths, deadlines, signals, exchange of a server | `EnteredWhereWaiting`, `FramesTrue`, `SignalNotLost`, `QuiesceShrinks`, `WaitsEnd` |
| `ipc_stale_deadline` | one waiter with and without a deadline | violation, below |
| `sched` | up to 3 threads and idle; worlds: donation, death, timed parking, aborted calls, imposed reasons | `StateAgrees`, `DispatchedSolvent`, `WaitsEnd` |
| `locks` | 3 cores, tickets modulo 7 from every count; a reader-writer lock with two writers; 3 threads on a mutex and a completion with 2 places, none or one of them stopped, none or one with a deadline | `TicketsInOrder`, `NotInterruptedInside`, `ImplementsLock`; `CountersTrue`, `RwImplementsLock`, `BothKindsGetIn`; `NoWakeUpLost`, `EveryoneServed` |
| `freeze` | a member that spawns another and an outsider, debugger, reload; 2 guests and a handler that grants, exits and is freed; 4 guests, 3 PDs and 2 binders | `FrozenStandsStill`, `AllOrNothing`; `RedirectsTrue` (guests are answered), `TablesSound` (the binding tables agree); `FreezeEnds` (with and without migration) |
| `irq` | 2 cores, 2 drivers; 2 devices with pairs of vectors from a pool of 3 | `NothingHidden`, `EachArrives`; `GrantsSound` |
| `memory` | 30 addresses with holes, seven kinds of requests; a list of two entries; 3 symmetric cores that load and fork on 2 stripes; devices that hang, nest, fail | `FrameOwnership`; `StripesApart`; `TeardownSound`; `MemoryTrue` (the free list, and nested and failing teardowns) |
| `life` | 2 cores, 2 slots, 3 stacks, rings of one and two places; 3 threads and 2 PDs; 3 numbers on 2 cores and a waker | `StackKept`; `LifeSound` (what runs is mapped, `RunsMapped`; what is gone comes back once, `Accounted`; a number is lost at a full ring only, `Losses`); `HitsTheNamed` |
| `dma_detach` | one device, one region, callers that detach | violation, below |
| `exec_tables` | as `life` | violation, below |

Bounds. Four slots give every shape that matters to a move: parent, both siblings and children,
all different; three entries of a report suffice for four slots. `MaxRelease < GenMod` keeps the
wrap of generations out, after which the code itself does not promise that a stale handle stays
dead. Two cores and three threads are the least in which a third party acts between the two
halves of a rendezvous, a migration or a teardown. Queues, zombie rings, wait places, stripes,
slots and context entries are so small that they fill up. Seven ticket values are one more than
the contexts, so that the wrap meets a full queue. Three regions at one device are the least in
which a batch of two leaves one behind. `CHECK_DEADLOCK FALSE` stands where everything may be
dead, frozen or used up in a bounded model (`cap_*`, `ipc`, `freeze`, `memory`, `life` and the
violations on their modules), and in `locks`, where all threads may sleep after a left-over mark has
cost a hand-over (see the table).

Fairness. `revoke` is a loop under its lock: weak fairness on its steps. In `Ipc` a kernel
operation under way runs to its end since interrupts are masked (weak fairness of `Proceed`); an
armed deadline meets a tick, which is a pending interrupt held back while the core is in the
kernel (strong fairness per thread). In `Sched` the timer runs. A core executes its
instructions: weak fairness of each context inside a lock and of the return of a handler. Threads
in `Wait` go on when they can. The freezer runs in the kernel. In `IrqDelivery` a pending interrupt is taken
and every core reschedules now and then. No fairness is assumed of user programs, of other
domains or of devices.

Every property has at least one mutant of a mapped definition in `PROJECT.json`, the change a
plausible slip in that code would make, under which TLC finds it violated.

### Statements the code does not keep

Three are runs, with findings in `PROJECT.json`:

* `ipc_stale_deadline` (`TimeoutOwnWait`): a deadline belongs to its wait (`sched/lib.rs:1248`), but
  `frist_loeschen` has no caller. WAIT with timeout, signal, WAIT without: the old deadline ends it.
* `dma_detach`: memory comes back only after a confirmed stand-still (`system.rs:9322`), but
  detach drops the answer of `ctx_quiesce`, and the later deletion finds no context.
* `exec_tables` (`NeverUnderLive`): no live thread ever points to freed tables (`system.rs:4504`), but EXEC goes on
  past a thread that is running and whose kill was refused.

The others were met while modelling. The passing runs exclude exactly these circumstances; each can
be reproduced by checking the named definition under the named constants.

| statement | module, property | circumstances | what happens |
|---|---|---|---|
| the signal wins (`sched/lib.rs:1309`) | `Ipc`, `SignalWins` | one timed waiter, two cores | a tick between frame write and unblock replaces OK by ERR_TIMEOUT |
| one reply receiver per rendezvous (`ipc/lib.rs:317`) | `Ipc`, `NoThreadLost`; `ReplyMatches` | two servers at an endpoint | the second rendezvous overwrites the token of the first |
| dead receivers cause no panic (`ipc/lib.rs:774`) | `Ipc`, `NoPanic` | mortal server on the caller's core | kill between `owner_core` and `switch_to` |
| orphans are released once (`system.rs:14814`) | `Ipc`, `NoGhost` | timed caller, mortal server | the orphan times out, calls again, gets ERR_SERVER_GONE for the new call |
| the old instance ends by itself (`loader.rs:1268`) | `Ipc`, `RetiredServerEnds` | reload | it stays blocked in RECV |
| no depleted thread is ready (`sched/lib.rs:2328`) | `Sched`, `NoDepletedReady` | budgets, timed calls | `fristen_faellig` does not look at `depleted` |
| no run over the budget | `Sched`, `DispatchedSolvent` | chain of three, killing | two threads share an account after the one between them died |
| no runnable thread is lost (`sched/lib.rs:2325`) | `Sched`, `NoLostThread` | budgets, aborting | a stale `sc_donee` keeps the refill from waking |
| no blocked thread is ready (`sched/lib.rs:2322`) | `Sched`, `NoBlockedReady` | `early` | a freeze before `admit` |
| a due deadline is delayed only (`sched/lib.rs:1314`) | `Sched`, `DeadlineEndsWait` | three parkers, timeout 1, period 1 | lower slots use up the releases of every tick |
| failure without change of owner is real (`system.rs:1375`) | `Migrate`, `FailureIsReal` | four retries | the thread is away and back between two look-ups |
| a zombie is always recorded (`sched/lib.rs:2586`) | `Migrate`, `GidReturns` | three cores | the ring is full, the number never returns (`LossNamed` of `ThreadDeath`, checked with `ZombieCap = 1`, says that this is the only way) |
| slots are exclusive (`redirect.rs:48`) | `Redirect`, `SlotExclusive` | both binders hold all guests | two unbinds give a slot back twice |
| the kernel writes into the guest's own frame (`redirect.rs:48`) | `Redirect`, `OwnAnswer` | unbinding during a trap, one slot | the binding read on entry is stale |
| a dead guest's slot comes back (`microkit/lib.rs:699`) | `Redirect`, `SlotsOwned` | binding and killing | only unbinding frees it |
| the count of bound threads (`microkit/lib.rs:693`) | `Redirect`, `EdgeTrue` | `"rebind"` | a second bind to the same handler counts again |
| several handler threads (`redirect.rs:54`) | `Redirect`, `NoGuestLost` | two handlers in a PD | the endpoint keeps one caller |
| REPLY at a handler's endpoint finishes the system call (`microkit/lib.rs:2564`) | `Redirect`, `ReplyFinishes` | those of `freeze` | not the branch with a grant (2651): HANDLER stays |
| the caller of a dead server is unblocked with ERR_SERVER_GONE (`ipc/lib.rs:663`) | `Redirect`, `ServerGoneWakes` | those of `freeze` | a guest keeps the reason HANDLER, which only `handler_reply` takes away |
| a frozen PD begins nothing new (`system.rs:13609`) | `PdFreeze`, `CutClosed` | a member that calls out | gate and endpoint are under different locks |
| remembered receivers were receivers | `PdFreeze`, `NoGhostReceiver` | a member that serves | it was called and replied meanwhile |
| no caller queues beside a receiver | `PdFreeze`, `OneSideWaits` | two serving members | the channel is closed for a single receiver only |
| every thread stands (`system.rs:13397`) | `PdFreeze`, `FrozenStands` | `Balancing`, two cores | a thread moves behind the listing |
| every thread of a frozen PD stands, none runs (`system.rs:13397`) | `PdFreeze`, `EveryThreadStands` | those of `freeze` | SPAWN is not behind the gate (`microkit/lib.rs:2333`, the gate is at 2612): a member that is listed and still on its core makes one more thread |
| any open relation prevents the freeze (`system.rs:13281`) | `PdFreeze`, `JudgedWhole` | two endpoints | only the first partner is looked at |
| nothing frees the tables of a live thread (`system.rs:4505`) | `PdLife`, `LiveMapped`; `OneOwner` | `Siblings` and fork; three PDs, four threads, ten frames and exec | STOP before `admit`; two overlapping EXECs of a PD free the same tables twice (a refused kill alone: run `exec_tables`) |
| EXIT frees all resources (`system.rs:5855`) | `PdLife`, `VSpaceHasThread` | load and exit | VSpace and image stay |
| by-slot clean-up comes before reaping | `ThreadDeath`, `VSpaceKept` | `Deaths = {"stop"}` without `CrossReap` | STOP writes into the successor's slot |
| double release of a stripe is harmless (`colors.rs`) | `Colors`, `ColoursApart` | `Kinds = {"auto"}`, three cores | another core has claimed it in between |
| no fall-back colours (`colors.rs:80`) | `Colors`, `ColoursApart` | `"fork"` | the child shares its mother's colours |
| freeing merges (`alloc.rs:6`) | `PhysAlloc`, `NothingLost` | list of two entries | `insert` refuses before it looks for a neighbour |
| first fit (`alloc.rs:5`) | `PhysAlloc`, `FirstFit` | any | the smallest usable part is taken |
| level interrupts are locked until the drain (`system.rs:7498`) | `IrqDelivery`, `EachArrives` | `Maskable` | nobody unmasks them |
| binding replaces the entry (`system.rs:7555`) | `IrqDelivery`, `NeverTorn`, `OneEntryEach` | two requests for one interrupt | three stores, two claims |
| nothing is in flight when vectors come back (`system.rs:9876`) | `Msi`, `NoMisroute` | `DeadConfig` | the answers of device and unit are not looked at |
| an index is not reused while cached (`irte.rs:660`) | `Msi`, `FreeIsForgotten` | `WeakGrant` | `ruecknahme` frees after a failed invalidation |
| an attach that fails leaves nothing | `DmaTeardown`, `NoStrayWrite` | `MAX_CTX_REGS` too small, `MapFails` or `SyncFails` | the mapping of a refused attach may already be in use, and no later step finds it |
| without a unit there never was a translation (`system.rs:8476`) | `DmaTeardown`, `GoodVerdictUnmapped` | `SyncFails` | `caps_common` is None also for a unit that has fallen silent: finalize reports regions as torn down that are still in the tables |
| no starvation of writers (`sync/lib.rs:916`) | `RwSpinLock`, `WriterGetsIn` | two writers | one loses every compare_exchange |
| unlock wakes one who waits (`wait/lib.rs`) | `Wait`, `MutexHandedOn` | a thread stopped or with a deadline | a mark left behind lets a thread enter the list twice; its stale entry takes the wake-up, and the next waiter sleeps on a free mutex |
| a deadline takes its entry out, so no complete leaves a mark (`timeout.rs:26`) | `Wait`, `DeadlineLeavesNoMark` | one thread with a deadline, none stopped | a complete between the kernel's wake-up and the removal (`timeout.rs:156`) finds the entry of a thread that is awake |

## Refinement

`SpinLock` and `RwSpinLock` implement `LockSpec` (`ImplementsLock`, `RwImplementsLock`): the abstract holders are the
contexts whose guard exists. `PhysAlloc` implements `FrameSpec` as long as its list has room
(`FrameOwnership`): the abstract free set is the union of the list's regions. The first two are proved
as well as checked.

## Proofs

The theorems hold for every value of the constants that satisfies the assumption of its module.
`TablesAssumption`, `IpcAssumption`, `DeathAssumption`, `IrqAssumption`, `TicketAssumption` and `RwAssumption` are ASSUMEs of the modules;
`MsiAssumption`, `MigrateAssumption`, `PdFreezeAssumption`, `RedirectAssumption`, `WaitAssumption`, `DmaAssumption` and `ColorsAssumption` are
definitions, since a run has several instances of some of them: they stand as ASSUME in the theorem,
and the MC modules ASSUME them of every instance, so TLC evaluates all of them.

| theorem | states | module |
|---|---|---|
| `TypeCorrect`, `LinksCorrect`, `ListsCorrect`, `RefcountsCorrect` | `TypeOK`, `LinksReciprocal`, `ChildListsExact`, `RefcountExact` | `CapSpaceProofs` |
| `AuthorityShrinks`, `RegionsOwned` | `Attenuation`, `RegionOwnership` | `CapSpaceProofs` |
| `HandlesStaySound` | `HandlesSound`, if `MaxRelease < GenMod` | `CapSpaceProofs` |
| `RevokeIsGrounded`, `RevokeIsSound` | `RevokeGrounded`, `RevokeSound`, if `NSlots <= NObjects + 1` | `CapSpaceProofs` |
| `IpcTypes` | `TypeOK`, in every world | `IpcProofs` |
| `IpcEnteredWhereWaiting`, `IpcFramesTrue`, `IpcSignalNotLost`, `IpcQuiesceShrinks` | `EnteredWhereWaiting`, `FramesTrue`, `SignalNotLost`, `QuiesceShrinks` | `IpcProofs` |
| `StackStaysWithThread` | `StackKept`, whoever is stopped or reaped from elsewhere | `ThreadProofs` |
| `NumbersAccounted` | `GidsAccounted` (numbers apart, and lost only with a death at a full ring), for rings of any length | `ThreadProofs` |
| `OrderlyDeaths` | `VSpaceKept` and `StacksAccounted`, without STOP and without reaping for another core | `ThreadProofs` |
| `MigrateInvariant`, `DirectoryAgrees`, `NumbersStayApart`, `WithOwnerHits` | the invariant, `DirectoryExact`, `GidOnce`, `HitsTheNamed` | `ThreadProofs` |
| `IrqTypeOK`, `IrqNothingHidden` | `TypeOK`, `NothingHidden` | `InterruptProofs` |
| `MsiGrantsSound` | `GrantsSound` | `InterruptProofs` |
| `FreezeInvariant`, `FreezeAllOrNothing`, `FreezeStandsStill`, `AlienLock` | the invariant, `AllOrNothing`, `FrozenStandsStill`, `AlienLockStands` | `PdFreezeProofs` |
| `RedirectsStayTrue` | `RedirectsTrue` (and so `TablesSound`), for both settings | `PdFreezeProofs` |
| `WaitInvariant`, `WaitNoWakeUpLost` | the invariant, `NoWakeUpLost` | `LockProofs` |
| `DmaInvariant`, `DmaTeardownSound` | the invariant, `TeardownSound` | `MemoryProofs` |
| `StripesStayApart` | `StripesApart` | `MemoryProofs` |
| `LoadedStayApart` | `ColoursApart`, where domains are only loaded | `MemoryProofs` |
| `SpinLockTypeOK`, `SpinLockTicketsInOrder`, `SpinLockNotInterruptedInside`, `SpinLockImplements` | `TypeOK`, `TicketsInOrder`, `NotInterruptedInside`, `ImplementsLock` | `LockProofs` |
| `RwSpinLockTypeOK`, `RwSpinLockCountersTrue`, `RwSpinLockImplements` | `RwTypeOK`, `CountersTrue`, `RwImplementsLock` | `LockProofs` |

### Capability space

The first four rest on `Inductive`, `Spec => []IInv`. None of its parts is inductive alone: the
type of `refcount` needs the counts to be right when delete subtracts one, the counts need
every used slot to name a used object, deleting a leaf needs the links to be reciprocal, and
moving a capability needs the walk over its child list to find every child. The child list is
a least closed set; `ListsReach` turns `ChildList = Kids` into "the children are closed under
next, and every closed set with the first child contains them", a form without CHOOSE or
recursion, which `LinkChildTree`, `UnlinkTree` and `MoveSlotTree` show to be kept by the three
rewirings. `LeafUsed` shows that the leaf revoke picks is a used slot other than the revoked
one. `AuthorityShrinks` adds `Attenuation` to this invariant: a new child is within its source by
the checks of `teilfenster_rechnen`, and no other operation changes what a surviving slot or
its parent authorises, because the object of a used slot is never freed.

The rest uses `StepShape`: every step makes one capability over a new object, derives one, moves one,
drops a leaf, or leaves slots and objects alone (`Makes`, `Derives`, `Moves`, `Drops`, `Quiet`). On these
shapes the arguments are short. `RegionsOwned` keeps `OwnersTrue`, region ownership without
cardinalities. `HandlesStaySound` needs that the generation of a slot counts its releases (`GensBound`) and
that no handle is ahead of its slot (`HandlesPast`); its hypothesis keeps the counter from wrapping,
after which the code does not promise it either. `RevokeIsGrounded` keeps `Acyclic`, `Bottomed` (every
nonempty set of slots in use has a member without a child in the set, so the search for a leaf
finds one) and `ReportFits`: a revoke reports at most one entry for every slot it empties, and the
slots in use bound what is still to come. That needs room for one report per slot other than the
revoked one, hence `NSlots <= NObjects + 1`; the kernel has CAP_OBJECTS = CAP_SLOTS
(`kernel/src/system.rs:2321`). `MCCapSpace` assumes both hypotheses of its instances.

### IPC

The argument has layers, since the properties hold under different conditions.

`Base` holds in every world. With the types it says what an operation under way is
(`OpsTrue`: who is in the middle of what is determined by the kind of the operation, and no two cores
are behind the same endpoint or notification), that only threads with the right are entered at an
endpoint and only threads of `timed` have deadlines (`Habits`), and that a dead thread is entered only where the sweep of its death is still to come
(`DeadSwept`). The module states first, for every action, its effect on a single endpoint and a single
thread; all later proofs use these effects, not the actions.

`Live` needs `OrphansWait`. A live thread that is entered is in the matching system call, blocked, with
an untouched frame, and nobody is about to wake it - or its deadline was first, its result word is written
and the sweep of its own core will take it off. A thread about to be woken has its result and is entered
nowhere. Neither `NoGhost` nor `FrameUntouched` is inductive alone: that a waker finds an untouched frame
follows from the place it takes the thread from, and that a thread leaves no place behind follows from
the frame. The condition is needed at one point only: an orphan that times out before it is released is
in user mode, or in another call, when the release comes.

`Settled` needs `OneServer` or `OneClient` as well: the caller in the reply token is the request its
server has in hand or will find in its frame (`Serves`), so the next RECV overwrites no token (`NobodyLost`)
and REPLY answers the request it belongs to (`Answers`).

`OwedCarried`, without deadlines: each owed badge is pending or in the frame of a live thread in WAIT.
The step that matters is a death between the writing of the frame and the waking.

`Enters`, `HandsBack` and `Shrinks` say what a step may do to the queues and the token of an endpoint: a
CALL or RECV past the gate meets somebody or leaves the other queue empty, migrate_owner hands the open call back to the
queue, and everything else only takes away. `NoMissedRendezvous` and `QuiesceShrinks` follow.

### Threads that die and move

`ThreadDeath`: `DInv` holds on every path, with STOP and with reaping for another core. A core that cleans up behind a
dead thread remembers a generation below that of the directory (`InHand`): the entry was advanced
before anything was given back, and every birth takes the generation it finds. A live thread has its stack booked
under the directory's generation (`LiveBooked`), so the comparison in `reclaim_user_kstack` fails for
every successor; that is all of `StackKept`, together with stacks being in one hand (`HandsApart`,
`BookedApart`). `Slotted` says that a slot is in at most one place and that free list, rings and hands hold it at
most once; `GidsApart` follows. `SlotsKept` says of every step that a slot which is in some place before it is in some place after
it, unless its thread dies in this step and the ring of its core is full. That exception is the code's own: it sizes the ring
by the places of one core and drops a zombie when it is full. `NumbersAccounted` states both
for rings of any length.

VSpaces are looked up by slot alone, without a generation. So `VSpaceKept` needs that the slot of a thread
whose core still cleans up is nobody's (`Withdrawals`), and that is where the hypotheses of
`OrderlyDeaths` come in: the own core reaps only when it is done, but another core may reap, and STOP acts on a
slot it read before. `StillBooked`, that the stack remains booked until it is reclaimed, gives
`StacksAccounted`.

`Migrate`: `MInv` says that tables and directory name each other (`Placed`) and that numbers are apart
(`Numbers`). Taking out of one table, putting into the other and publishing the new home is one step under both locks; with
the publication left out the invariant fails at once. `WithOwnerHits` follows since `resolve` compares core and generation under the lock: the
slot it returns holds the thread that was named. That the look-up without a lock is right is never used.

### Interrupts

`IrqNothingHidden` needs with `TypeOK` only that a routine between two atomics holds the number of an
entry that exists. `MsiGrantsSound`: the state of a device's grant says which vectors it has taken and
which entries it has reserved, written and had confirmed (`Vec`, `Ent`, `Wr`, `Cf`). `MsiInv` says that the
pool is exactly the taken vectors, each of one device, that an entry in use belongs to one device,
that what the table holds was written by the holder of the entry, and that the unit's cache agrees
with it once confirmed. The roll-back of a partial grant is the same picture run backwards.

### Freeze and waiting

`FInv` ties four things to the stage of the freezer: the threads to be done are listed (`ListKept`), the
freeze reasons grow and shrink with the list (`MarksKept`), the channels closed by the freezer are those
it has noted down, with no sender in them (`ChannelsKept`), and a thread blocked in RECV is entered or is
a receiver the freezer has taken out and knows where to put back (`ReceiversKept`). `AllOrNothing` alone
is not inductive: it speaks of the idle freezer, and all of these are needed to get back there from a
refusal. `FreezeStandsStill` adds `ListWhole`, which holds only while nothing migrates: the threads of `fz.seen` are listed, or
still to come on a core not yet visited, and off the cores once the domain is frozen. It needs `SeenKept`: a
thread that was admitted before the round stays so, and one that slipped into a ready queue leaves it when it is
marked. Threads SPAWNed later are not covered: the code does not stop them (`EveryThreadStands` in the table above).

`WInv` is `TypeOK`, `ParkedListed` (who is about to sleep has a mark or is in the list that wakes it) and
`Exclusive`. It holds with deadlines and wakes from elsewhere in any number, and gives the two parts of `NoWakeUpLost` about sleepers
and completions without a condition. `MutexHandedOn` needs `Exact` (a mark or an entry only where a thread
is about to sleep or sleeps, one entry each) and `Handed` as well, which fail as soon as a mark stays with a thread that waits no longer; hence `OwnMarksOnly`.

`QueueProofs` has what enqueue, dequeue and remove do to the entries of a list. `Without` is a recursive
function over the length of the list; what it leaves is proved by the least counterexample (`WFMin` gives
`LeastNatural`), not by an induction theorem.

### Redirected calls

`RedirectsStayTrue` has an invariant for each setting; both are closed under every action the setting
allows: exits of handler threads, freed PDs, replies with a grant and closed gates included.

`CInv`, where bindings stay: for every guest, endpoint and handler thread it says where in the protocol it
is. A guest in its trap works with the binding it has, and no other live guest has its slot (`Bindings`); from
`sidecar_ablegen` until the handler answers, the slot holds its own call (`InSlot`). A queued guest and the caller
of an endpoint have both block reasons; a guest that has had the reply and not yet the result has one, and
a handler thread is on the way to it (`HalfWay`, `Where`). A handler thread has the caller's call in hand, or
that of a guest that died meanwhile, in which case the slot is nobody's (`HandlerTrue`); the caller of an endpoint always has
a handler thread of its PD that owes the reply (`EpTrue`). The two ways a guest is left with the reason HANDLER
alone are visible in its frame (`Adrift`): a REPLY with a grant, and the death of the thread that owed the reply. `NoGuestLost` names them; nothing else
strands a guest. `NoGuestLost` and
`OwnAnswer` depend on each other here: that the wake-up releases a guest with the right frame follows from
what the handler had in hand when it wrote the slot, and that somebody will come from the place of the
guest. With two handler threads at an endpoint, or a binding that changes under a trap, `HandlerTrue` and
`Bindings` fail, as in the table above.

`TInv`, where bindings change: a binding the tables know of is at its thread, or with a SETHANDLER on its way there
or back (`Entry`), never both (`CtlTrue`; here each caller needs threads of its own). Edges, counts and masks are those
of the entries at every moment (`EdgesEntered`, `SlotsEntered`), so they are those of the threads
when no SETHANDLER is under way. `EdgesGrounded`: every nonempty set of PDs has one whose edge leaves the set. For a
new edge `NoNewRing` shows that a set it closes would hold every PD the walk of `pruefe_bindung` visits, from the
handler to the end of its chain; but that end has no edge. `kette` is a recursive function; that it exists and what its steps
are is shown by the least counterexample (`ChainExists`, `KetteStep`). The order of the locks matters: the
edge is entered before the thread is bound and taken away after it is unbound.

### Devices and colours

`DmaInv` has three layers. Without any condition: the record of the operation under DMA_CTX is
consistent (`OpKept`), `quiesce_depth` of a device is the number of regions of its group that the running
teardown holds still (`DepthsTrue`), and an armed device that answers is bus master or will be again from
`saved_cmd` (`ArmedServed`); this gives `StillServed`, also where the unit falls silent. Where every attach is entered: tables translate what
is entered, for one group each, the unit caches no more except in a teardown before its
invalidation, and a teardown finds the group of every region of its batch (`TablesTrue`); this gives
`PendingIsolated`. And where no region is detached beneath a device that may hang: a verdict "quiet" is
about devices that cannot write and have nothing in flight (`VerdictsTrue`), and a write under way goes
where a translation is or to a region that will not come back (`FlightsTrue`); this gives `NoStrayWrite`.

`StripesStayApart`: a stripe is in the hand of a core between its claim and the binding, or tied to a
VSpace (`Hand`, `Tied`). `OwnedOnce` says that a taken stripe is in exactly one such place and others in
none; `Stages` that a VSpace under construction belongs to one core. Each access to STRIPES_TAKEN or the
VSpace table moves one stripe between two places. `Masks` says that the colours of a VSpace are those of
its stripe, or of the one it is about to be tied to; a fork that finds no stripe keeps its mother's. Where
domains are only loaded nobody shares colours at all: `LoadedStayApart`.

### Locks

`SpinLock`, for any finite set of cores and more ticket values than contexts: the inductive
invariant is `TypeOK`, `TicketsInOrder` and `MaskInv` (a thread inside the lock runs on its core with
interrupts masked). `TicketsInOrder` counts: the distance from `now_serving` to `next_ticket`, across the
wrap, is the number of tickets out, so with fewer contexts than values a new ticket never meets an
old one (`Room`, `Wrap`); exclusion follows, since a holder has the served ticket and tickets differ.

`RwSpinLock`, for fewer contexts than `RW_WRITER`: the inductive invariant is `RwTypeOK` and
`CountersTrue`, which equates the packed word with the cardinality of the registered readers plus the
writer bit.

### Only model-checked

* All liveness (`RevokeReturns`, `WaitsEnd`, `EveryoneServed`, `BothKindsGetIn`, `FreezeEnds`,
  `EachArrives`): fairness and ENABLED are beyond the prover.
* `MemoryTrue` and `FrameOwnership` of the frame allocator: `insert`, `coalesce` and the searches are folds
  over the list, and what a fold computes for every list is an induction over data.
  The rest of `MemoryTrue` is `TeardownSound` of two more instances, which the theorem covers.
* `LifeSound` joins the theorems about `ThreadDeath` and `Migrate` with the properties of
  `PdLife` (`LiveMapped`, `VSpaceHasThread`, `OneOwner`, `ImagesFit`), which are not proved.
* `StateAgrees`, `DispatchedSolvent` (`Sched`): not attempted. They hold in worlds
  that exclude the circumstances of the table above, and the invariant that proves them has to say so.

## Not modelled

* Compositions: the finalisation of a delete (reply capabilities that abort a call, debug rights that
  release a thread, DMA regions) runs in `CapSpace`, `Ipc`, `Sched` and `DmaTeardown` separately;
  the window between the CAPS lock and these steps is therefore not explored for replies and debug rights.
* SMMU enforcer, sharing of contexts, IOVA windows; arenas for stacks; slabs, heap, regions: sequential
  structures with one owner, or hardware variants of what is modelled.
* Loading itself (archives, manifests, certificates, ELF), file systems, partitions, virtio: parsers over
  bytes that keep nothing between two calls.
* Boot (`arch/*/bringup.rs`), page tables, interrupt controllers, timers: hardware access. Linux
  personality, user programs, self tests and measurements: no state of the kernel depends on them.

Most of the repository's lines are of these kinds: self tests and boot alone make up a quarter of
`kernel/`, so the map covers the concurrent core and not most of the lines.

What is worth proving next: `StateAgrees` of `Sched`; `OneOwner` of `PdLife`.
