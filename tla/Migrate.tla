------------------------------ MODULE Migrate ------------------------------
(***************************************************************************)
(* Threads that move between cores: the thread directory, the per-core     *)
(* TCB tables and zombie rings, the load balancer, and the access of other *)
(* cores to a thread over with_owner, which looks up the owner without a   *)
(* lock, takes that core's lock and tries again when the thread has moved. *)
(*                                                                         *)
(* Idle threads are left out; a core without a current thread idles.       *)
(***************************************************************************)
EXTENDS Integers, Sequences, FiniteSets, SequencesExt

CONSTANTS CoreIds,      \* numbers of the cores
          PerCore,      \* TCB slots and zombie entries of a core
          Gids,         \* numbers of the thread directory
          Wakers,       \* contexts on some core that reach threads over with_owner
          Retries,      \* MIGRATION_RETRIES
          Threshold,    \* IMBALANCE_THRESHOLD
          GenBound      \* bound on the generations of a directory entry

MigrateAssumption ==
  /\ CoreIds \subseteq Nat /\ {PerCore, Retries} \subseteq Nat \ {0}
  /\ Threshold \in Nat /\ GenBound \in Nat

Locals == 1..PerCore
Nowhere == -1
ThreadId == [slot : Gids, gen : 0..GenBound]
NoTcb == [used |-> FALSE, gid |-> Nowhere, gen |-> 0, ready |-> FALSE, parked |-> FALSE,
          wake |-> FALSE]

VARIABLES
  tcbs,      \* the TCB table of each core
  current,   \* the local slot that runs on each core
  directory, \* where each thread lives
  gid_free,  \* the free list of directory numbers
  rings,     \* the zombie ring of each core
  reaped,    \* numbers taken from a ring and not yet released
  pick,      \* the candidate of a core's balancer, and where it is to go
  call       \* the with_owner call each waker is in

migrateVars == <<tcbs, current, directory, gid_free, rings, reaped, pick, call>>

NoCall == [pc |-> "idle", tid |-> [slot |-> Nowhere, gen |-> 0], op |-> "unpark",
           core |-> Nowhere, tries |-> 0]
NoPick == [tid |-> [slot |-> Nowhere, gen |-> 0], dst |-> Nowhere]

MigrateInit ==
  /\ tcbs = [c \in CoreIds |-> [l \in Locals |-> NoTcb]]
  /\ current = [c \in CoreIds |-> Nowhere]
  /\ directory = [g \in Gids |-> [used |-> FALSE, gen |-> 0, core |-> 0, local |-> 0]]
  /\ gid_free = Gids
  /\ rings = [c \in CoreIds |-> <<>>]
  /\ reaped = {}
  /\ pick = [c \in CoreIds |-> NoPick]
  /\ call = [w \in Wakers |-> NoCall]

-----------------------------------------------------------------------------

tid(t) == [slot |-> t.gid, gen |-> t.gen]

owner_core(id) ==
  LET e == directory[id.slot]
  IN IF e.used /\ e.gen = id.gen THEN e.core ELSE Nowhere

\* The local slot of a thread on core c, Nowhere when it is dead or lives elsewhere.
resolve(c, id) ==
  LET e == directory[id.slot]
  IN IF /\ e.used /\ e.gen = id.gen /\ e.core = c
        /\ tcbs[c][e.local].used /\ tcbs[c][e.local].gen = id.gen
     THEN e.local ELSE Nowhere

core_load(c) == Cardinality({l \in Locals : tcbs[c][l].used})
FreeLocals(c) == {l \in Locals : ~tcbs[c][l].used}

\* alloc_tcb and admit: a slot of the core, a number, the generation the directory kept for it.
Spawn(c) ==
  /\ FreeLocals(c) # {}
  /\ \E g \in {h \in gid_free : directory[h].gen <= GenBound} :
     LET l == CHOOSE f \in FreeLocals(c) : TRUE
     IN /\ tcbs' = [tcbs EXCEPT ![c][l] = [NoTcb EXCEPT !.used = TRUE, !.gid = g, !.ready = TRUE,
                                                        !.gen = directory[g].gen]]
        /\ directory' = [directory EXCEPT ![g] = [used |-> TRUE, gen |-> @.gen,
                                                  core |-> c, local |-> l]]
        /\ gid_free' = gid_free \ {g}
  /\ UNCHANGED <<current, rings, reaped, pick, call>>

\* The core's scheduler passes the core on, or on to nobody.
Dispatch(c) ==
  \E n \in {l \in Locals : tcbs[c][l].ready} :
    /\ pick[c] = NoPick
    /\ current' = [current EXCEPT ![c] = n]
    /\ tcbs' = [tcbs EXCEPT ![c] = [l \in Locals |->
                  IF l = n THEN [@[l] EXCEPT !.ready = FALSE]
                  ELSE IF l = current[c] THEN [@[l] EXCEPT !.ready = TRUE] ELSE @[l]]]
    /\ UNCHANGED <<directory, gid_free, rings, reaped, pick, call>>

Park(c) ==
  /\ current[c] # Nowhere /\ pick[c] = NoPick
  /\ LET l == current[c]
     IN IF tcbs[c][l].wake
        THEN tcbs' = [tcbs EXCEPT ![c][l].wake = FALSE] /\ UNCHANGED current
        ELSE tcbs' = [tcbs EXCEPT ![c][l].parked = TRUE] /\ current' = [current EXCEPT ![c] = Nowhere]
  /\ UNCHANGED <<directory, gid_free, rings, reaped, pick, call>>

\* The thread in slot l of core c ends.  A full ring forgets the zombie.
record_tcb_zombie(c, l) ==
  LET g == tcbs[c][l].gid
  IN /\ tcbs' = [tcbs EXCEPT ![c][l] = NoTcb]
     /\ directory' = [directory EXCEPT ![g] = [used |-> FALSE, gen |-> tcbs[c][l].gen + 1,
                                               core |-> 0, local |-> 0]]
     /\ rings' = [rings EXCEPT ![c] = IF Len(@) < PerCore THEN Append(@, g) ELSE @]

Exit(c) ==
  /\ current[c] # Nowhere /\ pick[c] = NoPick
  /\ record_tcb_zombie(c, current[c])
  /\ current' = [current EXCEPT ![c] = Nowhere]
  /\ UNCHANGED <<gid_free, reaped, pick, call>>

\* reap_core takes the zombies under the core's lock and releases their numbers after it.
Reap(c) ==
  /\ rings[c] # <<>>
  /\ reaped' = reaped \cup ToSet(rings[c])
  /\ rings' = [rings EXCEPT ![c] = <<>>]
  /\ UNCHANGED <<tcbs, current, directory, gid_free, pick, call>>

release_reaped_gid(g) ==
  /\ g \in reaped
  /\ reaped' = reaped \ {g}
  /\ gid_free' = gid_free \cup {g}
  /\ UNCHANGED <<tcbs, current, directory, rings, pick, call>>

\* balance_once chooses under the core's lock: the loads are read without one.
balance_once(c) ==
  /\ pick[c] = NoPick
  /\ \E d \in CoreIds \ {c} :
       /\ \A e \in CoreIds : core_load(d) <= core_load(e)
       /\ core_load(c) >= core_load(d) + Threshold
       /\ \E l \in Locals :
            /\ tcbs[c][l].ready
            /\ pick' = [pick EXCEPT ![c] = [tid |-> tid(tcbs[c][l]), dst |-> d]]
  /\ UNCHANGED <<tcbs, current, directory, gid_free, rings, reaped, call>>

\* Mutant of attach_migrated: the directory still names the old slot.
AttachUnpublished(d, n, t) ==
  /\ tcbs' = [c \in CoreIds |-> IF c = d THEN [tcbs[c] EXCEPT ![n] = t]
                                ELSE [l \in Locals |-> IF tcbs[c][l] = t THEN NoTcb ELSE tcbs[c][l]]]
  /\ directory' = [directory EXCEPT ![t.gid].core = d]

\* detach_for_migration and attach_migrated under both locks.
attach_migrated(d, n, t) ==
  /\ tcbs' = [c \in CoreIds |-> IF c = d THEN [tcbs[c] EXCEPT ![n] = t]
                                ELSE [l \in Locals |-> IF tcbs[c][l] = t THEN NoTcb ELSE tcbs[c][l]]]
  /\ directory' = [directory EXCEPT ![t.gid].core = d, ![t.gid].local = n]

\* A candidate that died meanwhile stays dead; a full target leaves it where it is.
migrate_to(c) ==
  /\ pick[c] # NoPick
  /\ pick' = [pick EXCEPT ![c] = NoPick]
  /\ LET l == resolve(c, pick[c].tid)
         d == pick[c].dst
     IN IF owner_core(pick[c].tid) # c \/ l = Nowhere \/ l = current[c] \/ FreeLocals(d) = {}
        THEN UNCHANGED <<tcbs, directory>>
        ELSE attach_migrated(d, CHOOSE n \in FreeLocals(d) : TRUE, tcbs[c][l])
  /\ UNCHANGED <<current, gid_free, rings, reaped, call>>

-----------------------------------------------------------------------------
(* with_owner                                                               *)

\* The caller names a thread that lives when it begins.
Begin(w, id, op) ==
  /\ call[w].pc = "idle" /\ owner_core(id) # Nowhere
  /\ call' = [call EXCEPT ![w] = [pc |-> "look", tid |-> id, op |-> op, core |-> Nowhere,
                                  tries |-> Retries]]
  /\ UNCHANGED <<tcbs, current, directory, gid_free, rings, reaped, pick>>

\* The owner is looked up without a lock.
Look(w) ==
  /\ call[w].pc = "look"
  /\ LET c == owner_core(call[w].tid)
     IN call' = [call EXCEPT ![w].core = c,
                             ![w].pc = IF call[w].tries = 0 THEN "gave up"
                                       ELSE IF c = Nowhere THEN "failed" ELSE "try"]
  /\ UNCHANGED <<tcbs, current, directory, gid_free, rings, reaped, pick>>

\* Mutant of Attempt: the slot of the lock-free lookup is used under the lock.
AttemptBlind(w) ==
  /\ call[w].pc = "try"
  /\ LET c == call[w].core
         l == directory[call[w].tid.slot].local
     IN /\ l # 0 /\ call[w].op = "unpark"
        /\ tcbs' = IF tcbs[c][l].parked
                   THEN [tcbs EXCEPT ![c][l].parked = FALSE, ![c][l].ready = TRUE]
                   ELSE [tcbs EXCEPT ![c][l].wake = TRUE]
        /\ call' = [call EXCEPT ![w].pc = "done"]
        /\ UNCHANGED <<directory, rings>>
  /\ UNCHANGED <<current, gid_free, reaped, pick>>

\* The operation under the lock of the core that was looked up.
Attempt(w) ==
  /\ call[w].pc = "try"
  /\ LET c == call[w].core
         l == resolve(c, call[w].tid)
     IN \/ /\ l # Nowhere /\ call[w].op = "unpark"
           /\ tcbs' = IF tcbs[c][l].parked
                      THEN [tcbs EXCEPT ![c][l].parked = FALSE, ![c][l].ready = TRUE]
                      ELSE [tcbs EXCEPT ![c][l].wake = TRUE]
           /\ call' = [call EXCEPT ![w].pc = "done"]
           /\ UNCHANGED <<directory, rings>>
        \/ /\ l # Nowhere /\ call[w].op = "kill" /\ l # current[c]
           /\ record_tcb_zombie(c, l)
           /\ call' = [call EXCEPT ![w].pc = "done"]
        \/ /\ l = Nowhere \/ (call[w].op = "kill" /\ l = current[c])
           /\ call' = [call EXCEPT ![w].pc = "recheck"]
           /\ UNCHANGED <<tcbs, directory, rings>>
  /\ UNCHANGED <<current, gid_free, reaped, pick>>

\* After the lock: another owner means try again, the same one means a real failure.
Recheck(w) ==
  /\ call[w].pc = "recheck"
  /\ LET now == owner_core(call[w].tid)
     IN call' = [call EXCEPT ![w].pc = IF now \notin {Nowhere, call[w].core} THEN "look" ELSE "failed",
                             ![w].tries = @ - 1]
  /\ UNCHANGED <<tcbs, current, directory, gid_free, rings, reaped, pick>>

Return(w) ==
  /\ call[w].pc \in {"done", "failed", "gave up"}
  /\ call' = [call EXCEPT ![w] = NoCall]
  /\ UNCHANGED <<tcbs, current, directory, gid_free, rings, reaped, pick>>

MigrateNext ==
  \/ \E c \in CoreIds : \/ Spawn(c) \/ Dispatch(c) \/ Park(c) \/ Exit(c) \/ Reap(c)
                        \/ balance_once(c) \/ migrate_to(c)
  \/ \E g \in Gids : release_reaped_gid(g)
  \/ \E w \in Wakers : \/ \E id \in ThreadId, op \in {"unpark", "kill"} : Begin(w, id, op)
                       \/ Look(w) \/ Attempt(w) \/ Recheck(w) \/ Return(w)

MigrateSpec == MigrateInit /\ [][MigrateNext]_migrateVars

-----------------------------------------------------------------------------
(* Properties.                                                              *)

Homes(g) == {h \in CoreIds \X Locals : tcbs[h[1]][h[2]].used /\ tcbs[h[1]][h[2]].gid = g}

\* audit code 8: the directory and the TCB tables agree.  A used entry names the one slot that
\* holds the thread, with its generation; a thread without entry is nowhere.
DirectoryExact ==
  \A g \in Gids : LET e == directory[g]
                  IN IF e.used THEN /\ Homes(g) = {<<e.core, e.local>>}
                                    /\ tcbs[e.core][e.local].gen = e.gen
                               ELSE Homes(g) = {}

\* A number is free, names a thread, or waits in one ring to be released; and in one place only,
\* or two threads would share it.
GidOnce ==
  \A g \in Gids :
    LET places == {<<"free", 0>> : x \in gid_free \cap {g}} \cup {<<"reaped", 0>> : x \in reaped \cap {g}}
                    \cup {<<"ring", c>> : c \in {d \in CoreIds : g \in ToSet(rings[d])}}
                    \cup {<<"live", 0>> : x \in {h \in Gids : h = g /\ directory[h].used}}
    IN Cardinality(places) <= 1 /\ \A c \in CoreIds : IsInjective(rings[c])

\* "Zombie IMMER aufzeichnen ...: die gid muss zurueck in die Thread-Freiliste": none is lost.
GidReturns ==
  \A g \in Gids : \/ g \in gid_free \cup reaped \/ directory[g].used
                  \/ \E c \in CoreIds : g \in ToSet(rings[c])

\* What with_owner does under a lock it does to the thread that was named, wherever that has
\* moved: a handle of a dead thread reaches nobody, whoever has its number now.
HitsTheNamed ==
  [][\A w \in Wakers : (call[w].pc = "try" /\ call'[w].pc = "done") =>
       \A c \in CoreIds, l \in Locals :
         tcbs'[c][l] # tcbs[c][l] => tid(tcbs[c][l]) = call[w].tid]_migrateVars

\* "Ein Fehlschlag ohne Besitzerwechsel ist ein echter Fehlschlag": unpark fails only for a
\* thread that is dead.
FailureIsReal ==
  \A w \in Wakers : (call[w].pc = "failed" /\ call[w].op = "unpark") => owner_core(call[w].tid) = Nowhere
=============================================================================
