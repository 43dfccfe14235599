------------------------------- MODULE PdLife -------------------------------
(***************************************************************************)
(* Birth, replacement and death of loaded protection domains: SYS_LOAD,    *)
(* FORK_SNAPSHOT and EXEC_REPLACE build a VSpace step by step, may fail at *)
(* each step and clean up behind them, while threads on other cores fault, *)
(* exit or are stopped.                                                    *)
(*                                                                         *)
(* What is counted is the memory: one frame stands for the tables of a     *)
(* VSpace, one for the segments of an image, one for the user stack.  A    *)
(* core works off one path at a time.  Kernel stacks and slot reuse are in *)
(* ThreadDeath, stripes in Colors.                                         *)
(***************************************************************************)
EXTENDS Naturals, FiniteSets, FiniteSetsExt

CONSTANTS Cores, Tids,
          NPDS,        \* length of VSPACES and of LOADED_IMAGES, number of PDs
          NFrames,     \* frames of memory
          Ops,         \* what may happen
          Siblings     \* TRUE: the PD that forks has other threads

PdLifeAssumption ==
  /\ NPDS \in Nat \ {0} /\ NFrames \in Nat /\ Siblings \in BOOLEAN
  /\ Ops \subseteq {"load", "fork", "exec", "exit", "fault", "stop"}

PdAsids == 1 .. NPDS
Pds == 1 .. NPDS
Frames == 1 .. NFrames
None == 0

VARIABLES mem,        \* the free frames
          vspaces,    \* VSPACES: used, and the frame of the tables
          images,     \* LOADED_IMAGES: the frame of the segments registered for an ASID
          threads,    \* state, ASID, stack and PD of each thread
          pds,        \* the PDs in use
          control,    \* PDs for which somebody holds a control capability
          spared,     \* an EXEC went on although a kill was refused (history)
          job         \* what each core is at

vars == <<mem, vspaces, images, threads, pds, control, spared, job>>

FREI == [used |-> FALSE, tab |-> None]
NoThread == [st |-> "none", asid |-> None, stack |-> None, pd |-> None]
Idle == [op |-> "none", at |-> "idle", me |-> {}, pd |-> None, asid |-> None, segs |-> None,
         stack |-> None, tid |-> {}, old |-> None]

Init ==
  /\ mem = Frames
  /\ vspaces = [a \in PdAsids |-> FREI] /\ images = [a \in PdAsids |-> None]
  /\ threads = [t \in Tids |-> NoThread]
  /\ pds = {} /\ control = {} /\ spared = FALSE
  /\ job = [c \in Cores |-> Idle]

Set(c, new) == job' = [job EXCEPT ![c] = new]
Goto(c, p) == job' = [job EXCEPT ![c].at = p]
Done(c) == Set(c, Idle)

\* A thread that may be scheduled and is not inside a system call.
InUser(t) == threads[t].st = "ready" /\ \A c \in Cores : t \notin job[c].me

-----------------------------------------------------------------------------
(* Building a PD                                                           *)

\* FORK_SCRATCH is held over all of a fork, LOAD_SCRATCH only inside load_into_pd_mit_va: a load
\* has its PD before, and an exec kills, rebinds and tears the old VSpace down without it.
Forking(c) == job[c].op = "fork"
Loading(c) == job[c].op \in {"load", "exec"} /\ job[c].at \notin {"others", "vspace", "rebind"}

load_elf(c) ==
  /\ "load" \in Ops /\ job[c] = Idle
  /\ \E p \in Pds \ pds :
       /\ p = Min(Pds \ pds)
       /\ pds' = pds \cup {p}
       /\ Set(c, [Idle EXCEPT !.op = "load", !.at = "vspace", !.pd = p])
  /\ UNCHANGED <<mem, vspaces, images, threads, control>>

\* The caller's image is what gets copied.
dispatch_fork(c, t) ==
  /\ "fork" \in Ops /\ job[c] = Idle /\ \A d \in Cores : ~Forking(d)
  /\ InUser(t) /\ images[threads[t].asid] # None /\ Pds # pds
  /\ pds' = pds \cup {Min(Pds \ pds)}
  /\ Set(c, [Idle EXCEPT !.op = "fork", !.at = "vspace", !.me = {t}, !.pd = Min(Pds \ pds)])
  /\ UNCHANGED <<mem, vspaces, images, threads, control>>

\* The ASID that will go is read first.  Nothing keeps another thread of the PD from doing the
\* same: the token is good until the first of them is done.
dispatch_exec(c, t) ==
  /\ "exec" \in Ops /\ job[c] = Idle
  /\ InUser(t)
  /\ Set(c, [Idle EXCEPT !.op = "exec", !.at = "others", !.me = {t}, !.pd = threads[t].pd,
                         !.old = threads[t].asid])
  /\ UNCHANGED <<mem, vspaces, images, threads, pds, control>>

\* First the other threads of the PD; one that is running on its core cannot be killed, and with
\* the first refusal the exec goes on.
others(c) ==
  LET rest == {t \in Tids \ job[c].me : threads[t].st # "none" /\ threads[t].pd = job[c].pd} IN
  /\ job[c].at = "others"
  /\ \/ \E t \in rest : /\ \A d \in Cores : t \notin job[d].me
                        /\ threads' = [threads EXCEPT ![t] = NoThread]
                        /\ mem' = mem \cup {threads[t].stack}
                        /\ UNCHANGED <<spared, job>>
     \/ /\ rest = {} \/ \E t \in rest : threads[t].st = "ready"
        /\ spared' = (spared \/ rest # {})
        /\ Goto(c, "vspace") /\ UNCHANGED <<mem, threads>>
  /\ UNCHANGED <<vspaces, images, pds, control>>

\* The paths before there is a VSpace end with the PD given back, if it is new.
GiveUp(c) ==
  /\ pds' = IF job[c].op = "exec" THEN pds ELSE pds \ {job[c].pd}
  /\ Done(c)

create_vspace(c) ==
  LET free == {a \in PdAsids : ~vspaces[a].used} IN
  /\ job[c].at = "vspace" /\ (job[c].op = "fork" \/ \A d \in Cores : ~Loading(d))
  /\ IF free = {} \/ mem = {}
     THEN GiveUp(c) /\ UNCHANGED <<mem, vspaces>>
     ELSE /\ vspaces' = [vspaces EXCEPT ![Min(free)] = [used |-> TRUE, tab |-> Min(mem)]]
          /\ mem' = mem \ {Min(mem)}
          /\ job' = [job EXCEPT ![c].at = "segs", ![c].asid = Min(free)]
          /\ UNCHANGED pds
  /\ UNCHANGED <<images, threads, control>>

\* Segments and stack; a page that cannot be mapped is a failure after the allocation.
segs(c) ==
  /\ job[c].at = "segs"
  /\ IF mem = {} THEN Goto(c, "cleanup") /\ UNCHANGED mem
     ELSE /\ mem' = mem \ {Min(mem)}
          /\ \E next \in {"stack", "cleanup"} :
               job' = [job EXCEPT ![c].at = next, ![c].segs = Min(mem)]
  /\ UNCHANGED <<vspaces, images, threads, pds, control>>

stack(c) ==
  /\ job[c].at = "stack"
  /\ IF mem = {} THEN Goto(c, "cleanup") /\ UNCHANGED mem
     ELSE /\ mem' = mem \ {Min(mem)}
          /\ \E next \in {"spawn", "cleanup"} :
               job' = [job EXCEPT ![c].at = next, ![c].stack = Min(mem)]
  /\ UNCHANGED <<vspaces, images, threads, pds, control>>

\* The thread is created parked, in the new VSpace; the stack is its own from now on.
spawn(c) ==
  /\ job[c].at = "spawn"
  /\ IF \A t \in Tids : threads[t].st # "none"
     THEN Goto(c, "cleanup") /\ UNCHANGED threads
     ELSE \E t \in Tids :
            /\ threads[t].st = "none" /\ \A d \in Cores : t \notin job[d].tid
            /\ threads' = [threads EXCEPT ![t] = [st |-> "parked", asid |-> job[c].asid,
                                                  stack |-> job[c].stack, pd |-> None]]
            /\ job' = [job EXCEPT ![c].at = "register", ![c].tid = {t}, ![c].stack = None]
  /\ UNCHANGED <<mem, vspaces, images, pds, control>>

\* The table is as long as VSPACES and an entry goes with its VSpace: there is always room.
loaded_register(c) ==
  /\ job[c].at = "register"
  /\ images' = [images EXCEPT ![job[c].asid] = job[c].segs]
  /\ job' = [job EXCEPT ![c].at = "bind", ![c].segs = None]
  /\ UNCHANGED <<mem, vspaces, threads, pds, control>>

\* bind_pd, and for a fork the control capability in a slot of the caller: there may be no room
\* for the capability, or the policy refuses it.
bind_pd(c) ==
  /\ job[c].at = "bind"
  /\ threads' = [t \in Tids |-> IF t \in job[c].tid /\ threads[t].st # "none"
                                THEN [threads[t] EXCEPT !.pd = job[c].pd] ELSE threads[t]]
  /\ \/ /\ control' = IF job[c].op = "fork" THEN control \cup {job[c].pd} ELSE control
        /\ Goto(c, "admit")
     \/ job[c].op = "fork" /\ Goto(c, "retreat") /\ UNCHANGED control
  /\ UNCHANGED <<mem, vspaces, images, pds>>

\* Only now the thread may run.  A thread that is gone meanwhile is not admitted: a load gives
\* its PD back, an exec leaves the old version, a fork cleans up.
admit(c) ==
  LET t == CHOOSE x \in job[c].tid : TRUE IN
  /\ job[c].at = "admit"
  /\ IF threads[t].st = "parked"
     THEN /\ threads' = [threads EXCEPT ![t].st = "ready"]
          /\ control' = control \cup {job[c].pd}
          /\ IF job[c].op = "exec" THEN Goto(c, "rebind") ELSE Done(c)
          /\ UNCHANGED pds
     ELSE /\ IF job[c].op = "fork" THEN Goto(c, "retreat") /\ UNCHANGED pds ELSE GiveUp(c)
          /\ UNCHANGED <<threads, control>>
  /\ UNCHANGED <<mem, vspaces, images>>

\* A fork kills the child before it cleans up behind it; nobody can refuse for a parked thread.
retreat(c) ==
  LET t == CHOOSE x \in job[c].tid : TRUE IN
  /\ job[c].at = "retreat"
  /\ mem' = mem \cup ({threads[t].stack} \ {None})
  /\ threads' = [threads EXCEPT ![t] = NoThread]
  /\ job' = [job EXCEPT ![c].at = "cleanup", ![c].tid = {}]
  /\ UNCHANGED <<vspaces, images, pds, control>>

\* exec: the caller moves to the VSpace noted for the new thread's slot, then the one read at
\* the start goes, without LOAD_SCRATCH.
rebind(c) ==
  LET t == CHOOSE x \in job[c].me : TRUE
      n == CHOOSE x \in job[c].tid : TRUE
      new == IF threads[n].st = "none" THEN job[c].asid ELSE threads[n].asid
  IN
  /\ job[c].at = "rebind"
  /\ IF ~vspaces[new].used THEN Done(c) /\ UNCHANGED threads
     ELSE /\ threads' = [threads EXCEPT ![t].asid = new]
          /\ IF new = job[c].old THEN Done(c)
             ELSE Set(c, [Idle EXCEPT !.op = "death", !.at = "images", !.me = {t},
                                      !.asid = job[c].old])
  /\ UNCHANGED <<mem, vspaces, images, pds, control>>

\* Mutant of cleanup: the stack is forgotten.
CleanupSegs(c) ==
  /\ job[c].at = "cleanup"
  /\ mem' = mem \cup ({job[c].segs} \ {None})
  /\ job' = [job EXCEPT ![c].at = "images", ![c].segs = None, ![c].stack = None]
  /\ UNCHANGED <<vspaces, images, threads, pds, control>>

\* What is not yet noted anywhere goes back, then the VSpace and the PD (free_entry).
cleanup(c) ==
  /\ job[c].at = "cleanup"
  /\ mem' = mem \cup ({job[c].segs, job[c].stack} \ {None})
  /\ job' = [job EXCEPT ![c].at = "images", ![c].segs = None, ![c].stack = None]
  /\ UNCHANGED <<vspaces, images, threads, pds, control>>

-----------------------------------------------------------------------------
(* vspace_teardown                                                         *)

loaded_free(c) ==
  LET a == job[c].asid IN
  /\ job[c].at = "images"
  /\ images' = [images EXCEPT ![a] = None]
  /\ mem' = mem \cup ({images[a]} \ {None})
  /\ Goto(c, "tables")
  /\ UNCHANGED <<vspaces, threads, pds, control>>

\* The entry is read under the lock, the tables are freed without it.
free_tables(c) ==
  LET a == job[c].asid IN
  /\ job[c].at = "tables"
  /\ mem' = IF vspaces[a].used THEN mem \cup {vspaces[a].tab} ELSE mem
  /\ Goto(c, "entry")
  /\ UNCHANGED <<vspaces, images, threads, pds, control>>

\* With the entry the ASID can be given out again; a load or a fork that failed frees its PD last.
free_entry(c) ==
  /\ job[c].at = "entry"
  /\ vspaces' = [vspaces EXCEPT ![job[c].asid] = FREI]
  /\ GiveUp(c)
  /\ UNCHANGED <<mem, images, threads, control>>

-----------------------------------------------------------------------------
(* Death                                                                   *)

\* The thread is gone and its stack is reaped; a fault goes on to the VSpace.
die(c, t, how) ==
  /\ how \in Ops /\ job[c] = Idle /\ InUser(t)
  /\ threads' = [threads EXCEPT ![t] = NoThread]
  /\ mem' = mem \cup {threads[t].stack}
  /\ IF how = "fault"
     THEN Set(c, [Idle EXCEPT !.op = "death", !.at = "images", !.asid = threads[t].asid])
     ELSE UNCHANGED job
  /\ UNCHANGED <<vspaces, images, pds, control>>

\* SYS_PDCTL STOP by a holder of the control capability: the ASID is read first.  While the fork
\* that made the capability is on its way, only another thread of that PD can use it.
stop(c, t) ==
  /\ "stop" \in Ops /\ job[c] = Idle
  /\ threads[t].st # "none" /\ threads[t].pd \in control
  /\ Siblings \/ \A d \in Cores : job[d].op = "fork" => job[d].pd # threads[t].pd
  /\ Set(c, [Idle EXCEPT !.op = "stop", !.at = "kill", !.tid = {t}, !.asid = threads[t].asid])
  /\ UNCHANGED <<mem, vspaces, images, threads, pds, control>>

\* Mutant of kill_remote: the VSpace goes although the kill was refused.
TearAnyway(c) ==
  LET t == CHOOSE x \in job[c].tid : TRUE IN
  /\ job[c].at = "kill"
  /\ \/ /\ threads[t].st # "none" /\ \A d \in Cores : t \notin job[d].me
        /\ threads' = [threads EXCEPT ![t] = NoThread]
        /\ mem' = mem \cup {threads[t].stack}
        /\ job' = [job EXCEPT ![c].at = "images", ![c].tid = {}]
     \/ /\ threads[t].st # "parked"
        /\ job' = [job EXCEPT ![c].at = "images", ![c].tid = {}]
        /\ UNCHANGED <<mem, threads>>
  /\ UNCHANGED <<vspaces, images, pds, control>>

\* A thread that is gone, or running on its core, cannot be killed.
kill_remote(c) ==
  LET t == CHOOSE x \in job[c].tid : TRUE IN
  /\ job[c].at = "kill"
  /\ \/ /\ threads[t].st # "none" /\ \A d \in Cores : t \notin job[d].me
        /\ threads' = [threads EXCEPT ![t] = NoThread]
        /\ mem' = mem \cup {threads[t].stack}
        /\ job' = [job EXCEPT ![c].at = "images", ![c].tid = {}]
     \/ /\ threads[t].st # "parked"
        /\ Done(c) /\ UNCHANGED <<mem, threads>>
  /\ UNCHANGED <<vspaces, images, pds, control>>

\* The manager gives a PD without threads back.
destroy_pd(p) ==
  /\ p \in pds /\ p \in control
  /\ \A t \in Tids : threads[t].pd # p
  /\ \A c \in Cores : job[c].pd # p
  /\ pds' = pds \ {p} /\ control' = control \ {p}
  /\ UNCHANGED <<mem, vspaces, images, threads, job>>

Next ==
  \/ /\ \/ \E c \in Cores :
             \/ load_elf(c) \/ create_vspace(c) \/ segs(c) \/ stack(c) \/ spawn(c)
             \/ loaded_register(c) \/ bind_pd(c) \/ admit(c) \/ retreat(c) \/ rebind(c)
             \/ kill_remote(c) \/ cleanup(c) \/ loaded_free(c) \/ free_tables(c)
             \/ free_entry(c)
             \/ \E t \in Tids :
                  \/ dispatch_fork(c, t) \/ dispatch_exec(c, t) \/ stop(c, t)
                  \/ \E how \in {"exit", "fault"} : die(c, t, how)
        \/ \E p \in Pds : destroy_pd(p)
     /\ UNCHANGED spared
  \/ \E c \in Cores : others(c)

Spec == Init /\ [][Next]_vars

-----------------------------------------------------------------------------
(* Properties                                                              *)

\* Frames, PDs and control capabilities stay in their tables; tables go with a used entry.
TypeOK ==
  /\ mem \subseteq Frames /\ pds \subseteq Pds /\ control \subseteq pds
  /\ \A a \in PdAsids : vspaces[a].used = (vspaces[a].tab # None)

\* The owners of a frame of memory; tables that have been freed while their entry is still
\* marked used belong to nobody.
Owners(f) ==
  {<<"free", x>> : x \in {f} \cap mem}
  \cup {<<"vspace", a>> : a \in {b \in PdAsids : vspaces[b].tab = f
                                   /\ \A c \in Cores : job[c].at = "entry" => job[c].asid # b}}
  \cup {<<"image", a>> : a \in {b \in PdAsids : images[b] = f}}
  \cup {<<"thread", t>> : t \in {u \in Tids : threads[u].stack = f}}
  \cup {<<"job", c>> : c \in {d \in Cores : f \in {job[d].segs, job[d].stack}}}

\* Whatever fails and whoever dies, every frame has exactly one owner: nothing is lost and
\* nothing is freed twice or freed under its user.
OneOwner == \A f \in Frames : Cardinality(Owners(f)) = 1

\* No live thread points to tables that have been freed, nor into the VSpace of another PD.
LiveMapped ==
  \A t \in Tids : threads[t].st = "ready" =>
    /\ vspaces[threads[t].asid].used /\ images[threads[t].asid] # None
    /\ \A u \in Tids : threads[u].st # "none" /\ threads[u].asid = threads[t].asid
                       => threads[u].pd \in {threads[t].pd, None}

\* exec frees the tables of the old VSpace only when no live thread points to them any more: the
\* caller is moved first, the others are gone.
TablesKept ==
  \A t \in Tids : threads[t].st = "ready" =>
    /\ vspaces[threads[t].asid].used
    /\ \A c \in Cores : job[c].at = "entry" => job[c].asid # threads[t].asid

\* A VSpace in use has a thread, or a path that builds it or tears it down.
VSpaceHasThread ==
  \A a \in PdAsids : vspaces[a].used =>
    \/ \E t \in Tids : threads[t].st # "none" /\ threads[t].asid = a
    \/ \E c \in Cores : a \in {job[c].asid, job[c].old}

\* The bookkeeping of loaded programs always has room for another one: each entry belongs to a
\* VSpace in use, so whoever has a VSpace finds a place.
ImagesFit == \A a \in PdAsids : images[a] # None => vspaces[a].used
=============================================================================
