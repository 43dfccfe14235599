---------------------------- MODULE ThreadDeath ----------------------------
(***************************************************************************)
(* The death of a thread in the kernel: what it holds by the number of its *)
(* slot (gid) goes back in several steps, under different locks, while     *)
(* other cores may already give the slot to a successor.                   *)
(*                                                                         *)
(*   record_zombie  under SCHEDS of the core: the directory entry becomes  *)
(*                  free, its generation rises, the gid joins the zombies  *)
(*   reclaim        the kernel stack, found in a table over slots          *)
(*   teardown       the VSpace, found in VSPACE_OF over slots              *)
(*   reap           the zombies of a core give their gids back, last freed *)
(*                  first used                                             *)
(*                                                                         *)
(* A core works off one path of the kernel at a time.                      *)
(***************************************************************************)
EXTENDS Naturals, FiniteSets, Sequences, SequencesExt

CONSTANTS Cores, Slots, Stacks, Asids,
          MaxGen,      \* bound: generations of a slot
          ZombieCap,   \* capacity of the zombie ring of a core
          Deaths,      \* the paths threads die by
          CrossReap    \* TRUE: a core may also reap for another one

None == "none"

ASSUME DeathAssumption ==
  /\ MaxGen \in Nat /\ ZombieCap \in Nat \ {0} /\ IsFiniteSet(Slots)
  /\ Deaths \subseteq {"exit", "fault", "kill", "stop", "destroy"}
  /\ CrossReap \in BOOLEAN /\ None \notin Cores \cup Slots \cup Stacks \cup Asids

VARIABLES dir,        \* DIRECTORY: per slot, what lives there
          gidfree,    \* GID_FREE, the last freed first
          zombies,    \* the zombie ring of each core
          base_of, gen_of,  \* KSTACKS: kernel stack and generation per slot
          stacks,     \* the kernel stacks that can be given out
          vspace_of,  \* VSPACE_OF per slot
          vspaces,    \* VSPACES: the address spaces in use
          path        \* what each core is at

vars == <<dir, gidfree, zombies, base_of, gen_of, stacks, vspace_of, vspaces, path>>

Empty(gen) == [used |-> FALSE, core |-> None, stack |-> None, asid |-> None, gen |-> gen]
User == [at |-> "user", on |-> None, slot |-> None, gen |-> 0, asid |-> None,
         stack |-> None, gids |-> <<>>]

\* Directory, rings and tables range over slots, cores, stacks and VSpaces.
TypeOK ==
  /\ \A s \in Slots : dir[s].used => dir[s].core \in Cores /\ dir[s].stack \in Stacks
  /\ \A s \in Slots : dir[s].gen \in 0 .. MaxGen
  /\ IsInjective(gidfree) /\ ToSet(gidfree) \subseteq Slots
  /\ \A c \in Cores : Len(zombies[c]) <= ZombieCap /\ ToSet(zombies[c]) \subseteq Slots
  /\ stacks \subseteq Stacks /\ vspaces \subseteq Asids
  /\ base_of \in [Slots -> Stacks \cup {None}] /\ vspace_of \in [Slots -> Asids \cup {None}]

Init ==
  /\ dir = [s \in Slots |-> Empty(0)]
  /\ gidfree = SetToSeq(Slots)
  /\ zombies = [c \in Cores |-> <<>>]
  /\ base_of = [s \in Slots |-> None] /\ gen_of = [s \in Slots |-> 0]
  /\ stacks = Stacks
  /\ vspace_of = [s \in Slots |-> None] /\ vspaces = {}
  /\ path = [c \in Cores |-> User]

Goto(c, p) == path' = [path EXCEPT ![c].at = p]
Done(c) == path' = [path EXCEPT ![c] = User]

\* SCHEDS[c] is held over the booking of a new thread.
Locked(c) == path[c].at \in {"record", "bind"}

-----------------------------------------------------------------------------
(* Birth: spawn_isolated and its relatives                                 *)

\* Kernel stack and VSpace first.
claim(c) ==
  /\ path[c] = User
  /\ \E k \in stacks, a \in Asids \ vspaces :
       /\ stacks' = stacks \ {k} /\ vspaces' = vspaces \cup {a}
       /\ path' = [path EXCEPT ![c] = [User EXCEPT !.at = "spawn", !.stack = k, !.asid = a]]
  /\ UNCHANGED <<dir, gidfree, zombies, base_of, gen_of, vspace_of>>

\* spawn_user_at_parked and fp_reset_slot; without a slot everything goes back.
spawn(c) ==
  /\ path[c].at = "spawn"
  /\ IF gidfree = <<>>
     THEN /\ stacks' = stacks \cup {path[c].stack} /\ vspaces' = vspaces \ {path[c].asid}
          /\ Done(c)
          /\ UNCHANGED <<dir, gidfree, vspace_of>>
     ELSE LET s == Head(gidfree) IN
          /\ dir[s].gen < MaxGen
          /\ gidfree' = Tail(gidfree)
          /\ dir' = [dir EXCEPT ![s].used = TRUE, ![s].core = c, ![s].stack = path[c].stack,
                                ![s].asid = path[c].asid]
          /\ vspace_of' = [vspace_of EXCEPT ![s] = None]
          /\ path' = [path EXCEPT ![c].at = "record", ![c].slot = s, ![c].gen = dir[s].gen]
          /\ UNCHANGED <<stacks, vspaces>>
  /\ UNCHANGED <<zombies, base_of, gen_of>>

record_user_kstack(c) ==
  /\ path[c].at = "record"
  /\ base_of' = [base_of EXCEPT ![path[c].slot] = path[c].stack]
  /\ gen_of' = [gen_of EXCEPT ![path[c].slot] = path[c].gen]
  /\ Goto(c, "bind")
  /\ UNCHANGED <<dir, gidfree, zombies, stacks, vspace_of, vspaces>>

bind(c) ==
  /\ path[c].at = "bind"
  /\ vspace_of' = [vspace_of EXCEPT ![path[c].slot] = path[c].asid]
  /\ Done(c)
  /\ UNCHANGED <<dir, gidfree, zombies, base_of, gen_of, stacks, vspaces>>

-----------------------------------------------------------------------------
(* Death                                                                   *)

\* Under SCHEDS[d]: old handles are stale at once; the gid waits in the ring, if there is room.
record_zombie(s, d) ==
  /\ dir' = [dir EXCEPT ![s] = Empty(dir[s].gen + 1)]
  /\ zombies' = IF Len(zombies[d]) < ZombieCap
                THEN [zombies EXCEPT ![d] = Append(@, s)] ELSE zombies

\* Mutant of die: the slot goes back at once, not through the zombies.
DieAndRelease(c, s, how) ==
  /\ how \in Deaths /\ path[c] = User
  /\ dir[s].used /\ dir[s].core = c
  /\ dir' = [dir EXCEPT ![s] = Empty(dir[s].gen + 1)]
  /\ gidfree' = <<s>> \o gidfree
  /\ path' = [path EXCEPT ![c] = [User EXCEPT !.at = "reclaim", !.on = how, !.slot = s,
                                  !.gen = dir[s].gen, !.asid = None]]
  /\ UNCHANGED <<zombies, base_of, gen_of, stacks, vspace_of, vspaces>>

\* EXIT, a fault, KILL and destroy_isolated on the core of the thread.
die(c, s, how) ==
  /\ how \in Deaths /\ path[c] = User
  /\ dir[s].used /\ dir[s].core = c
  /\ record_zombie(s, c)
  /\ path' = [path EXCEPT ![c] =
       [User EXCEPT !.at = IF how = "destroy" THEN "teardown" ELSE "reclaim", !.on = how,
                    !.slot = s, !.gen = dir[s].gen,
                    !.asid = IF how = "destroy" THEN vspace_of[s] ELSE None]]
  /\ UNCHANGED <<gidfree, base_of, gen_of, stacks, vspace_of, vspaces>>

\* stop reads the address space of the thread, then kill_remote looks it up on its core.
stop(c, s) ==
  /\ "stop" \in Deaths /\ path[c] = User /\ dir[s].used
  /\ path' = [path EXCEPT ![c] = [User EXCEPT !.at = "kill", !.on = "stop", !.slot = s,
                                  !.gen = dir[s].gen, !.asid = vspace_of[s]]]
  /\ UNCHANGED <<dir, gidfree, zombies, base_of, gen_of, stacks, vspace_of, vspaces>>

kill_remote(c) ==
  LET s == path[c].slot IN
  /\ path[c].at = "kill"
  /\ IF dir[s].used /\ dir[s].gen = path[c].gen
     THEN ~Locked(dir[s].core) /\ record_zombie(s, dir[s].core) /\ Goto(c, "reclaim")
     ELSE Done(c) /\ UNCHANGED <<dir, zombies>>
  /\ UNCHANGED <<gidfree, base_of, gen_of, stacks, vspace_of, vspaces>>

\* Where a path goes on after the kernel stack.
AfterStack(how) == CASE how = "fault" -> "look" [] how = "stop" -> "teardown"
                     [] how = "destroy" -> "reap" [] OTHER -> "end"

\* Mutant of reclaim_user_kstack: the slot is trusted, not the generation.
ReclaimBySlot(c) ==
  LET s == path[c].slot IN
  /\ path[c].at = "reclaim"
  /\ base_of' = [base_of EXCEPT ![s] = None] /\ gen_of' = [gen_of EXCEPT ![s] = 0]
  /\ path' = [path EXCEPT ![c].at = "free", ![c].stack = base_of[s]]
  /\ UNCHANGED <<dir, gidfree, zombies, stacks, vspace_of, vspaces>>

\* A stack booked under another generation belongs to a successor: it is left alone.
reclaim_user_kstack(c) ==
  LET s == path[c].slot
      mine == base_of[s] # None /\ gen_of[s] = path[c].gen
  IN
  /\ path[c].at = "reclaim"
  /\ base_of' = IF mine THEN [base_of EXCEPT ![s] = None] ELSE base_of
  /\ gen_of' = IF mine THEN [gen_of EXCEPT ![s] = 0] ELSE gen_of
  /\ path' = [path EXCEPT ![c].at = "free", ![c].stack = IF mine THEN base_of[s] ELSE None]
  /\ UNCHANGED <<dir, gidfree, zombies, stacks, vspace_of, vspaces>>

\* Mutant of free_kstack: the slot goes back together with the stack.
FreeWithSlot(c) ==
  /\ path[c].at = "free"
  /\ stacks' = stacks \cup ({path[c].stack} \ {None})
  /\ gidfree' = <<path[c].slot>> \o gidfree
  /\ zombies' = [d \in Cores |-> SelectSeq(zombies[d], LAMBDA g : g # path[c].slot)]
  /\ LET next == AfterStack(path[c].on) IN
     IF next = "end" THEN Done(c)
     ELSE path' = [path EXCEPT ![c].at = next, ![c].stack = None]
  /\ UNCHANGED <<dir, base_of, gen_of, vspace_of, vspaces>>

\* ... and back to the arena or the allocator.
free_kstack(c) ==
  /\ path[c].at = "free"
  /\ stacks' = stacks \cup ({path[c].stack} \ {None})
  /\ LET next == AfterStack(path[c].on) IN
     IF next = "end" THEN Done(c)
     ELSE path' = [path EXCEPT ![c].at = next, ![c].stack = None]
  /\ UNCHANGED <<dir, gidfree, zombies, base_of, gen_of, vspace_of, vspaces>>

\* el0_fault reads the address space only now.
look(c) ==
  LET a == vspace_of[path[c].slot] IN
  /\ path[c].at = "look"
  /\ IF a = None THEN Done(c) ELSE path' = [path EXCEPT ![c].at = "teardown", ![c].asid = a]
  /\ UNCHANGED <<dir, gidfree, zombies, base_of, gen_of, stacks, vspace_of, vspaces>>

vspace_teardown(c) ==
  /\ path[c].at = "teardown"
  /\ vspaces' = vspaces \ {path[c].asid}
  /\ Goto(c, "clear")
  /\ UNCHANGED <<dir, gidfree, zombies, base_of, gen_of, stacks, vspace_of>>

clear_vspace(c) ==
  /\ path[c].at = "clear"
  /\ vspace_of' = [vspace_of EXCEPT ![path[c].slot] = None]
  /\ IF path[c].on = "destroy" THEN Goto(c, "reclaim") ELSE Done(c)
  /\ UNCHANGED <<dir, gidfree, zombies, base_of, gen_of, stacks, vspaces>>

-----------------------------------------------------------------------------
(* Reaping                                                                 *)

\* Mutant of reap_core: the zombies are read, not taken.
ReapPeek(c, d) ==
  /\ path[c] = User \/ (path[c].at = "reap" /\ c = d)
  /\ c = d \/ CrossReap
  /\ c # d => ~Locked(d)
  /\ path[c] = User => zombies[d] # <<>>
  /\ path' = [path EXCEPT ![c] = [User EXCEPT !.at = "release", !.gids = zombies[d]]]
  /\ UNCHANGED <<dir, gidfree, zombies, base_of, gen_of, stacks, vspace_of, vspaces>>

\* From the idle loop, or at the end of destroy_isolated.
reap_core(c, d) ==
  /\ path[c] = User \/ (path[c].at = "reap" /\ c = d)
  /\ c = d \/ CrossReap
  /\ c # d => ~Locked(d)
  /\ path[c] = User => zombies[d] # <<>>
  /\ zombies' = [zombies EXCEPT ![d] = <<>>]
  /\ path' = [path EXCEPT ![c] = [User EXCEPT !.at = "release", !.gids = zombies[d]]]
  /\ UNCHANGED <<dir, gidfree, base_of, gen_of, stacks, vspace_of, vspaces>>

\* The gids go back after the stacks, outside of SCHEDS.
release_gid(c) ==
  /\ path[c].at = "release"
  /\ gidfree' = Reverse(path[c].gids) \o gidfree
  /\ Done(c)
  /\ UNCHANGED <<dir, zombies, base_of, gen_of, stacks, vspace_of, vspaces>>

Next == \E c \in Cores :
  \/ claim(c) \/ spawn(c) \/ record_user_kstack(c) \/ bind(c)
  \/ \E s \in Slots : \E how \in {"exit", "fault", "kill", "destroy"} : die(c, s, how)
  \/ \E s \in Slots : stop(c, s)
  \/ kill_remote(c) \/ reclaim_user_kstack(c) \/ free_kstack(c) \/ look(c)
  \/ vspace_teardown(c) \/ clear_vspace(c)
  \/ \E d \in Cores : reap_core(c, d)
  \/ release_gid(c)

Spec == Init /\ [][Next]_vars

-----------------------------------------------------------------------------
(* Properties                                                              *)

\* A thread that is born and bound.
Live(s) == dir[s].used /\ ~\E c \in Cores : path[c].slot = s /\ Locked(c)

\* A late clean-up never takes the kernel stack of a successor: the stack of a live thread is
\* booked for it and for nobody else, and cannot be given out.
StackKept ==
  \A s \in Slots : Live(s) =>
    /\ base_of[s] = dir[s].stack /\ gen_of[s] = dir[s].gen /\ dir[s].stack \notin stacks
    /\ \A r \in Slots \ {s} : dir[r].used => dir[r].stack # dir[s].stack
    /\ \A c \in Cores : path[c].stack # dir[s].stack

\* A live thread keeps its address space: VSPACE_OF names the one it was born with, and that
\* one has not been torn down.
VSpaceKept ==
  \A s \in Slots : Live(s) => vspace_of[s] = dir[s].asid /\ dir[s].asid \in vspaces

\* No kernel stack is lost: each one is free, held by a thread, or in the hands of a core.
StacksAccounted ==
  \A k \in Stacks :
    \/ k \in stacks
    \/ \E s \in Slots : dir[s].stack = k
    \/ \E c \in Cores : path[c].stack = k
    \/ \E c \in Cores : path[c].at \in {"teardown", "clear", "reclaim"} /\ base_of[path[c].slot] = k

\* Where the number of a slot is: free, in use, a zombie, or in the hand of a core that reaps.
Whereabouts(s) ==
  {x \in {<<"free", None>>} : s \in ToSet(gidfree)}
  \cup {x \in {<<"used", None>>} : dir[s].used}
  \cup {<<"zombie", c>> : c \in {c \in Cores : s \in ToSet(zombies[c])}}
  \cup {<<"hand", c>> : c \in {c \in Cores : s \in ToSet(path[c].gids)}}

\* No slot number is given out twice.
GidsApart == \A s \in Slots : Cardinality(Whereabouts(s)) <= 1

\* A number goes missing in one way only: its thread dies and the ring of its core is full.
LossNamed ==
  \A s \in Slots : Whereabouts(s) # {} /\ Whereabouts(s)' = {} =>
    dir[s].used /\ Len(zombies[dir[s].core]) >= ZombieCap

\* Slot numbers are accounted for, also where the ring of a core is shorter than its zombies.
GidsAccounted == []GidsApart /\ [][LossNamed]_vars
=============================================================================
