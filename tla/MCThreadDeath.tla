--------------------------- MODULE MCThreadDeath ---------------------------
(***************************************************************************)
(* Threads and protection domains that come, move and go.  Three modules   *)
(* look at it with different state, so a behaviour belongs to one part and *)
(* the others stand still.                                                 *)
(*   death, stop     ThreadDeath: two slots used over and over; threads    *)
(*                   end themselves, or are stopped from another core      *)
(*   life, exec      PdLife: load, fork, fault, stop; load, exec, exit     *)
(*   migrate, reuse  Migrate: three threads on two cores and a waker; two  *)
(*                   directory numbers with successors                     *)
(***************************************************************************)
EXTENDS ThreadDeath, Migrate, TLC

CONSTANTS c1, c2, s1, s2, x1, x2, x3, r1, r2

MCCores == {c1, c2}
MCSlots == {s1, s2}
Three == {x1, x2, x3}

Symm == Permutations(Three)

VARIABLES part,
          mem, pdVspaces, images, threads, pds, control, spared, job

lifeVars == <<mem, pdVspaces, images, threads, pds, control, spared, job>>

Stop == INSTANCE ThreadDeath WITH
  Asids <- {"a1", "a2"}, Deaths <- {"fault", "stop"}, CrossReap <- TRUE, ZombieCap <- 1

Life == INSTANCE PdLife WITH
  Tids <- Three, NPDS <- 2, NFrames <- 5, Ops <- {"load", "fork", "fault", "stop"},
  Siblings <- FALSE, vspaces <- pdVspaces

Exec == INSTANCE PdLife WITH
  Tids <- Three, NPDS <- 2, NFrames <- 7, Ops <- {"load", "exec", "exit"},
  Siblings <- FALSE, vspaces <- pdVspaces

Move == INSTANCE Migrate WITH Gids <- Three, GenBound <- 0

ASSUME /\ Stop!DeathAssumption /\ Life!PdLifeAssumption /\ Exec!PdLifeAssumption
       /\ Move!MigrateAssumption /\ MigrateAssumption

MCInit ==
  /\ Init
  /\ \/ part \in {"death", "stop", "life", "migrate"} /\ Life!Init /\ Move!MigrateInit
     \/ part = "exec" /\ Exec!Init /\ Move!MigrateInit
     \/ part = "reuse" /\ Life!Init /\ MigrateInit

MCNext ==
  /\ UNCHANGED part
  /\ \/ /\ \/ part = "death" /\ Next
           \/ part = "stop" /\ Stop!Next
        /\ UNCHANGED <<lifeVars, migrateVars>>
     \/ /\ \/ part = "life" /\ Life!Next
           \/ part = "exec" /\ Exec!Next
        /\ UNCHANGED <<vars, migrateVars>>
     \/ /\ \/ part = "migrate" /\ Move!MigrateNext
           \/ part = "reuse" /\ MigrateNext
        /\ UNCHANGED <<vars, lifeVars>>

MCSpec == MCInit /\ [][MCNext]_<<part, vars, lifeVars, migrateVars>>

\* Whoever may run has what it runs on, however late others clean up behind their dead: its
\* VSpace with tables and image, and no thread of another PD in it.  StackKept says so of the
\* kernel stack, threads stopped from another core (stop) included.  An EXEC keeps it as long as
\* every kill of another thread of its PD succeeded.
RunsMapped ==
  CASE part = "death" -> VSpaceKept
    [] part = "life" -> Life!LiveMapped /\ Life!VSpaceHasThread
    [] part = "exec" -> spared \/ Exec!LiveMapped
    [] OTHER -> TRUE

\* Nothing is lost and nothing has two owners, whatever fails and whoever dies in between: kernel
\* stacks, slot numbers, frames of memory, image entries, places of the thread directory.
Accounted ==
  CASE part = "death" -> StacksAccounted /\ GidsApart
    [] part = "stop" -> GidsApart
    [] part = "life" -> Life!OneOwner /\ Life!ImagesFit
    [] part = "exec" -> spared \/ (Exec!OneOwner /\ Exec!ImagesFit)
    [] part = "migrate" -> Move!DirectoryExact /\ Move!GidOnce
    [] part = "reuse" -> DirectoryExact /\ GidOnce

\* A slot number goes missing only with a death at a full zombie ring.
Losses ==
  CASE part = "death" -> LossNamed
    [] part = "stop" -> Stop!LossNamed
    [] OTHER -> TRUE

\* Together: what runs is mapped, and what is gone comes back once.
LifeSound == [](RunsMapped /\ Accounted) /\ [][Losses]_vars

\* The comment at dispatch_exec: the old VSpace goes after the caller was moved, so that no live
\* thread ever points to freed tables.  It does when a thread of the PD was running and its kill
\* refused: the EXEC goes on all the same.
NeverUnderLive == part = "exec" => Exec!TablesKept
=============================================================================
