----------------------------- MODULE MCPdFreeze -----------------------------
(***************************************************************************)
(* The freezing of a domain and, beside it, redirected system calls.  They *)
(* share no state here: a behaviour belongs to one part and the other      *)
(* stands still.  freeze: a thread A that spawns B and an outsider X on    *)
(* one core, with a debugger and a hot reload.  move: two cores and        *)
(* threads that migrate.  calls: two guests of one PD and their handler.   *)
(* tables: two callers of SETHANDLER bind two threads of A, one of B and   *)
(* one of C to any of the three PDs, each caller his own threads.          *)
(***************************************************************************)
EXTENDS PdFreeze, Redirect, TLC

CONSTANTS A, B, X, P, Q, R, g1, g2, g3, g4, h1, c1, c2

VARIABLES part, mbirth, mep, mwait, mentry, mon, mloc, mdebug, mmarked, mgate, mfz

moveVars == <<mbirth, mep, mwait, mentry, mon, mloc, mdebug, mmarked, mgate, mfz>>

OneCore == [t \in Threads |-> 0]

Move == INSTANCE PdFreeze WITH
  birth <- mbirth, ep <- mep, wait <- mwait, entry <- mentry, on <- mon, loc <- mloc, debug <- mdebug,
  marked <- mmarked, gate <- mgate, fz <- mfz,
  Born <- Members, NCores <- 2, Home <- [t \in Threads |-> IF t = B THEN 1 ELSE 0], Balancing <- TRUE,
  Debuggable <- {}, Reloading <- FALSE, Deadline <- 0

\* The calls are made under the constants of the configuration: both guests are bound to Q.
CallPds == (g1 :> P) @@ (g2 :> P) @@ (h1 :> Q)
BothToQ == [g \in {g1, g2} |-> Q]
NoHolds == <<>>

FourGuests == {g1, g2, g3, g4}

Tables == INSTANCE Redirect WITH
  Pds <- {P, Q, R}, Guests <- FourGuests, Handlers <- {}, Ctls <- {c1, c2},
  PdOf <- (g1 :> P) @@ (g2 :> P) @@ (g3 :> Q) @@ (g4 :> R), Bound <- [g \in FourGuests |-> Nobody],
  Holds <- (c1 :> {g1, g3}) @@ (c2 :> {g2, g4}), Ops <- {"bind", "unbind"},
  NSlots <- 2, QCap <- 1, MaxCalls <- 0

ASSUME PdFreezeAssumption /\ Move!PdFreezeAssumption
ASSUME RedirectAssumption /\ FixedBindings
ASSUME Tables!RedirectAssumption /\ Tables!OwnThreads

MCInit ==
  /\ Init /\ Move!Init
  /\ \/ part \in {"freeze", "move", "tables"} /\ Tables!RedirectInit
     \/ part = "calls" /\ RedirectInit

MCNext ==
  /\ UNCHANGED part
  /\ \/ part = "freeze" /\ Next /\ UNCHANGED <<moveVars, redirectVars>>
     \/ part = "move" /\ Move!Next /\ UNCHANGED <<vars, redirectVars>>
     \/ part = "calls" /\ RedirectNext /\ UNCHANGED <<vars, moveVars>>
     \/ part = "tables" /\ Tables!RedirectNext /\ UNCHANGED <<vars, moveVars>>

\* The freezer runs in the kernel and is never preempted.
MCSpec ==
  /\ MCInit /\ [][MCNext]_<<part, vars, moveVars, redirectVars>>
  /\ WF_vars(part = "freeze" /\ Freezer)
  /\ WF_moveVars(part = "move" /\ Move!Freezer)

\* Every freeze comes to an end, frozen or given up; and where threads migrate, a freeze that was
\* given up leaves nothing behind either.
FreezeEnds == FreezeReturns /\ Move!FreezeReturns /\ []Move!AllOrNothing

\* The same of the binding tables while both callers bind and unbind: slots are exclusive and owned,
\* edges and counts say who is bound, handlers of handlers form no ring.
TablesSound == part = "tables" => Tables!RedirectsTrue
=============================================================================
