------------------------------- MODULE Colors -------------------------------
(***************************************************************************)
(* Cache colours of protection domains: claim_stripe and release_stripe on *)
(* the word STRIPES_TAKEN, and the three paths that create a VSpace with a *)
(* stripe (loading, fork, spawn_isolated_colored_auto) with the clean-up   *)
(* after each step that may run out of memory.  A stripe stands for its    *)
(* set of colours: different stripes have no colour in common.             *)
(*                                                                         *)
(* The page colours themselves are arithmetic: module PhysAlloc.           *)
(***************************************************************************)
EXTENDS Naturals, FiniteSets, FiniteSetsExt

CONSTANTS Cores,
          PARTITIONS,   \* number of stripes
          VSlots,       \* number of VSpaces (ASIDs 1 .. VSlots)
          Kinds         \* the paths that create coloured PDs

ColorsAssumption ==
  /\ PARTITIONS \in Nat \ {0} /\ VSlots \in Nat \ {0}
  /\ Kinds \subseteq {"load", "fork", "auto"}

Stripes == 0 .. PARTITIONS - 1
Asids == 1 .. VSlots
NoStripe == PARTITIONS     \* no stripe

VARIABLES taken,      \* STRIPES_TAKEN, as a set
          vspaces,    \* VSPACES: used, stripe and colour set (cmask) of each entry
          job         \* what each core is doing

colorVars == <<taken, vspaces, job>>

FREI == [used |-> FALSE, stripe |-> NoStripe, cmask |-> NoStripe]
NoJob == [at |-> "idle", kind |-> "none", cur |-> {}, stripe |-> NoStripe, cmask |-> NoStripe, asid |-> 0]

\* Stripes and VSpaces stay in their tables.
ColorsTypeOK ==
  /\ taken \subseteq Stripes
  /\ vspaces \in [Asids -> [used : BOOLEAN, stripe : Stripes \cup {NoStripe}, cmask : Stripes \cup {NoStripe}]]
  /\ \A c \in Cores : job[c].asid \in {0} \cup Asids /\ job[c].cur \subseteq Stripes
  /\ \A c \in Cores : job[c].stripe \in Stripes \cup {NoStripe} /\ job[c].cmask \in Stripes \cup {NoStripe}

ColorsInit ==
  /\ taken = {}
  /\ vspaces = [a \in Asids |-> FREI]
  /\ job = [c \in Cores |-> NoJob]

Step(c, new) == job' = [job EXCEPT ![c] = new]
GoOn(c, p) == job' = [job EXCEPT ![c].at = p]
Stop(c) == Step(c, NoJob)

\* A PD that runs: its VSpace is in use and no core is building or tearing it down.
Runs(a) == vspaces[a].used /\ \A c \in Cores : job[c].asid # a

-----------------------------------------------------------------------------
(* claim_stripe and release_stripe                                         *)

\* A load, or a fork of a coloured PD m: the mother's colours are at hand.
begin(c, kind, m) ==
  /\ job[c] = NoJob /\ kind \in Kinds
  /\ kind = "fork" => Runs(m) /\ vspaces[m].cmask # NoStripe
  /\ Step(c, [NoJob EXCEPT !.at = "look", !.kind = kind,
                          !.cmask = IF kind = "fork" THEN vspaces[m].cmask ELSE NoStripe])
  /\ UNCHANGED <<taken, vspaces>>

\* pick_free: the lowest free stripe.  With none free a load is refused, and a fork goes on
\* with the mother's colours.
look(c) ==
  /\ job[c].at = "look"
  /\ IF taken = Stripes
     THEN IF job[c].kind = "fork" THEN GoOn(c, "kstack") ELSE Stop(c)
     ELSE job' = [job EXCEPT ![c].at = "cas", ![c].cur = taken]
  /\ UNCHANGED <<taken, vspaces>>

\* Mutant of cas: the bit is set whatever the word has become.
BlindOr(c) ==
  LET i == Min(Stripes \ job[c].cur) IN
  /\ job[c].at = "cas"
  /\ taken' = taken \cup {i}
  /\ job' = [job EXCEPT ![c].at = "kstack", ![c].cur = {}, ![c].stripe = i, ![c].cmask = i]
  /\ UNCHANGED vspaces

\* compare_exchange_weak; whoever loses reads again.
cas(c) ==
  LET i == Min(Stripes \ job[c].cur) IN
  /\ job[c].at = "cas"
  /\ \/ /\ taken = job[c].cur
        /\ taken' = taken \cup {i}
        /\ job' = [job EXCEPT ![c].at = "kstack", ![c].cur = {}, ![c].stripe = i, ![c].cmask = i]
     \/ /\ job' = [job EXCEPT ![c].at = "look", ![c].cur = {}]
        /\ UNCHANGED taken
  /\ UNCHANGED vspaces

\* The clean-up of the path itself: streifen_zurueck, kind_aufraeumen.
release_stripe(c) ==
  /\ job[c].at = "release"
  /\ taken' = taken \ {job[c].stripe}
  /\ Stop(c)
  /\ UNCHANGED vspaces

-----------------------------------------------------------------------------
(* The way of a new PD                                                     *)

\* claim_user_kstack_masked
kstack(c) ==
  /\ job[c].at = "kstack"
  /\ \/ GoOn(c, "vspace")
     \/ GoOn(c, "release")
  /\ UNCHANGED <<taken, vspaces>>

\* Mutant of create_vspace_masked: out of memory, the stripe is forgotten.
CreateForgets(c) ==
  LET free == {a \in Asids : ~vspaces[a].used} IN
  /\ job[c].at = "vspace"
  /\ \/ /\ free # {}
        /\ vspaces' = [vspaces EXCEPT ![Min(free)] =
                         [used |-> TRUE, stripe |-> NoStripe, cmask |-> job[c].cmask]]
        /\ job' = [job EXCEPT ![c].at = "bind", ![c].asid = Min(free)]
     \/ Stop(c) /\ UNCHANGED vspaces
  /\ UNCHANGED taken

\* The first free entry; without one, or without frames for its tables, the entry is free again.
create_vspace_masked(c) ==
  LET free == {a \in Asids : ~vspaces[a].used} IN
  /\ job[c].at = "vspace"
  /\ \/ /\ free # {}
        /\ vspaces' = [vspaces EXCEPT ![Min(free)] =
                         [used |-> TRUE, stripe |-> NoStripe, cmask |-> job[c].cmask]]
        /\ job' = [job EXCEPT ![c].at = "bind", ![c].asid = Min(free)]
     \/ GoOn(c, "release") /\ UNCHANGED vspaces
  /\ UNCHANGED taken

vspace_bind_stripe(c) ==
  /\ job[c].at = "bind"
  /\ vspaces' = [vspaces EXCEPT ![job[c].asid].stripe = job[c].stripe]
  /\ GoOn(c, "rest")
  /\ UNCHANGED taken

\* Segments, stack, thread slot: either everything is there, or the VSpace is torn down,
\* and its stripe with it.
rest(c) ==
  /\ job[c].at = "rest"
  /\ \/ Stop(c)
     \/ GoOn(c, "clear")
  /\ UNCHANGED <<taken, vspaces>>

-----------------------------------------------------------------------------
(* vspace_teardown                                                         *)

\* The death of a PD.
die(c, a) ==
  /\ job[c] = NoJob /\ Runs(a)
  /\ Step(c, [NoJob EXCEPT !.at = "clear", !.asid = a])
  /\ UNCHANGED <<taken, vspaces>>

\* The entry is read, its tables go back, and it is free ...
clear(c) ==
  LET a == job[c].asid IN
  /\ job[c].at = "clear"
  /\ vspaces' = [vspaces EXCEPT ![a] = FREI]
  /\ job' = [job EXCEPT ![c].at = "back", ![c].stripe = vspaces[a].stripe,
                        ![c].cmask = NoStripe, ![c].asid = 0]
  /\ UNCHANGED taken

\* ... then the stripe.  The caller of spawn_isolated_colored_inner gives it back once more.
back(c) ==
  /\ job[c].at = "back"
  /\ taken' = taken \ {job[c].stripe}
  /\ IF job[c].kind = "auto" THEN GoOn(c, "release") ELSE Stop(c)
  /\ UNCHANGED vspaces

ColorsNext == \E c \in Cores :
  \/ \E kind \in Kinds, m \in Asids : begin(c, kind, m)
  \/ look(c) \/ cas(c) \/ release_stripe(c)
  \/ kstack(c) \/ create_vspace_masked(c) \/ vspace_bind_stripe(c) \/ rest(c)
  \/ \E a \in Asids : die(c, a)
  \/ clear(c) \/ back(c)

ColorsSpec == ColorsInit /\ [][ColorsNext]_colorVars

-----------------------------------------------------------------------------
(* Properties                                                              *)

\* A core that has a stripe in hand: claimed and not yet bound, or unbound and not yet back.
Holds(c, i) == job[c].stripe = i /\ job[c].at \in {"kstack", "vspace", "bind", "release", "back"}

\* Who has the stripe: the address spaces bound to it and the cores that hold it in hand.
Owners(i) ==
  {<<"vspace", a>> : a \in {b \in Asids : vspaces[b].used /\ vspaces[b].stripe = i}}
  \cup {<<"core", c>> : c \in {d \in Cores : Holds(d, i)}}

\* STRIPES_TAKEN tells the truth both ways: a stripe that is bound to a VSpace or in the hands
\* of a core is taken and has that one owner, and a stripe without an owner is free.
StripeOwned ==
  \A i \in Stripes :
    IF i \in taken THEN \E o \in Owners(i) : Owners(i) = {o} ELSE Owners(i) = {}

\* A VSpace that has a stripe, or is about to be bound to one.
HasStripe(a) ==
  /\ vspaces[a].used
  /\ \/ vspaces[a].stripe # NoStripe
     \/ \E c \in Cores : job[c].at = "bind" /\ job[c].asid = a /\ job[c].stripe # NoStripe

\* No two PDs with stripes of their own have a colour in common, at any moment of their lives.
OwnColoursApart ==
  \A a, b \in Asids : a # b /\ HasStripe(a) /\ HasStripe(b) => vspaces[a].cmask # vspaces[b].cmask

\* The same of all coloured PDs.  (A fork that finds no stripe goes on with its mother's colours.)
ColoursApart ==
  \A a, b \in Asids :
    a # b /\ vspaces[a].used /\ vspaces[b].used => vspaces[a].cmask # vspaces[b].cmask

\* STRIPES_TAKEN tells the truth both ways, and stripes keep PDs apart; except for the path that
\* gives a stripe back twice.
StripesApart == "auto" \notin Kinds => StripeOwned /\ OwnColoursApart
=============================================================================
