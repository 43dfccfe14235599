---------------------------- MODULE ThreadProofs ----------------------------
(***************************************************************************)
(* Proofs about threads, for any number of cores, slots, stacks, address   *)
(* spaces, numbers and wakers.                                             *)
(*                                                                         *)
(*   ThreadDeath  a late clean-up takes nothing of a successor: stacks,    *)
(*                address spaces, slots                                    *)
(*   Migrate      the directory, the TCB tables and the free numbers       *)
(*                agree, and with_owner reaches whom it names              *)
(***************************************************************************)
EXTENDS ThreadDeath, Migrate, FiniteSetTheorems, TLAPS

-----------------------------------------------------------------------------
(* The death of threads: the invariant that holds on every path            *)

Stages == {"user", "spawn", "record", "bind", "kill", "reclaim", "free", "look", "teardown", "clear",
           "reap", "release"}
Path == [at : Stages, on : {"exit", "fault", "kill", "stop", "destroy", None}, slot : Slots \cup {None},
         gen : Nat, asid : Asids \cup {None}, stack : Stacks \cup {None}, gids : Seq(Slots)]
DirEntry == [used : BOOLEAN, core : Cores \cup {None}, stack : Stacks \cup {None},
             asid : Asids \cup {None}, gen : Nat]

DTypes ==
  /\ dir \in [Slots -> DirEntry] /\ gidfree \in Seq(Slots) /\ zombies \in [Cores -> Seq(Slots)]
  /\ base_of \in [Slots -> Stacks \cup {None}] /\ gen_of \in [Slots -> Nat]
  /\ vspace_of \in [Slots -> Asids \cup {None}]
  /\ stacks \subseteq Stacks /\ vspaces \subseteq Asids
  /\ path \in [Cores -> Path]

\* A slot in use is of some core; one that is not has no stack.
Homed == \A s \in Slots : IF dir[s].used THEN dir[s].core \in Cores ELSE dir[s].stack = None

\* What a core has in hand on each stage of a path.
Dying == {"reclaim", "free", "look", "teardown", "clear", "reap"}
Born(c) ==
  LET p == path[c] IN
  Locked(c) =>
    /\ p.slot \in Slots /\ p.stack \in Stacks /\ p.asid \in Asids
    /\ dir[p.slot].used /\ dir[p.slot].core = c /\ dir[p.slot].gen = p.gen
    /\ dir[p.slot].stack = p.stack /\ dir[p.slot].asid = p.asid
    /\ p.at = "bind" => base_of[p.slot] = p.stack /\ gen_of[p.slot] = p.gen
InHand(c) ==
  LET p == path[c] IN
  /\ p.at = "spawn" => p.stack \in Stacks /\ p.asid \in Asids
  /\ p.at = "kill" => p.slot \in Slots
  /\ p.at \in Dying => p.slot \in Slots /\ p.gen < dir[p.slot].gen
  /\ p.at \notin {"spawn", "record", "bind", "free"} => p.stack = None
  /\ p.at # "release" => p.gids = <<>>
Paths == \A c \in Cores : Born(c) /\ InHand(c)

\* A kernel stack is in one hand: free, of one core, or booked for one slot.
HandsApart == \A c \in Cores : path[c].stack # None =>
  path[c].stack \notin stacks /\ \A d \in Cores : path[d].stack = path[c].stack => d = c
BookedApart == \A s \in Slots : base_of[s] # None =>
  /\ base_of[s] \notin stacks /\ \A r \in Slots : base_of[r] = base_of[s] => r = s
  /\ \A c \in Cores : path[c].stack = base_of[s] => path[c].at = "bind" /\ path[c].slot = s
LiveBooked == \A s \in Slots : Live(s) =>
  base_of[s] = dir[s].stack /\ gen_of[s] = dir[s].gen /\ dir[s].stack \in Stacks

\* A slot is in one place at most: free, in use, in a ring, in the hand of a core that reaps.
InRing(s, c) == s \in ToSet(zombies[c])
Reaped(s, c) == s \in ToSet(path[c].gids)
InFree(s) == s \in ToSet(gidfree)
SlotOnce(s) ==
  /\ InFree(s) => ~dir[s].used
  /\ \A c \in Cores : InRing(s, c) =>
       ~dir[s].used /\ ~InFree(s) /\ \A d \in Cores : InRing(s, d) => d = c
  /\ \A c \in Cores : Reaped(s, c) =>
       /\ ~dir[s].used /\ ~InFree(s)
       /\ \A d \in Cores : ~InRing(s, d) /\ (Reaped(s, d) => d = c)
Slotted ==
  /\ \A s \in Slots : SlotOnce(s)
  /\ IsInjective(gidfree)
  /\ \A c \in Cores : IsInjective(zombies[c]) /\ IsInjective(path[c].gids)

DInv == DTypes /\ Homed /\ Paths /\ HandsApart /\ BookedApart /\ LiveBooked /\ Slotted

\* A slot that was somewhere still is, unless its thread died and the ring of its core was full.
SlotSomewhere(s) ==
  \/ InFree(s) \/ dir[s].used \/ \E c \in Cores : InRing(s, c) \/ Reaped(s, c)
SlotsKept ==
  \A s \in Slots : SlotSomewhere(s) =>
    SlotSomewhere(s)' \/ (dir[s].used /\ Len(zombies[dir[s].core]) >= ZombieCap)

-----------------------------------------------------------------------------
(* Where only the own core reaps and nobody is stopped from elsewhere      *)

Orderly == "stop" \notin Deaths /\ ~CrossReap

\* The slot of a thread whose core still cleans up is nobody's.
Withdrawn(c) == path[c].at \in Dying =>
  LET s == path[c].slot IN
  /\ ~dir[s].used /\ ~InFree(s)
  /\ \A d \in Cores : ~Reaped(s, d) /\ (InRing(s, d) => d = c)
  /\ \A d \in Cores : path[d].at \in Dying /\ path[d].slot = s => d = c
Withdrawals == \A c \in Cores : path[c].at # "kill" /\ path[c].on # "stop" /\ Withdrawn(c)

Cleared(s) == \E c \in Cores : path[c].at = "clear" /\ path[c].slot = s
Building(c) == path[c].at \in {"spawn", "record", "bind"}
VApart == \A s \in Slots : vspace_of[s] # None /\ ~Cleared(s) =>
  /\ vspace_of[s] \in vspaces
  /\ \A r \in Slots : ~Cleared(r) /\ vspace_of[r] = vspace_of[s] => r = s
  /\ \A c \in Cores : Building(c) => path[c].asid # vspace_of[s]
VBuilt == \A c \in Cores : Building(c) =>
  path[c].asid \in vspaces /\ \A d \in Cores : Building(d) /\ path[d].asid = path[c].asid => d = c
VTorn == \A c \in Cores : path[c].at = "teardown" =>
  path[c].asid # None /\ path[c].asid = vspace_of[path[c].slot]
VLive == \A s \in Slots : Live(s) => vspace_of[s] = dir[s].asid /\ dir[s].asid \in Asids

\* The stack of a dead thread is booked for it until it is reclaimed.
StillBooked(c) ==
  LET p == path[c] IN
  /\ p.at = "reclaim" \/ (p.at \in {"teardown", "clear"} /\ p.on = "destroy") =>
       base_of[p.slot] # None /\ gen_of[p.slot] = p.gen
  /\ p.at \in {"teardown", "clear"} /\ p.on # "destroy" => base_of[p.slot] = None
  /\ p.at \in {"free", "look"} => base_of[p.slot] = None
  /\ p.at = "look" => p.on # "destroy"

OrderlyInv ==
  /\ Withdrawals /\ VApart /\ VBuilt /\ VTorn /\ VLive
  /\ \A c \in Cores : StillBooked(c)
  /\ StacksAccounted
-----------------------------------------------------------------------------
(* Sequences of slots                                                      *)

LEMMA SlotSeq ==
  ASSUME NEW q \in Seq(Slots)
  PROVE  /\ Len(q) \in Nat /\ DOMAIN q = 1 .. Len(q) /\ ToSet(q) \subseteq Slots
         /\ \A i \in DOMAIN q : q[i] \in ToSet(q) /\ q[i] \in Slots
         /\ \A s \in ToSet(q) : \E i \in DOMAIN q : q[i] = s
  BY DEF ToSet

LEMMA NoSlots == ToSet(<<>>) = {} /\ IsInjective(<<>>)
PROOF
  <1> DEFINE e == <<>>
  <1>1. DOMAIN e = {} BY SMT
  <1> HIDE DEF e
  <1>2. ToSet(e) = {} BY <1>1, Zenon DEF ToSet
  <1>3. IsInjective(e) BY <1>1, Zenon DEF IsInjective
  <1> QED BY <1>2, <1>3 DEF e

LEMMA AppendSlot ==
  ASSUME NEW q \in Seq(Slots), NEW s \in Slots
  PROVE  /\ Append(q, s) \in Seq(Slots) /\ ToSet(Append(q, s)) = ToSet(q) \cup {s}
         /\ IsInjective(q) /\ s \notin ToSet(q) => IsInjective(Append(q, s))
PROOF
  <1> DEFINE a == Append(q, s)
  <1>1. a \in Seq(Slots) /\ Len(a) = Len(q) + 1 OBVIOUS
  <1>2. DOMAIN a = 1 .. (Len(q) + 1) /\ DOMAIN q = 1 .. Len(q) /\ Len(q) \in Nat BY <1>1
  <1>3. /\ \A i \in 1 .. Len(q) : a[i] = q[i]
        /\ a[Len(q) + 1] = s
    OBVIOUS
  <1> HIDE DEF a
  <1>4. ToSet(a) = ToSet(q) \cup {s} BY <1>2, <1>3 DEF ToSet
  <1>5. IsInjective(q) /\ s \notin ToSet(q) => IsInjective(a)
    BY <1>2, <1>3 DEF ToSet, IsInjective
  <1> QED BY <1>1, <1>4, <1>5 DEF a

LEMMA TailSlot ==
  ASSUME NEW q \in Seq(Slots), q # <<>>
  PROVE  /\ Head(q) \in Slots /\ Tail(q) \in Seq(Slots)
         /\ ToSet(q) = {Head(q)} \cup ToSet(Tail(q))
         /\ IsInjective(q) => IsInjective(Tail(q)) /\ Head(q) \notin ToSet(Tail(q))
PROOF
  <1> DEFINE r == Tail(q)
             h == Head(q)
  <1>1. Len(q) \in Nat /\ Len(q) # 0 OBVIOUS
  <1>2. r \in Seq(Slots) /\ Len(r) = Len(q) - 1 BY <1>1
  <1>3. DOMAIN r = 1 .. (Len(q) - 1) /\ DOMAIN q = 1 .. Len(q) BY <1>2
  <1>4. h = q[1] /\ h \in Slots /\ \A i \in 1 .. (Len(q) - 1) : r[i] = q[i + 1] BY <1>1
  <1> HIDE DEF r, h
  <1>5. ToSet(q) \subseteq {h} \cup ToSet(r)
    <2>1. SUFFICES ASSUME NEW i \in 1 .. Len(q) PROVE q[i] \in {h} \cup ToSet(r)
      BY <1>3 DEF ToSet
    <2>2. CASE i = 1 BY <2>2, <1>4
    <2>3. CASE i # 1
      <3>1. i - 1 \in 1 .. (Len(q) - 1) /\ i = (i - 1) + 1 BY <2>3, <1>1
      <3>2. q[i] = r[i - 1] BY <3>1, <1>4
      <3> QED BY <3>1, <3>2, <1>3 DEF ToSet
    <2> QED BY <2>2, <2>3
  <1>6. {h} \cup ToSet(r) \subseteq ToSet(q) BY <1>1, <1>3, <1>4 DEF ToSet
  <1>7. ASSUME IsInjective(q) PROVE IsInjective(r) /\ h \notin ToSet(r)
    <2>1. \A i \in 1 .. (Len(q) - 1) : i + 1 \in 1 .. Len(q) /\ i + 1 # 1 BY <1>1
    <2>2. \A i, j \in 1 .. (Len(q) - 1) : i + 1 = j + 1 => i = j BY <1>1
    <2>3. IsInjective(r) BY <1>3, <1>4, <1>7, <2>1, <2>2 DEF IsInjective
    <2>4. \A i \in 1 .. (Len(q) - 1) : r[i] # h BY <1>1, <1>3, <1>4, <1>7, <2>1 DEF IsInjective
    <2> QED BY <1>3, <2>3, <2>4 DEF ToSet
  <1> QED BY <1>2, <1>4, <1>5, <1>6, <1>7 DEF r, h

LEMMA ReverseSlots ==
  ASSUME NEW q \in Seq(Slots)
  PROVE  /\ Reverse(q) \in Seq(Slots) /\ ToSet(Reverse(q)) = ToSet(q)
         /\ IsInjective(q) => IsInjective(Reverse(q))
PROOF
  <1> DEFINE r == Reverse(q)
             n == Len(q)
  <1>1. n \in Nat /\ DOMAIN q = 1 .. n /\ \A i \in 1 .. n : q[i] \in Slots OBVIOUS
  <1>2. \A i \in 1 .. n : n - i + 1 \in 1 .. n /\ n - (n - i + 1) + 1 = i BY <1>1
  <1>3. r = [i \in 1 .. n |-> q[n - i + 1]] BY DEF Reverse
  <1>4. DOMAIN r = 1 .. n /\ \A i \in 1 .. n : r[i] = q[n - i + 1] BY <1>3
  <1>5. r \in [1 .. n -> Slots] BY <1>1, <1>2, <1>3
  <1>6. r \in Seq(Slots) BY <1>1, <1>5
  <1> HIDE DEF r, n
  <1>7. ToSet(r) = ToSet(q)
    <2>1. ASSUME NEW i \in 1 .. n PROVE r[i] \in ToSet(q) /\ q[i] \in ToSet(r)
      <3>1. r[i] \in ToSet(q) BY <1>1, <1>2, <1>4 DEF ToSet
      <3>2. q[i] = r[n - i + 1] BY <1>2, <1>4
      <3> QED BY <1>2, <1>4, <3>1, <3>2 DEF ToSet
    <2> QED BY <2>1, <1>1, <1>4 DEF ToSet
  <1>8. ASSUME IsInjective(q) PROVE IsInjective(r)
    <2>1. SUFFICES ASSUME NEW i \in 1 .. n, NEW j \in 1 .. n, r[i] = r[j] PROVE i = j
      BY <1>4 DEF IsInjective
    <2>2. n - i + 1 = n - j + 1 BY <1>1, <1>2, <1>4, <1>8, <2>1 DEF IsInjective
    <2> QED BY <1>1, <2>2
  <1> QED BY <1>6, <1>7, <1>8 DEF r

LEMMA ConcatSlots ==
  ASSUME NEW p \in Seq(Slots), NEW q \in Seq(Slots)
  PROVE  /\ p \o q \in Seq(Slots) /\ ToSet(p \o q) = ToSet(p) \cup ToSet(q)
         /\ IsInjective(p) /\ IsInjective(q) /\ ToSet(p) \cap ToSet(q) = {} => IsInjective(p \o q)
PROOF
  <1> DEFINE r == p \o q
             m == Len(p)
             n == Len(q)
  <1>1. /\ m \in Nat /\ n \in Nat /\ r \in Seq(Slots) /\ Len(r) = m + n
        /\ DOMAIN p = 1 .. m /\ DOMAIN q = 1 .. n
    OBVIOUS
  <1>2. DOMAIN r = 1 .. (m + n) BY <1>1
  <1>3. /\ \A i \in 1 .. m : r[i] = p[i]
        /\ \A i \in 1 .. n : r[m + i] = q[i]
    BY <1>1
  <1> HIDE DEF r, m, n
  <1>4. \A i \in 1 .. (m + n) : i \in 1 .. m \/ (i - m \in 1 .. n /\ i = m + (i - m)) BY <1>1
  <1>5. \A i \in 1 .. n : m + i \in 1 .. (m + n) BY <1>1
  <1>6. \A i \in 1 .. m : i \in 1 .. (m + n) BY <1>1
  <1>7. ToSet(r) = ToSet(p) \cup ToSet(q)
    <2>1. ASSUME NEW i \in 1 .. (m + n) PROVE r[i] \in ToSet(p) \cup ToSet(q)
      <3>1. CASE i \in 1 .. m BY <3>1, <1>1, <1>3 DEF ToSet
      <3>2. CASE i - m \in 1 .. n /\ i = m + (i - m) BY <3>2, <1>1, <1>3 DEF ToSet
      <3> QED BY <1>4, <3>1, <3>2
    <2>2. ASSUME NEW i \in 1 .. m PROVE p[i] \in ToSet(r) BY <1>2, <1>3, <1>6 DEF ToSet
    <2>3. ASSUME NEW i \in 1 .. n PROVE q[i] \in ToSet(r) BY <1>2, <1>3, <1>5 DEF ToSet
    <2> QED BY <2>1, <2>2, <2>3, <1>1, <1>2 DEF ToSet
  <1>8. ASSUME IsInjective(p), IsInjective(q), ToSet(p) \cap ToSet(q) = {} PROVE IsInjective(r)
    <2>1. SUFFICES ASSUME NEW i \in 1 .. (m + n), NEW j \in 1 .. (m + n), r[i] = r[j] PROVE i = j
      BY <1>2 DEF IsInjective
    <2>2. \A x \in 1 .. m, y \in 1 .. n : p[x] # q[y] BY <1>1, <1>8 DEF ToSet
    <2>3. CASE i \in 1 .. m /\ j \in 1 .. m BY <2>1, <2>3, <1>1, <1>3, <1>8 DEF IsInjective
    <2>4. CASE i \in 1 .. m /\ j - m \in 1 .. n /\ j = m + (j - m)
      <3>1. r[i] = p[i] /\ r[j] = q[j - m] BY <2>4, <1>3
      <3> QED BY <3>1, <2>1, <2>2, <2>4
    <2>5. CASE j \in 1 .. m /\ i - m \in 1 .. n /\ i = m + (i - m)
      <3>1. r[j] = p[j] /\ r[i] = q[i - m] BY <2>5, <1>3
      <3> QED BY <3>1, <2>1, <2>2, <2>5
    <2>6. CASE j - m \in 1 .. n /\ j = m + (j - m) /\ i - m \in 1 .. n /\ i = m + (i - m)
      <3>1. r[j] = q[j - m] /\ r[i] = q[i - m] BY <2>6, <1>3
      <3>2. j - m = i - m BY <3>1, <2>1, <2>6, <1>1, <1>8 DEF IsInjective
      <3> QED BY <3>2, <2>6
    <2> QED BY <1>4, <2>3, <2>4, <2>5, <2>6
  <1> QED BY <1>1, <1>7, <1>8 DEF r

\* The initial list of free slots holds each slot once.
LEMMA AllSlots ==
  ASSUME DeathAssumption
  PROVE  SetToSeq(Slots) \in Seq(Slots) /\ IsInjective(SetToSeq(Slots)) /\ ToSet(SetToSeq(Slots)) = Slots
PROOF
  <1> DEFINE n == Cardinality(Slots)
             D == 1 .. n
             f == SetToSeq(Slots)
  <1>1. IsFiniteSet(Slots) /\ n \in Nat BY FS_CardinalityType DEF DeathAssumption
  <1>2. IsFiniteSet(D) /\ Cardinality(D) = n BY <1>1, FS_Interval
  <1>3. ExistsBijection(D, Slots) BY <1>1, <1>2, FS_SameCardinalityBij
  <1>4. PICK g \in Bijection(D, Slots) : TRUE BY <1>3 DEF ExistsBijection
  <1>5. g \in [D -> Slots] /\ IsInjective(g)
    BY <1>4 DEF Bijection, Injection, IsInjective
  <1>6. f \in [D -> Slots] /\ IsInjective(f) BY <1>5 DEF SetToSeq
  <1>7. f \in Seq(Slots) BY <1>1, <1>6
  <1> HIDE DEF f
  <1>8. f \in Injection(D, Slots) BY <1>6 DEF Injection
  <1>9. f \in Surjection(D, Slots) BY <1>1, <1>2, <1>8, FS_Injection
  <1>10. ToSet(f) = Slots BY <1>6, <1>9 DEF Surjection, ToSet
  <1> QED BY <1>6, <1>7, <1>10 DEF f

-----------------------------------------------------------------------------
(* One core goes on                                                        *)

OnlyPath(c, p) ==
  /\ path' \in [Cores -> Path] /\ path'[c] = p
  /\ \A d \in Cores : d # c => path'[d] = path[d]

LEMMA UserPath ==
  /\ User \in Path /\ User.at = "user" /\ User.stack = None /\ User.gids = <<>> /\ User.asid = None
  /\ User.gen = 0 /\ User.slot = None /\ User.on = None
  BY DEF User, Path, Stages

LEMMA PathStep ==
  ASSUME DTypes, NEW c \in Cores, NEW p \in Path, path' = [path EXCEPT ![c] = p]
  PROVE  OnlyPath(c, p)
  BY DEF DTypes, OnlyPath

LEMMA DoneStep ==
  ASSUME DTypes, NEW c \in Cores, Done(c)
  PROVE  OnlyPath(c, User)
  BY UserPath, PathStep DEF Done

LEMMA GotoStep ==
  ASSUME DTypes, NEW c \in Cores, NEW a \in Stages, Goto(c, a)
  PROVE  OnlyPath(c, [path[c] EXCEPT !.at = a])
PROOF
  <1> DEFINE p == [path[c] EXCEPT !.at = a]
  <1>1. path[c] \in Path BY DEF DTypes
  <1>2. p \in Path BY <1>1 DEF Path
  <1>3. path' = [path EXCEPT ![c] = p] BY DEF Goto
  <1> QED BY <1>2, <1>3, PathStep

\* Where a core goes on with nothing in hand, outside of SCHEDS, the rest of the invariant stands.
LEMMA Onward ==
  ASSUME DInv, NEW c \in Cores, NEW p \in Path, OnlyPath(c, p),
         UNCHANGED <<dir, gidfree, zombies, base_of, gen_of, stacks>>,
         vspace_of' \in [Slots -> Asids \cup {None}], vspaces' \subseteq Asids,
         ~Locked(c), path[c].at # "spawn", path[c].stack = None, path[c].gids = <<>>,
         p.at \notin {"spawn", "record", "bind", "release"}, p.stack = None, p.gids = <<>>,
         p.at = "kill" => p.slot \in Slots,
         p.at \in Dying => p.slot \in Slots /\ p.gen < dir[p.slot].gen
  PROVE  DInv'
PROOF
  <1>0. DTypes /\ Homed /\ Paths /\ HandsApart /\ BookedApart /\ LiveBooked /\ Slotted BY DEF DInv
  <1>1. DTypes' BY <1>0 DEF DTypes, OnlyPath
  <1>2. Paths'
    <2>1. SUFFICES ASSUME NEW d \in Cores PROVE Born(d)' /\ InHand(d)' BY DEF Paths
    <2>2. CASE d = c BY <2>2 DEF OnlyPath, Born, InHand, Locked
    <2>3. CASE d # c BY <2>3, <1>0 DEF OnlyPath, Paths, Born, InHand, Locked
    <2> QED BY <2>2, <2>3
  <1>3. HandsApart' BY <1>0 DEF HandsApart, OnlyPath
  <1>4. BookedApart' BY <1>0 DEF BookedApart, OnlyPath
  <1>5. LiveBooked'
    <2>1. \A s \in Slots : Live(s)' => Live(s) BY DEF Live, Locked, OnlyPath
    <2> QED BY <1>0, <2>1 DEF LiveBooked
  <1>6. Slotted'
    <2>1. \A d \in Cores : path'[d].gids = path[d].gids BY DEF OnlyPath
    <2>2. \A s \in Slots : SlotOnce(s)' BY <1>0, <2>1 DEF Slotted, SlotOnce, InRing, Reaped, InFree
    <2> QED BY <1>0, <2>1, <2>2 DEF Slotted
  <1>7. Homed' BY <1>0 DEF Homed
  <1> QED BY <1>1, <1>2, <1>3, <1>4, <1>5, <1>6, <1>7 DEF DInv
LEMMA Hand ==
  ASSUME DInv, NEW c \in Cores
  PROVE  path[c] \in Path /\ Born(c) /\ InHand(c)
  BY DEF DInv, DTypes, Paths

LEMMA StopInv == ASSUME DInv, NEW c \in Cores, NEW s \in Slots, stop(c, s) PROVE DInv'
PROOF
  <1> DEFINE p == [User EXCEPT !.at = "kill", !.on = "stop", !.slot = s, !.gen = dir[s].gen,
                               !.asid = vspace_of[s]]
  <1>1. dir[s] \in DirEntry /\ vspace_of[s] \in Asids \cup {None} BY DEF DInv, DTypes
  <1>2. dir[s].gen \in Nat BY <1>1 DEF DirEntry
  <1>3. p \in Path /\ p.at = "kill" /\ p.stack = None /\ p.gids = <<>> /\ p.slot = s
    BY <1>1, <1>2, UserPath DEF Path, Stages
  <1>4. path' = [path EXCEPT ![c] = p] BY DEF stop
  <1> HIDE DEF p
  <1>5. OnlyPath(c, p) BY <1>3, <1>4, PathStep DEF DInv
  <1>6. path[c] = User BY DEF stop
  <1>7. vspace_of' \in [Slots -> Asids \cup {None}] /\ vspaces' \subseteq Asids
    BY DEF stop, DInv, DTypes
  <1> QED BY <1>3, <1>5, <1>6, <1>7, UserPath, Onward DEF stop, Locked, Dying

LEMMA LookInv == ASSUME DInv, NEW c \in Cores, look(c) PROVE DInv'
PROOF
  <1> DEFINE a == vspace_of[path[c].slot]
             p == [path[c] EXCEPT !.at = "teardown", !.asid = a]
  <1>1. path[c] \in Path /\ InHand(c) BY Hand
  <1>2. path[c].at = "look" BY DEF look
  <1>3. /\ path[c].slot \in Slots /\ path[c].gen < dir[path[c].slot].gen
        /\ path[c].stack = None /\ path[c].gids = <<>>
    BY <1>1, <1>2 DEF InHand, Dying
  <1>4. vspace_of' \in [Slots -> Asids \cup {None}] /\ vspaces' \subseteq Asids
    BY DEF look, DInv, DTypes
  <1>5. CASE a = None
    <2>1. OnlyPath(c, User) BY <1>5, DoneStep DEF look, DInv
    <2> QED BY <1>2, <1>3, <1>4, <2>1, UserPath, Onward DEF look, Locked, Dying
  <1>6. CASE a # None
    <2>1. a \in Asids \cup {None} BY <1>3 DEF DInv, DTypes
    <2>2. /\ p \in Path /\ p.at = "teardown" /\ p.slot = path[c].slot /\ p.gen = path[c].gen
          /\ p.stack = path[c].stack /\ p.gids = path[c].gids
      BY <1>1, <2>1 DEF Path, Stages
    <2>3. path' = [path EXCEPT ![c] = p] BY <1>6 DEF look
    <2> HIDE DEF p, a
    <2>4. OnlyPath(c, p) BY <2>2, <2>3, PathStep DEF DInv
    <2> QED BY <1>2, <1>3, <1>4, <2>2, <2>4, Onward DEF look, Locked
  <1> QED BY <1>5, <1>6

LEMMA TeardownInv == ASSUME DInv, NEW c \in Cores, vspace_teardown(c) PROVE DInv'
PROOF
  <1> DEFINE p == [path[c] EXCEPT !.at = "clear"]
  <1>1. path[c] \in Path /\ InHand(c) BY Hand
  <1>2. path[c].at = "teardown" BY DEF vspace_teardown
  <1>3. /\ path[c].slot \in Slots /\ path[c].gen < dir[path[c].slot].gen
        /\ path[c].stack = None /\ path[c].gids = <<>>
    BY <1>1, <1>2 DEF InHand, Dying
  <1>4. vspace_of' \in [Slots -> Asids \cup {None}] /\ vspaces' \subseteq Asids
    BY DEF vspace_teardown, DInv, DTypes
  <1>5. /\ p \in Path /\ p.at = "clear" /\ p.slot = path[c].slot /\ p.gen = path[c].gen
        /\ p.stack = path[c].stack /\ p.gids = path[c].gids
    BY <1>1 DEF Path, Stages
  <1>6. OnlyPath(c, p) BY GotoStep DEF vspace_teardown, DInv, Stages
  <1> QED BY <1>2, <1>3, <1>4, <1>5, <1>6, Onward DEF vspace_teardown, Locked

LEMMA ClearInv == ASSUME DInv, NEW c \in Cores, clear_vspace(c) PROVE DInv'
PROOF
  <1> DEFINE p == [path[c] EXCEPT !.at = "reclaim"]
  <1>1. path[c] \in Path /\ InHand(c) BY Hand
  <1>2. path[c].at = "clear" BY DEF clear_vspace
  <1>3. /\ path[c].slot \in Slots /\ path[c].gen < dir[path[c].slot].gen
        /\ path[c].stack = None /\ path[c].gids = <<>>
    BY <1>1, <1>2 DEF InHand, Dying
  <1>4. vspace_of' \in [Slots -> Asids \cup {None}] /\ vspaces' \subseteq Asids
    BY DEF clear_vspace, DInv, DTypes
  <1>5. CASE path[c].on = "destroy"
    <2>1. /\ p \in Path /\ p.at = "reclaim" /\ p.slot = path[c].slot /\ p.gen = path[c].gen
          /\ p.stack = path[c].stack /\ p.gids = path[c].gids
      BY <1>1 DEF Path, Stages
    <2>2. OnlyPath(c, p) BY <1>5, GotoStep DEF clear_vspace, DInv, Stages
    <2> QED BY <1>2, <1>3, <1>4, <2>1, <2>2, Onward DEF clear_vspace, Locked
  <1>6. CASE path[c].on # "destroy"
    <2>1. OnlyPath(c, User) BY <1>6, DoneStep DEF clear_vspace, DInv
    <2> QED BY <1>2, <1>3, <1>4, <2>1, UserPath, Onward DEF clear_vspace, Locked, Dying
  <1> QED BY <1>5, <1>6

-----------------------------------------------------------------------------
(* A thread is withdrawn from the directory                                *)

LEMMA WithdrawEffect ==
  ASSUME DInv, NEW s \in Slots, dir[s].used, NEW e \in Cores, record_zombie(s, e)
  PROVE  /\ dir' \in [Slots -> DirEntry] /\ zombies' \in [Cores -> Seq(Slots)]
         /\ dir'[s].gen = dir[s].gen + 1 /\ dir[s].gen \in Nat /\ ~dir'[s].used
         /\ dir'[s].stack = None
         /\ \A r \in Slots : r # s => dir'[r] = dir[r]
         /\ \A d \in Cores : d # e => zombies'[d] = zombies[d]
         /\ IsInjective(zombies'[e])
         /\ ToSet(zombies[e]) \subseteq ToSet(zombies'[e])
         /\ ToSet(zombies'[e]) \subseteq ToSet(zombies[e]) \cup {s}
         /\ Len(zombies[e]) < ZombieCap => s \in ToSet(zombies'[e])
PROOF
  <1>0. DTypes /\ Slotted BY DEF DInv
  <1>1. dir[s] \in DirEntry /\ dir[s].gen \in Nat BY <1>0 DEF DTypes, DirEntry
  <1>2. Empty(dir[s].gen + 1) \in DirEntry BY <1>1 DEF Empty, DirEntry
  <1>3. /\ Empty(dir[s].gen + 1).gen = dir[s].gen + 1 /\ ~Empty(dir[s].gen + 1).used
        /\ Empty(dir[s].gen + 1).stack = None
    BY DEF Empty
  <1>4. dir' = [dir EXCEPT ![s] = Empty(dir[s].gen + 1)] BY DEF record_zombie
  <1>5. /\ dir' \in [Slots -> DirEntry] /\ dir'[s] = Empty(dir[s].gen + 1)
        /\ \A r \in Slots : r # s => dir'[r] = dir[r]
    BY <1>0, <1>2, <1>4 DEF DTypes
  <1>6. zombies[e] \in Seq(Slots) /\ IsInjective(zombies[e]) BY <1>0 DEF DTypes, Slotted
  <1>7. s \notin ToSet(zombies[e]) BY <1>0 DEF Slotted, SlotOnce, InRing
  <1> DEFINE a == Append(zombies[e], s)
  <1>8. a \in Seq(Slots) /\ ToSet(a) = ToSet(zombies[e]) \cup {s} /\ IsInjective(a)
    BY <1>6, <1>7, AppendSlot
  <1>9. zombies' = IF Len(zombies[e]) < ZombieCap THEN [zombies EXCEPT ![e] = a] ELSE zombies
    BY DEF record_zombie
  <1> HIDE DEF a
  <1>10. /\ zombies' \in [Cores -> Seq(Slots)] /\ \A d \in Cores : d # e => zombies'[d] = zombies[d]
         /\ zombies'[e] = IF Len(zombies[e]) < ZombieCap THEN a ELSE zombies[e]
    BY <1>0, <1>8, <1>9 DEF DTypes
  <1> QED BY <1>1, <1>3, <1>5, <1>6, <1>8, <1>10

LEMMA Withdraw ==
  ASSUME DInv, NEW c \in Cores, NEW s \in Slots, dir[s].used, NEW e \in Cores, dir[s].core = e,
         ~Locked(e), record_zombie(s, e), NEW p \in Path, OnlyPath(c, p),
         UNCHANGED <<gidfree, base_of, gen_of, stacks, vspace_of, vspaces>>,
         ~Locked(c), path[c].at # "spawn", path[c].stack = None, path[c].gids = <<>>,
         p.at \in {"teardown", "reclaim"}, p.stack = None, p.gids = <<>>,
         p.slot = s, p.gen = dir[s].gen
  PROVE  DInv'
PROOF
  <1>0. DTypes /\ Homed /\ Paths /\ HandsApart /\ BookedApart /\ LiveBooked /\ Slotted BY DEF DInv
  <1>1. /\ dir' \in [Slots -> DirEntry] /\ zombies' \in [Cores -> Seq(Slots)]
        /\ dir'[s].gen = dir[s].gen + 1 /\ dir[s].gen \in Nat /\ ~dir'[s].used
        /\ dir'[s].stack = None
        /\ \A r \in Slots : r # s => dir'[r] = dir[r]
    BY WithdrawEffect
  <1>2. /\ \A d \in Cores : d # e => zombies'[d] = zombies[d]
        /\ IsInjective(zombies'[e])
        /\ ToSet(zombies'[e]) \subseteq ToSet(zombies[e]) \cup {s}
    BY WithdrawEffect
  <1>3. DTypes' BY <1>0, <1>1 DEF DTypes, OnlyPath
  <1>4. Paths'
    <2>1. SUFFICES ASSUME NEW d \in Cores PROVE Born(d)' /\ InHand(d)' BY DEF Paths
    <2>2. CASE d = c
      <3>1. path'[d] = p BY <2>2 DEF OnlyPath
      <3>2. dir[s].gen < dir'[s].gen BY <1>1
      <3> QED BY <3>1, <3>2 DEF Born, InHand, Locked
    <2>3. CASE d # c
      <3>1. path'[d] = path[d] /\ Born(d) /\ InHand(d) BY <2>3, <1>0 DEF OnlyPath, Paths
      <3>2. Born(d)'
        <4>1. SUFFICES ASSUME Locked(d) PROVE Born(d)' BY <3>1 DEF Born, Locked
        <4>2. path[d].slot \in Slots /\ path[d].slot # s BY <3>1, <4>1 DEF Born
        <4> QED BY <1>1, <3>1, <4>1, <4>2 DEF Born, Locked
      <3>3. InHand(d)'
        <4>1. path[d] \in Path /\ path[d].gen \in Nat BY <1>0 DEF DTypes, Path
        <4>2. \A r \in Slots : dir[r].gen \in Nat BY <1>0 DEF DTypes, DirEntry
        <4>3. ASSUME path[d].slot \in Slots, path[d].gen < dir[path[d].slot].gen
              PROVE path[d].gen < dir'[path[d].slot].gen
          BY <1>1, <4>1, <4>2, <4>3
        <4> QED BY <3>1, <4>3 DEF InHand
      <3> QED BY <3>2, <3>3
    <2> QED BY <2>2, <2>3
  <1>5. HandsApart' BY <1>0 DEF HandsApart, OnlyPath
  <1>6. BookedApart' BY <1>0 DEF BookedApart, OnlyPath
  <1>7. LiveBooked'
    <2>1. \A r \in Slots : Live(r)' => Live(r) /\ r # s BY <1>1 DEF Live, Locked, OnlyPath
    <2> QED BY <1>0, <1>1, <2>1 DEF LiveBooked
  <1>8. Slotted'
    <2>1. \A d \in Cores : path'[d].gids = path[d].gids BY DEF OnlyPath
    <2>2. ~InFree(s) /\ \A d \in Cores : ~InRing(s, d) /\ ~Reaped(s, d)
      BY <1>0 DEF Slotted, SlotOnce
    <2>3. ASSUME NEW r \in Slots PROVE SlotOnce(r)'
      <3>1. SlotOnce(r) BY <1>0 DEF Slotted
      <3>2. \A d \in Cores : Reaped(r, d)' <=> Reaped(r, d) BY <2>1 DEF Reaped
      <3>3. InFree(r)' <=> InFree(r) BY DEF InFree
      <3>4. \A d \in Cores : InRing(r, d)' => InRing(r, d) \/ (r = s /\ d = e) BY <1>2 DEF InRing
      <3>5. dir'[r].used => dir[r].used /\ r # s BY <1>1
      <3> QED BY <2>2, <3>1, <3>2, <3>3, <3>4, <3>5 DEF SlotOnce
    <2> QED BY <1>0, <1>2, <2>1, <2>3 DEF Slotted
  <1>9. Homed' BY <1>0, <1>1 DEF Homed
  <1> QED BY <1>3, <1>4, <1>5, <1>6, <1>7, <1>8, <1>9 DEF DInv

LEMMA DieStep ==
  ASSUME DInv, NEW c \in Cores, NEW s \in Slots, NEW how \in {"exit", "fault", "kill", "destroy"},
         die(c, s, how)
  PROVE  \E p \in Path :
           /\ OnlyPath(c, p) /\ p.at = (IF how = "destroy" THEN "teardown" ELSE "reclaim")
           /\ p.on = how /\ p.stack = None /\ p.gids = <<>> /\ p.slot = s /\ p.gen = dir[s].gen
           /\ how = "destroy" => p.asid = vspace_of[s]
PROOF
  <1> DEFINE a == IF how = "destroy" THEN "teardown" ELSE "reclaim"
             v == IF how = "destroy" THEN vspace_of[s] ELSE None
             p == [User EXCEPT !.at = a, !.on = how, !.slot = s, !.gen = dir[s].gen, !.asid = v]
  <1>1. path' = [path EXCEPT ![c] = p] BY DEF die
  <1>2. a \in Stages /\ v \in Asids \cup {None} BY DEF Stages, DInv, DTypes
  <1>3. dir[s].gen \in Nat BY DEF DInv, DTypes, DirEntry
  <1>4. how = "destroy" => v = vspace_of[s] OBVIOUS
  <1>5. a = (IF how = "destroy" THEN "teardown" ELSE "reclaim") OBVIOUS
  <1> HIDE DEF a, v
  <1>6. /\ p \in Path /\ p.at = a /\ p.on = how /\ p.stack = None /\ p.gids = <<>> /\ p.slot = s
        /\ p.gen = dir[s].gen /\ p.asid = v
    BY <1>2, <1>3, UserPath DEF Path
  <1> HIDE DEF p
  <1>7. OnlyPath(c, p) BY <1>1, <1>6, PathStep DEF DInv
  <1> QED BY <1>4, <1>5, <1>6, <1>7

LEMMA DieInv ==
  ASSUME DInv, NEW c \in Cores, NEW s \in Slots, NEW how \in {"exit", "fault", "kill", "destroy"},
         die(c, s, how)
  PROVE  DInv'
PROOF
  <1>1. PICK p \in Path :
              /\ OnlyPath(c, p) /\ p.at \in {"teardown", "reclaim"}
              /\ p.stack = None /\ p.gids = <<>> /\ p.slot = s /\ p.gen = dir[s].gen
    BY DieStep
  <1>2. /\ dir[s].used /\ dir[s].core = c /\ record_zombie(s, c) /\ path[c] = User
        /\ UNCHANGED <<gidfree, base_of, gen_of, stacks, vspace_of, vspaces>>
    BY DEF die
  <1>3. ~Locked(c) BY <1>2, UserPath DEF Locked
  <1> QED BY <1>1, <1>2, <1>3, UserPath, Withdraw

LEMMA KillInv == ASSUME DInv, NEW c \in Cores, kill_remote(c) PROVE DInv'
PROOF
  <1>1. path[c] \in Path /\ InHand(c) BY Hand
  <1>2. path[c].at = "kill" BY DEF kill_remote
  <1>3. path[c].slot \in Slots /\ path[c].stack = None /\ path[c].gids = <<>>
    BY <1>1, <1>2 DEF InHand
  <1>4. ~Locked(c) BY <1>2 DEF Locked
  <1> DEFINE s == path[c].slot
             p == [path[c] EXCEPT !.at = "reclaim"]
  <1>5. CASE dir[s].used /\ dir[s].gen = path[c].gen
    <2>1. /\ ~Locked(dir[s].core) /\ record_zombie(s, dir[s].core) /\ Goto(c, "reclaim")
          /\ UNCHANGED <<gidfree, base_of, gen_of, stacks, vspace_of, vspaces>>
      BY <1>5 DEF kill_remote
    <2>2. OnlyPath(c, p) BY <2>1, GotoStep DEF DInv, Stages
    <2>3. /\ p \in Path /\ p.at = "reclaim" /\ p.slot = s /\ p.gen = path[c].gen
          /\ p.stack = path[c].stack /\ p.gids = path[c].gids
      BY <1>1 DEF Path, Stages
    <2>4. dir[s].core \in Cores BY <1>3, <1>5 DEF DInv, Homed
    <2> HIDE DEF p, s
    <2> QED BY <1>2, <1>3, <1>4, <1>5, <2>1, <2>2, <2>3, <2>4, Withdraw DEF s
  <1>6. CASE ~(dir[s].used /\ dir[s].gen = path[c].gen)
    <2>1. OnlyPath(c, User) BY <1>6, DoneStep DEF kill_remote, DInv
    <2>2. vspace_of' \in [Slots -> Asids \cup {None}] /\ vspaces' \subseteq Asids
      BY DEF kill_remote, DInv, DTypes
    <2>3. UNCHANGED <<dir, gidfree, zombies, base_of, gen_of, stacks>> BY <1>6 DEF kill_remote
    <2> QED BY <1>2, <1>3, <1>4, <2>1, <2>2, <2>3, UserPath, Onward DEF Dying
  <1> QED BY <1>5, <1>6

-----------------------------------------------------------------------------
(* Birth                                                                   *)

\* The slots and what is in them do not move.
LEMMA SameSlots ==
  ASSUME DInv, UNCHANGED <<gidfree, zombies>>, \A s \in Slots : dir'[s].used = dir[s].used,
         \A d \in Cores : path'[d].gids = path[d].gids
  PROVE  Slotted'
PROOF
  <1>1. Slotted BY DEF DInv
  <1>2. \A s \in Slots : SlotOnce(s)' BY <1>1 DEF Slotted, SlotOnce, InRing, Reaped, InFree
  <1> QED BY <1>1, <1>2 DEF Slotted

LEMMA ClaimStep ==
  ASSUME DInv, NEW c \in Cores, claim(c)
  PROVE  \E k \in stacks, a \in Asids \ vspaces, p \in Path :
           /\ stacks' = stacks \ {k} /\ vspaces' = vspaces \cup {a}
           /\ OnlyPath(c, p) /\ p.at = "spawn" /\ p.stack = k /\ p.asid = a /\ p.gids = <<>> /\ p.on = None
PROOF
  <1>1. PICK k \in stacks, a \in Asids \ vspaces :
              /\ stacks' = stacks \ {k} /\ vspaces' = vspaces \cup {a}
              /\ path' = [path EXCEPT ![c] = [User EXCEPT !.at = "spawn", !.stack = k, !.asid = a]]
    BY DEF claim
  <1> DEFINE p == [User EXCEPT !.at = "spawn", !.stack = k, !.asid = a]
  <1>2. k \in Stacks BY DEF DInv, DTypes
  <1>3. p \in Path /\ p.at = "spawn" /\ p.stack = k /\ p.asid = a /\ p.gids = <<>> /\ p.on = None
    BY <1>2, UserPath DEF Path, Stages
  <1> HIDE DEF p
  <1>4. OnlyPath(c, p) BY <1>1, <1>3, PathStep DEF DInv, p
  <1> QED BY <1>1, <1>3, <1>4

LEMMA ClaimInv == ASSUME DeathAssumption, DInv, NEW c \in Cores, claim(c) PROVE DInv'
PROOF
  <1>0. DTypes /\ Homed /\ Paths /\ HandsApart /\ BookedApart /\ LiveBooked /\ Slotted BY DEF DInv
  <1>1. PICK k \in stacks, a \in Asids \ vspaces, p \in Path :
              /\ stacks' = stacks \ {k} /\ vspaces' = vspaces \cup {a}
              /\ OnlyPath(c, p) /\ p.at = "spawn" /\ p.stack = k /\ p.asid = a /\ p.gids = <<>>
    BY ClaimStep
  <1>2. UNCHANGED <<dir, gidfree, zombies, base_of, gen_of, vspace_of>> /\ path[c] = User BY DEF claim
  <1>3. k \in Stacks /\ k # None BY <1>0 DEF DTypes, DeathAssumption
  <1>4. DTypes' BY <1>0, <1>1, <1>2 DEF DTypes, OnlyPath
  <1>5. Homed' BY <1>0, <1>2 DEF Homed
  <1>6. Paths'
    <2>1. SUFFICES ASSUME NEW d \in Cores PROVE Born(d)' /\ InHand(d)' BY DEF Paths
    <2>2. CASE d = c BY <2>2, <1>1, <1>3 DEF OnlyPath, Born, InHand, Locked, Dying
    <2>3. CASE d # c BY <2>3, <1>0, <1>1, <1>2 DEF OnlyPath, Paths, Born, InHand, Locked
    <2> QED BY <2>2, <2>3
  <1>7. HandsApart' BY <1>0, <1>1 DEF HandsApart, OnlyPath
  <1>8. BookedApart' BY <1>0, <1>1, <1>2 DEF BookedApart, OnlyPath
  <1>9. LiveBooked'
    <2>1. \A s \in Slots : Live(s)' => Live(s) BY <1>1, <1>2, UserPath DEF Live, Locked, OnlyPath
    <2> QED BY <1>0, <1>2, <2>1 DEF LiveBooked
  <1>10. Slotted'
    <2>1. \A d \in Cores : path'[d].gids = path[d].gids BY <1>1, <1>2, UserPath DEF OnlyPath
    <2> QED BY <1>2, <2>1, SameSlots
  <1> QED BY <1>4, <1>5, <1>6, <1>7, <1>8, <1>9, <1>10 DEF DInv

\* Without a slot stack and VSpace go back.
LEMMA SpawnFails == ASSUME DInv, NEW c \in Cores, spawn(c), gidfree = <<>> PROVE DInv'
PROOF
  <1>0. DTypes /\ Homed /\ Paths /\ HandsApart /\ BookedApart /\ LiveBooked /\ Slotted BY DEF DInv
  <1>1. /\ stacks' = stacks \cup {path[c].stack} /\ vspaces' = vspaces \ {path[c].asid}
        /\ OnlyPath(c, User) /\ path[c].at = "spawn"
        /\ UNCHANGED <<dir, gidfree, zombies, base_of, gen_of, vspace_of>>
    BY <1>0, DoneStep DEF spawn
  <1>2. path[c] \in Path /\ InHand(c) BY Hand
  <1>3. path[c].stack \in Stacks /\ path[c].gids = <<>> BY <1>1, <1>2 DEF InHand
  <1>4. DTypes' BY <1>0, <1>1, <1>3 DEF DTypes, OnlyPath
  <1>5. Homed' BY <1>0, <1>1 DEF Homed
  <1>6. Paths'
    <2>1. SUFFICES ASSUME NEW d \in Cores PROVE Born(d)' /\ InHand(d)' BY DEF Paths
    <2>2. CASE d = c BY <2>2, <1>1, UserPath DEF OnlyPath, Born, InHand, Locked, Dying
    <2>3. CASE d # c BY <2>3, <1>0, <1>1 DEF OnlyPath, Paths, Born, InHand, Locked
    <2> QED BY <2>2, <2>3
  <1>7. HandsApart' BY <1>0, <1>1, UserPath DEF HandsApart, OnlyPath
  <1>8. BookedApart' BY <1>0, <1>1, UserPath DEF BookedApart, OnlyPath
  <1>9. LiveBooked'
    <2>1. \A s \in Slots : Live(s)' => Live(s) BY <1>1, UserPath DEF Live, Locked, OnlyPath
    <2> QED BY <1>0, <1>1, <2>1 DEF LiveBooked
  <1>10. Slotted'
    <2>1. \A d \in Cores : path'[d].gids = path[d].gids BY <1>1, <1>3, UserPath DEF OnlyPath
    <2> QED BY <1>1, <2>1, SameSlots
  <1> QED BY <1>4, <1>5, <1>6, <1>7, <1>8, <1>9, <1>10 DEF DInv

LEMMA SpawnStep ==
  ASSUME DInv, NEW c \in Cores, spawn(c), gidfree # <<>>
  PROVE  \E s \in Slots, p \in Path :
           /\ s = Head(gidfree) /\ gidfree' = Tail(gidfree) /\ ~dir[s].used
           /\ OnlyPath(c, p) /\ p.at = "record" /\ p.slot = s /\ p.gen = dir[s].gen
           /\ p.stack = path[c].stack /\ p.asid = path[c].asid /\ p.gids = <<>>
           /\ p.on = path[c].on
           /\ dir' \in [Slots -> DirEntry] /\ dir'[s].used /\ dir'[s].core = c
           /\ dir'[s].stack = path[c].stack /\ dir'[s].asid = path[c].asid /\ dir'[s].gen = dir[s].gen
           /\ \A r \in Slots : r # s => dir'[r] = dir[r]
           /\ vspace_of' = [vspace_of EXCEPT ![s] = None]
           /\ UNCHANGED <<zombies, base_of, gen_of, stacks, vspaces>>
PROOF
  <1> DEFINE s == Head(gidfree)
             p == [path[c] EXCEPT !.at = "record", !.slot = s, !.gen = dir[s].gen]
             e == [dir[s] EXCEPT !.used = TRUE, !.core = c, !.stack = path[c].stack,
                                 !.asid = path[c].asid]
  <1>0. DTypes /\ Slotted BY DEF DInv
  <1>1. path[c].at = "spawn" BY DEF spawn
  <1>2. /\ gidfree' = Tail(gidfree)
        /\ dir' = [dir EXCEPT ![s].used = TRUE, ![s].core = c, ![s].stack = path[c].stack,
                              ![s].asid = path[c].asid]
        /\ vspace_of' = [vspace_of EXCEPT ![s] = None]
        /\ path' = [path EXCEPT ![c].at = "record", ![c].slot = s, ![c].gen = dir[s].gen]
        /\ UNCHANGED <<stacks, vspaces, zombies, base_of, gen_of>>
    BY DEF spawn
  <1>3. path[c] \in Path /\ path[c].gids = <<>> BY <1>1, Hand DEF InHand
  <1>4. path[c].stack \in Stacks /\ path[c].asid \in Asids BY <1>1, Hand DEF InHand
  <1>5. s \in Slots /\ s \in ToSet(gidfree) BY <1>0, TailSlot DEF DTypes
  <1>6. ~dir[s].used BY <1>0, <1>5 DEF Slotted, SlotOnce, InFree
  <1>7. dir[s] \in DirEntry /\ dir[s].gen \in Nat BY <1>0, <1>5 DEF DTypes, DirEntry
  <1>8. dir' = [dir EXCEPT ![s] = e] BY <1>0, <1>2, <1>5 DEF DTypes
  <1>9. path' = [path EXCEPT ![c] = p] BY <1>0, <1>2 DEF DTypes
  <1> HIDE DEF s
  <1>10. /\ e \in DirEntry /\ e.used /\ e.core = c /\ e.stack = path[c].stack /\ e.asid = path[c].asid
         /\ e.gen = dir[s].gen
    BY <1>4, <1>7 DEF DirEntry
  <1>11. /\ p \in Path /\ p.at = "record" /\ p.slot = s /\ p.gen = dir[s].gen
         /\ p.stack = path[c].stack /\ p.asid = path[c].asid /\ p.gids = path[c].gids
         /\ p.on = path[c].on
    BY <1>3, <1>5, <1>7 DEF Path, Stages
  <1> HIDE DEF p, e
  <1>12. OnlyPath(c, p) BY <1>0, <1>9, <1>11, PathStep
  <1>13. /\ dir' \in [Slots -> DirEntry] /\ dir'[s] = e
         /\ \A r \in Slots : r # s => dir'[r] = dir[r]
    BY <1>0, <1>5, <1>8, <1>10 DEF DTypes
  <1>14. s = Head(gidfree) BY DEF s
  <1> s \in Slots BY <1>5
  <1> p \in Path BY <1>11
  <1> WITNESS s \in Slots, p \in Path
  <1> QED BY <1>2, <1>3, <1>6, <1>10, <1>11, <1>12, <1>13, <1>14

\* The number at the head of the list is nobody's; SCHEDS is held until the thread is bound.
LEMMA SpawnTakes == ASSUME DInv, NEW c \in Cores, spawn(c), gidfree # <<>> PROVE DInv'
PROOF
  <1>0. DTypes /\ Homed /\ Paths /\ HandsApart /\ BookedApart /\ LiveBooked /\ Slotted BY DEF DInv
  <1>1. PICK s \in Slots, p \in Path :
              /\ s = Head(gidfree) /\ gidfree' = Tail(gidfree) /\ ~dir[s].used
              /\ OnlyPath(c, p) /\ p.at = "record" /\ p.slot = s /\ p.gen = dir[s].gen
              /\ p.stack = path[c].stack /\ p.asid = path[c].asid /\ p.gids = <<>>
              /\ dir' \in [Slots -> DirEntry] /\ dir'[s].used /\ dir'[s].core = c
              /\ dir'[s].stack = path[c].stack /\ dir'[s].asid = path[c].asid
              /\ dir'[s].gen = dir[s].gen
              /\ \A r \in Slots : r # s => dir'[r] = dir[r]
              /\ vspace_of' = [vspace_of EXCEPT ![s] = None]
              /\ UNCHANGED <<zombies, base_of, gen_of, stacks, vspaces>>
    BY SpawnStep
  <1>2. path[c].at = "spawn" BY DEF spawn
  <1>3. /\ path[c].stack \in Stacks /\ path[c].asid \in Asids /\ path[c].gids = <<>>
        /\ path[c] \in Path
    BY <1>2, Hand DEF InHand
  <1>4. /\ Tail(gidfree) \in Seq(Slots) /\ ToSet(gidfree) = {s} \cup ToSet(Tail(gidfree))
        /\ IsInjective(Tail(gidfree)) /\ s \notin ToSet(Tail(gidfree))
    BY <1>0, <1>1, TailSlot DEF DTypes, Slotted
  <1>5. DTypes'
    <2>1. vspace_of' \in [Slots -> Asids \cup {None}] BY <1>0, <1>1 DEF DTypes
    <2> QED BY <1>0, <1>1, <1>4, <2>1 DEF DTypes, OnlyPath
  <1>6. Homed' BY <1>0, <1>1 DEF Homed
  <1>7. Paths'
    <2>1. SUFFICES ASSUME NEW d \in Cores PROVE Born(d)' /\ InHand(d)' BY DEF Paths
    <2>2. CASE d = c BY <2>2, <1>1, <1>3 DEF OnlyPath, Born, InHand, Locked, Dying
    <2>3. CASE d # c
      <3>1. path'[d] = path[d] /\ Born(d) /\ InHand(d) BY <2>3, <1>0, <1>1 DEF OnlyPath, Paths
      <3>2. Born(d)'
        <4>1. SUFFICES ASSUME Locked(d) PROVE Born(d)' BY <3>1 DEF Born, Locked
        <4>2. path[d].slot \in Slots /\ path[d].slot # s BY <1>1, <3>1, <4>1 DEF Born
        <4> QED BY <1>1, <3>1, <4>1, <4>2 DEF Born, Locked
      <3>3. \A r \in Slots : dir'[r].gen = dir[r].gen BY <1>1
      <3>4. InHand(d)' BY <3>1, <3>3 DEF InHand
      <3> QED BY <3>2, <3>4
    <2> QED BY <2>2, <2>3
  <1>8. HandsApart' BY <1>0, <1>1 DEF HandsApart, OnlyPath
  <1>9. BookedApart'
    <2>1. \A r \in Slots : base_of[r] # None => base_of[r] # path[c].stack
      BY <1>0, <1>2 DEF BookedApart
    <2> QED BY <1>0, <1>1, <2>1 DEF BookedApart, OnlyPath
  <1>10. LiveBooked'
    <2>1. \A r \in Slots : Live(r)' => Live(r) /\ r # s
      BY <1>1, <1>2 DEF Live, Locked, OnlyPath
    <2> QED BY <1>0, <1>1, <2>1 DEF LiveBooked
  <1>11. Slotted'
    <2>1. \A d \in Cores : path'[d].gids = path[d].gids BY <1>1, <1>3 DEF OnlyPath
    <2>2. ASSUME NEW r \in Slots PROVE SlotOnce(r)'
      <3>1. SlotOnce(r) /\ SlotOnce(s) BY <1>0 DEF Slotted
      <3>2. \A d \in Cores : Reaped(r, d)' <=> Reaped(r, d) BY <2>1 DEF Reaped
      <3>3. InFree(r)' <=> InFree(r) /\ r # s BY <1>1, <1>4 DEF InFree
      <3>4. \A d \in Cores : InRing(r, d)' <=> InRing(r, d) BY <1>1 DEF InRing
      <3>5. dir'[r].used => dir[r].used \/ r = s BY <1>1
      <3>6. InFree(s) BY <1>4 DEF InFree
      <3> QED BY <3>1, <3>2, <3>3, <3>4, <3>5, <3>6 DEF SlotOnce
    <2> QED BY <1>0, <1>1, <1>4, <2>1, <2>2 DEF Slotted
  <1> QED BY <1>5, <1>6, <1>7, <1>8, <1>9, <1>10, <1>11 DEF DInv

LEMMA RecordInv == ASSUME DeathAssumption, DInv, NEW c \in Cores, record_user_kstack(c) PROVE DInv'
PROOF
  <1> DEFINE s == path[c].slot
             p == [path[c] EXCEPT !.at = "bind"]
  <1>0. DTypes /\ Homed /\ Paths /\ HandsApart /\ BookedApart /\ LiveBooked /\ Slotted BY DEF DInv
  <1>1. /\ path[c].at = "record" /\ Goto(c, "bind")
        /\ base_of' = [base_of EXCEPT ![s] = path[c].stack]
        /\ gen_of' = [gen_of EXCEPT ![s] = path[c].gen]
        /\ UNCHANGED <<dir, gidfree, zombies, stacks, vspace_of, vspaces>>
    BY DEF record_user_kstack
  <1>2. path[c] \in Path /\ path[c].gen \in Nat /\ path[c].gids = <<>>
    BY <1>1, Hand DEF InHand, Path
  <1>3. /\ s \in Slots /\ path[c].stack \in Stacks /\ path[c].asid \in Asids
        /\ dir[s].used /\ dir[s].core = c /\ dir[s].gen = path[c].gen
        /\ dir[s].stack = path[c].stack /\ dir[s].asid = path[c].asid
    BY <1>1, Hand DEF Born, Locked
  <1>4. OnlyPath(c, p) BY <1>0, <1>1, GotoStep DEF Stages
  <1>5. /\ p \in Path /\ p.at = "bind" /\ p.slot = s /\ p.gen = path[c].gen
        /\ p.stack = path[c].stack /\ p.asid = path[c].asid /\ p.gids = path[c].gids
    BY <1>2 DEF Path, Stages
  <1> HIDE DEF s, p
  <1>6. /\ base_of' \in [Slots -> Stacks \cup {None}] /\ gen_of' \in [Slots -> Nat]
        /\ base_of'[s] = path[c].stack /\ gen_of'[s] = path[c].gen
        /\ \A r \in Slots : r # s => base_of'[r] = base_of[r] /\ gen_of'[r] = gen_of[r]
    BY <1>0, <1>1, <1>2, <1>3 DEF DTypes
  <1>7. path[c].stack # None BY <1>3 DEF DeathAssumption
  <1>8. DTypes' BY <1>0, <1>1, <1>4, <1>6 DEF DTypes, OnlyPath
  <1>9. Homed' BY <1>0, <1>1 DEF Homed
  <1>10. Paths'
    <2>1. SUFFICES ASSUME NEW d \in Cores PROVE Born(d)' /\ InHand(d)' BY DEF Paths
    <2>2. CASE d = c BY <2>2, <1>1, <1>2, <1>3, <1>4, <1>5, <1>6 DEF OnlyPath, Born, InHand, Locked, Dying
    <2>3. CASE d # c
      <3>1. path'[d] = path[d] /\ Born(d) /\ InHand(d) BY <2>3, <1>0, <1>4 DEF OnlyPath, Paths
      <3>2. Born(d)'
        <4>1. SUFFICES ASSUME Locked(d) PROVE Born(d)' BY <3>1 DEF Born, Locked
        <4>2. path[d].slot \in Slots /\ path[d].slot # s BY <2>3, <1>3, <3>1, <4>1 DEF Born
        <4> QED BY <1>1, <1>6, <3>1, <4>1, <4>2 DEF Born, Locked
      <3>3. InHand(d)' BY <1>1, <3>1 DEF InHand
      <3> QED BY <3>2, <3>3
    <2> QED BY <2>2, <2>3
  <1>11. HandsApart' BY <1>0, <1>1, <1>4, <1>5 DEF HandsApart, OnlyPath
  <1>12. BookedApart'
    <2>1. SUFFICES ASSUME NEW r \in Slots, base_of'[r] # None
                   PROVE  /\ base_of'[r] \notin stacks'
                          /\ \A q \in Slots : base_of'[q] = base_of'[r] => q = r
                          /\ \A d \in Cores : path'[d].stack = base_of'[r] =>
                                path'[d].at = "bind" /\ path'[d].slot = r
      BY DEF BookedApart
    <2>2. \A q \in Slots : base_of[q] # path[c].stack BY <1>0, <1>1, <1>7 DEF BookedApart
    <2>3. /\ path[c].stack \notin stacks
          /\ \A d \in Cores : path[d].stack = path[c].stack => d = c
      BY <1>0, <1>7 DEF HandsApart
    <2>4. CASE r = s BY <2>2, <2>3, <2>4, <1>1, <1>4, <1>5, <1>6 DEF OnlyPath
    <2>5. CASE r # s BY <2>1, <2>2, <2>5, <1>0, <1>1, <1>4, <1>5, <1>6 DEF OnlyPath, BookedApart
    <2> QED BY <2>4, <2>5
  <1>13. LiveBooked'
    <2>1. \A r \in Slots : Live(r)' => Live(r) /\ r # s
      BY <1>1, <1>4, <1>5 DEF Live, Locked, OnlyPath, s
    <2> QED BY <1>0, <1>1, <1>6, <2>1 DEF LiveBooked
  <1>14. Slotted'
    <2>1. \A d \in Cores : path'[d].gids = path[d].gids BY <1>4, <1>5 DEF OnlyPath
    <2> QED BY <1>1, <2>1, SameSlots
  <1> QED BY <1>8, <1>9, <1>10, <1>11, <1>12, <1>13, <1>14 DEF DInv

LEMMA BindInv == ASSUME DInv, NEW c \in Cores, bind(c) PROVE DInv'
PROOF
  <1> DEFINE s == path[c].slot
  <1>0. DTypes /\ Homed /\ Paths /\ HandsApart /\ BookedApart /\ LiveBooked /\ Slotted BY DEF DInv
  <1>1. /\ path[c].at = "bind" /\ OnlyPath(c, User)
        /\ vspace_of' = [vspace_of EXCEPT ![s] = path[c].asid]
        /\ UNCHANGED <<dir, gidfree, zombies, base_of, gen_of, stacks, vspaces>>
    BY <1>0, DoneStep DEF bind
  <1>2. path[c] \in Path /\ path[c].gids = <<>> BY <1>1, Hand DEF InHand
  <1>3. /\ s \in Slots /\ path[c].stack \in Stacks /\ path[c].asid \in Asids
        /\ base_of[s] = dir[s].stack /\ gen_of[s] = dir[s].gen /\ dir[s].stack \in Stacks
    BY <1>1, Hand DEF Born, Locked
  <1>4. DTypes'
    <2>1. vspace_of' \in [Slots -> Asids \cup {None}] BY <1>0, <1>1, <1>3 DEF DTypes
    <2> QED BY <1>0, <1>1, <2>1 DEF DTypes, OnlyPath
  <1>5. Homed' BY <1>0, <1>1 DEF Homed
  <1>6. Paths'
    <2>1. SUFFICES ASSUME NEW d \in Cores PROVE Born(d)' /\ InHand(d)' BY DEF Paths
    <2>2. CASE d = c BY <2>2, <1>1, UserPath DEF OnlyPath, Born, InHand, Locked, Dying
    <2>3. CASE d # c BY <2>3, <1>0, <1>1 DEF OnlyPath, Paths, Born, InHand, Locked
    <2> QED BY <2>2, <2>3
  <1>7. HandsApart' BY <1>0, <1>1, UserPath DEF HandsApart, OnlyPath
  <1>8. BookedApart' BY <1>0, <1>1, UserPath DEF BookedApart, OnlyPath
  <1>9. LiveBooked'
    <2>1. \A r \in Slots : Live(r)' => Live(r) \/ r = s BY <1>1, UserPath DEF Live, Locked, OnlyPath
    <2> QED BY <1>0, <1>1, <1>3, <2>1 DEF LiveBooked
  <1>10. Slotted'
    <2>1. \A d \in Cores : path'[d].gids = path[d].gids BY <1>1, <1>2, UserPath DEF OnlyPath
    <2> QED BY <1>1, <2>1, SameSlots
  <1> QED BY <1>4, <1>5, <1>6, <1>7, <1>8, <1>9, <1>10 DEF DInv

-----------------------------------------------------------------------------
(* The kernel stack of a dead thread                                       *)

\* A stack that is booked under a past generation is of no live thread and of no thread being
\* booked: the slot's successor books it under the present one.
LEMMA PastStack ==
  ASSUME DInv, NEW s \in Slots, base_of[s] # None, gen_of[s] < dir[s].gen
  PROVE  /\ ~Live(s) /\ \A d \in Cores : path[d].stack # base_of[s]
         /\ \A d \in Cores : ~(path[d].at = "bind" /\ path[d].slot = s)
PROOF
  <1>0. DTypes /\ Paths /\ BookedApart /\ LiveBooked BY DEF DInv
  <1>1. gen_of[s] \in Nat /\ dir[s].gen \in Nat BY <1>0 DEF DTypes, DirEntry
  <1>2. gen_of[s] # dir[s].gen BY <1>1
  <1>3. ~Live(s) BY <1>0, <1>2 DEF LiveBooked
  <1>4. ASSUME NEW d \in Cores PROVE ~(path[d].at = "bind" /\ path[d].slot = s)
    BY <1>0, <1>2 DEF Paths, Born, Locked
  <1> QED BY <1>0, <1>3, <1>4 DEF BookedApart

LEMMA ReclaimInv == ASSUME DeathAssumption, DInv, NEW c \in Cores, reclaim_user_kstack(c) PROVE DInv'
PROOF
  <1> DEFINE s == path[c].slot
             mine == base_of[s] # None /\ gen_of[s] = path[c].gen
             k == IF mine THEN base_of[s] ELSE None
  <1>0. DTypes /\ Homed /\ Paths /\ HandsApart /\ BookedApart /\ LiveBooked /\ Slotted BY DEF DInv
  <1>1. /\ path[c].at = "reclaim"
        /\ base_of' = IF mine THEN [base_of EXCEPT ![s] = None] ELSE base_of
        /\ gen_of' = IF mine THEN [gen_of EXCEPT ![s] = 0] ELSE gen_of
        /\ path' = [path EXCEPT ![c].at = "free", ![c].stack = k]
        /\ UNCHANGED <<dir, gidfree, zombies, stacks, vspace_of, vspaces>>
    BY DEF reclaim_user_kstack
  <1>2. /\ s \in Slots /\ path[c].gen < dir[s].gen /\ path[c].stack = None /\ path[c].gids = <<>>
    BY <1>1, Hand DEF InHand, Dying
  <1>3. k \in Stacks \cup {None} BY <1>0, <1>2 DEF DTypes
  <1>4. mine => base_of[s] # None /\ gen_of[s] = path[c].gen OBVIOUS
  <1>5. k = IF mine THEN base_of[s] ELSE None OBVIOUS
  <1> HIDE DEF k, mine
  <1> DEFINE p == [path[c] EXCEPT !.at = "free", !.stack = k]
  <1>6. OnlyPath(c, p) /\ p.at = "free" /\ p.stack = k /\ p.slot = s /\ p.gids = path[c].gids
        /\ p.gen = path[c].gen
    <2>1. path[c] \in Path BY Hand
    <2>2. path' = [path EXCEPT ![c] = p] BY <1>0, <1>1 DEF DTypes
    <2>3. /\ p \in Path /\ p.at = "free" /\ p.stack = k
          /\ p.slot = path[c].slot /\ p.gen = path[c].gen /\ p.gids = path[c].gids
      BY <2>1, <1>3 DEF Path, Stages
    <2> HIDE DEF p
    <2>4. OnlyPath(c, p) BY <1>0, <2>2, <2>3, PathStep
    <2> QED BY <2>3, <2>4
  <1> HIDE DEF p
  <1> HIDE DEF s
  <1>7. /\ base_of' \in [Slots -> Stacks \cup {None}] /\ gen_of' \in [Slots -> Nat]
        /\ base_of'[s] = IF mine THEN None ELSE base_of[s]
        /\ gen_of'[s] = IF mine THEN 0 ELSE gen_of[s]
        /\ \A r \in Slots : r # s => base_of'[r] = base_of[r] /\ gen_of'[r] = gen_of[r]
    BY <1>0, <1>1, <1>2 DEF DTypes
  <1>8. mine => /\ ~Live(s) /\ \A d \in Cores : path[d].stack # base_of[s]
                /\ \A d \in Cores : ~(path[d].at = "bind" /\ path[d].slot = s)
    BY <1>2, <1>4, PastStack
  <1>9. DTypes' BY <1>0, <1>1, <1>6, <1>7 DEF DTypes, OnlyPath
  <1>10. Homed' BY <1>0, <1>1 DEF Homed
  <1>11. Paths'
    <2>1. SUFFICES ASSUME NEW d \in Cores PROVE Born(d)' /\ InHand(d)' BY DEF Paths
    <2>2. CASE d = c BY <2>2, <1>1, <1>2, <1>6 DEF OnlyPath, Born, InHand, Locked, Dying
    <2>3. CASE d # c
      <3>1. path'[d] = path[d] /\ Born(d) /\ InHand(d) BY <2>3, <1>0, <1>6 DEF OnlyPath, Paths
      <3>2. InHand(d)' BY <1>1, <3>1 DEF InHand
      <3>3. path[d].at = "bind" /\ path[d].slot \in Slots =>
              base_of'[path[d].slot] = base_of[path[d].slot] /\ gen_of'[path[d].slot] = gen_of[path[d].slot]
        BY <1>7, <1>8
      <3>4. Born(d)' BY <1>1, <3>1, <3>3 DEF Born, Locked
      <3> QED BY <3>2, <3>4
    <2> QED BY <2>2, <2>3
  <1>12. HandsApart'
    <2>1. k # None => k \notin stacks /\ \A d \in Cores : path[d].stack # k
      BY <1>0, <1>2, <1>4, <1>5, <1>8 DEF BookedApart
    <2> QED BY <1>0, <1>1, <1>6, <2>1 DEF HandsApart, OnlyPath
  <1>13. BookedApart'
    <2>1. \A r \in Slots : base_of'[r] # None => base_of'[r] = base_of[r] BY <1>7
    <2>2. \A r \in Slots : base_of'[r] # None => base_of'[r] # k
      BY <1>0, <1>2, <1>4, <1>5, <1>7 DEF BookedApart
    <2> QED BY <1>0, <1>1, <1>6, <2>1, <2>2 DEF BookedApart, OnlyPath
  <1>14. LiveBooked'
    <2>1. \A r \in Slots : Live(r)' => Live(r) BY <1>1, <1>6 DEF Live, Locked, OnlyPath
    <2> QED BY <1>0, <1>1, <1>7, <1>8, <2>1 DEF LiveBooked
  <1>15. Slotted'
    <2>1. \A d \in Cores : path'[d].gids = path[d].gids BY <1>6 DEF OnlyPath
    <2> QED BY <1>1, <2>1, SameSlots
  <1> QED BY <1>9, <1>10, <1>11, <1>12, <1>13, <1>14, <1>15 DEF DInv

LEMMA FreeStep ==
  ASSUME DInv, NEW c \in Cores, free_kstack(c)
  PROVE  \E p \in Path :
           /\ OnlyPath(c, p) /\ p.stack = None /\ p.gids = <<>>
           /\ \/ p = User /\ path[c].on \notin {"fault", "stop", "destroy"}
              \/ /\ \/ p.at = "look" /\ path[c].on = "fault"
                    \/ p.at = "teardown" /\ path[c].on = "stop"
                    \/ p.at = "reap" /\ path[c].on = "destroy"
                 /\ p.slot = path[c].slot /\ p.gen = path[c].gen /\ p.on = path[c].on
                 /\ p.asid = path[c].asid
PROOF
  <1> DEFINE next == AfterStack(path[c].on)
             p == [path[c] EXCEPT !.at = next, !.stack = None]
  <1>1. path[c].at = "free" BY DEF free_kstack
  <1>2. path[c] \in Path /\ path[c].gids = <<>> BY <1>1, Hand DEF InHand
  <1>3. CASE next = "end"
    <2>1. OnlyPath(c, User) BY <1>3, DoneStep DEF free_kstack, DInv
    <2>2. path[c].on \notin {"fault", "stop", "destroy"} BY <1>3 DEF AfterStack
    <2> QED BY <2>1, <2>2, UserPath
  <1>4. CASE next # "end"
    <2>1. \/ next = "look" /\ path[c].on = "fault"
          \/ next = "teardown" /\ path[c].on = "stop"
          \/ next = "reap" /\ path[c].on = "destroy"
      BY <1>4 DEF AfterStack
    <2>2. path' = [path EXCEPT ![c].at = next, ![c].stack = None] BY <1>4 DEF free_kstack
    <2> HIDE DEF next
    <2>3. path' = [path EXCEPT ![c] = p] BY <2>2 DEF DInv, DTypes
    <2>4. next \in Stages BY <2>1 DEF Stages
    <2>5. /\ p \in Path /\ p.at = next /\ p.stack = None /\ p.slot = path[c].slot
          /\ p.gen = path[c].gen /\ p.gids = path[c].gids /\ p.on = path[c].on /\ p.asid = path[c].asid
      BY <1>2, <2>4 DEF Path
    <2> HIDE DEF p
    <2>6. OnlyPath(c, p) BY <2>3, <2>5, PathStep DEF DInv
    <2> QED BY <1>2, <2>1, <2>5, <2>6
  <1> QED BY <1>3, <1>4

LEMMA FreeInv == ASSUME DInv, NEW c \in Cores, free_kstack(c) PROVE DInv'
PROOF
  <1>0. DTypes /\ Homed /\ Paths /\ HandsApart /\ BookedApart /\ LiveBooked /\ Slotted BY DEF DInv
  <1>1. /\ path[c].at = "free" /\ stacks' = stacks \cup ({path[c].stack} \ {None})
        /\ UNCHANGED <<dir, gidfree, zombies, base_of, gen_of, vspace_of, vspaces>>
    BY DEF free_kstack
  <1>2. /\ path[c].slot \in Slots /\ path[c].gen < dir[path[c].slot].gen /\ path[c].gids = <<>>
        /\ path[c].stack \in Stacks \cup {None}
    BY <1>1, Hand DEF InHand, Dying, Path
  <1>3. PICK p \in Path :
              /\ OnlyPath(c, p) /\ p.stack = None /\ p.gids = <<>>
              /\ \/ p.at = "user"
                 \/ /\ p.at \in {"look", "teardown", "reap"}
                    /\ p.slot = path[c].slot /\ p.gen = path[c].gen
    BY FreeStep, UserPath
  <1>4. DTypes' BY <1>0, <1>1, <1>2, <1>3 DEF DTypes, OnlyPath
  <1>5. Homed' BY <1>0, <1>1 DEF Homed
  <1>6. Paths'
    <2>1. SUFFICES ASSUME NEW d \in Cores PROVE Born(d)' /\ InHand(d)' BY DEF Paths
    <2>2. CASE d = c BY <2>2, <1>1, <1>2, <1>3 DEF OnlyPath, Born, InHand, Locked, Dying
    <2>3. CASE d # c BY <2>3, <1>0, <1>1, <1>3 DEF OnlyPath, Paths, Born, InHand, Locked
    <2> QED BY <2>2, <2>3
  <1>7. HandsApart' BY <1>0, <1>1, <1>3 DEF HandsApart, OnlyPath
  <1>8. BookedApart' BY <1>0, <1>1, <1>3 DEF BookedApart, OnlyPath
  <1>9. LiveBooked'
    <2>1. \A s \in Slots : Live(s)' => Live(s) BY <1>1, <1>3 DEF Live, Locked, OnlyPath
    <2> QED BY <1>0, <1>1, <2>1 DEF LiveBooked
  <1>10. Slotted'
    <2>1. \A d \in Cores : path'[d].gids = path[d].gids BY <1>2, <1>3 DEF OnlyPath
    <2> QED BY <1>1, <2>1, SameSlots
  <1> QED BY <1>4, <1>5, <1>6, <1>7, <1>8, <1>9, <1>10 DEF DInv

-----------------------------------------------------------------------------
(* Reaping                                                                 *)

LEMMA ReapStep ==
  ASSUME DInv, NEW c \in Cores, NEW e \in Cores, reap_core(c, e)
  PROVE  \E p \in Path :
           /\ OnlyPath(c, p) /\ p.at = "release" /\ p.stack = None /\ p.gids = zombies[e] /\ p.on = None
           /\ zombies' \in [Cores -> Seq(Slots)] /\ zombies'[e] = <<>>
           /\ \A d \in Cores : d # e => zombies'[d] = zombies[d]
           /\ path[c].at \in {"user", "reap"} /\ path[c].stack = None /\ path[c].gids = <<>>
PROOF
  <1> DEFINE p == [User EXCEPT !.at = "release", !.gids = zombies[e]]
  <1>0. DTypes BY DEF DInv
  <1>1. path' = [path EXCEPT ![c] = p] /\ zombies' = [zombies EXCEPT ![e] = <<>>] BY DEF reap_core
  <1>2. zombies[e] \in Seq(Slots) /\ <<>> \in Seq(Slots) BY <1>0 DEF DTypes
  <1>3. p \in Path /\ p.at = "release" /\ p.stack = None /\ p.gids = zombies[e] /\ p.on = None
    BY <1>2, UserPath DEF Path, Stages
  <1> HIDE DEF p
  <1>4. OnlyPath(c, p) BY <1>0, <1>1, <1>3, PathStep
  <1>5. /\ zombies' \in [Cores -> Seq(Slots)] /\ zombies'[e] = <<>>
        /\ \A d \in Cores : d # e => zombies'[d] = zombies[d]
    BY <1>0, <1>1, <1>2 DEF DTypes
  <1>6. path[c].at \in {"user", "reap"} BY UserPath DEF reap_core
  <1>7. path[c].stack = None /\ path[c].gids = <<>> BY <1>6, Hand DEF InHand
  <1> QED BY <1>3, <1>4, <1>5, <1>6, <1>7

LEMMA ReapInv == ASSUME DInv, NEW c \in Cores, NEW e \in Cores, reap_core(c, e) PROVE DInv'
PROOF
  <1>0. DTypes /\ Homed /\ Paths /\ HandsApart /\ BookedApart /\ LiveBooked /\ Slotted BY DEF DInv
  <1>1. PICK p \in Path :
              /\ OnlyPath(c, p) /\ p.at = "release" /\ p.stack = None /\ p.gids = zombies[e]
              /\ zombies' \in [Cores -> Seq(Slots)] /\ zombies'[e] = <<>>
              /\ \A d \in Cores : d # e => zombies'[d] = zombies[d]
              /\ path[c].at \in {"user", "reap"} /\ path[c].stack = None /\ path[c].gids = <<>>
    BY ReapStep
  <1>2. UNCHANGED <<dir, gidfree, base_of, gen_of, stacks, vspace_of, vspaces>> BY DEF reap_core
  <1>3. DTypes' BY <1>0, <1>1, <1>2 DEF DTypes, OnlyPath
  <1>4. Homed' BY <1>0, <1>2 DEF Homed
  <1>5. Paths'
    <2>1. SUFFICES ASSUME NEW d \in Cores PROVE Born(d)' /\ InHand(d)' BY DEF Paths
    <2>2. CASE d = c BY <2>2, <1>1 DEF OnlyPath, Born, InHand, Locked, Dying
    <2>3. CASE d # c BY <2>3, <1>0, <1>1, <1>2 DEF OnlyPath, Paths, Born, InHand, Locked
    <2> QED BY <2>2, <2>3
  <1>6. \A d \in Cores : /\ path'[d].stack = path[d].stack
                         /\ path[d].stack # None => path'[d] = path[d]
    BY <1>1 DEF OnlyPath
  <1>7. HandsApart' BY <1>0, <1>2, <1>6 DEF HandsApart
  <1>8. BookedApart' BY <1>0, <1>2, <1>6 DEF BookedApart
  <1>9. LiveBooked'
    <2>1. \A s \in Slots : Live(s)' => Live(s) BY <1>1, <1>2 DEF Live, Locked, OnlyPath
    <2> QED BY <1>0, <1>2, <2>1 DEF LiveBooked
  <1>10. Slotted'
    <2>1. ToSet(zombies'[e]) = {} /\ IsInjective(zombies'[e]) /\ ToSet(path[c].gids) = {}
      BY <1>1, NoSlots
    <2>2. ASSUME NEW s \in Slots PROVE SlotOnce(s)'
      <3>1. SlotOnce(s) BY <1>0 DEF Slotted
      <3>2. \A d \in Cores : InRing(s, d)' <=> InRing(s, d) /\ d # e BY <1>1, <2>1 DEF InRing
      <3>3. \A d \in Cores : d # c => (Reaped(s, d)' <=> Reaped(s, d)) BY <1>1 DEF Reaped, OnlyPath
      <3>4. (Reaped(s, c)' <=> InRing(s, e)) /\ ~Reaped(s, c)
        BY <1>1, <2>1 DEF Reaped, InRing, OnlyPath
      <3>5. (InFree(s)' <=> InFree(s)) /\ dir'[s] = dir[s] BY <1>2 DEF InFree
      <3> QED BY <3>1, <3>2, <3>3, <3>4, <3>5 DEF SlotOnce
    <2> QED BY <1>0, <1>1, <1>2, <2>1, <2>2 DEF Slotted, OnlyPath
  <1> QED BY <1>3, <1>4, <1>5, <1>7, <1>8, <1>9, <1>10 DEF DInv

LEMMA ReleaseEffect ==
  ASSUME DInv, NEW c \in Cores, release_gid(c)
  PROVE  /\ gidfree' \in Seq(Slots) /\ IsInjective(gidfree')
         /\ ToSet(gidfree') = ToSet(path[c].gids) \cup ToSet(gidfree)
         /\ path[c].at = "release" /\ path[c].stack = None /\ OnlyPath(c, User)
PROOF
  <1> DEFINE g == path[c].gids
  <1>0. DTypes /\ Slotted BY DEF DInv
  <1>1. path[c].at = "release" /\ gidfree' = Reverse(g) \o gidfree BY DEF release_gid
  <1>2. path[c].stack = None /\ g \in Seq(Slots) BY <1>1, Hand DEF InHand, Path
  <1>3. gidfree \in Seq(Slots) /\ IsInjective(gidfree) /\ IsInjective(g) BY <1>0 DEF DTypes, Slotted
  <1>4. ToSet(g) \cap ToSet(gidfree) = {}
    BY <1>0, <1>2, SlotSeq DEF Slotted, SlotOnce, Reaped, InFree
  <1>5. Reverse(g) \in Seq(Slots) /\ ToSet(Reverse(g)) = ToSet(g) /\ IsInjective(Reverse(g))
    BY <1>2, <1>3, ReverseSlots
  <1> HIDE DEF g
  <1>6. /\ gidfree' \in Seq(Slots) /\ IsInjective(gidfree')
        /\ ToSet(gidfree') = ToSet(g) \cup ToSet(gidfree)
    BY <1>1, <1>3, <1>4, <1>5, ConcatSlots
  <1>7. OnlyPath(c, User) BY <1>0, DoneStep DEF release_gid
  <1> QED BY <1>1, <1>2, <1>6, <1>7 DEF g

LEMMA ReleaseInv == ASSUME DInv, NEW c \in Cores, release_gid(c) PROVE DInv'
PROOF
  <1>0. DTypes /\ Homed /\ Paths /\ HandsApart /\ BookedApart /\ LiveBooked /\ Slotted BY DEF DInv
  <1>1. /\ gidfree' \in Seq(Slots) /\ IsInjective(gidfree')
        /\ ToSet(gidfree') = ToSet(path[c].gids) \cup ToSet(gidfree)
        /\ path[c].at = "release" /\ path[c].stack = None /\ OnlyPath(c, User)
    BY ReleaseEffect
  <1>2. UNCHANGED <<dir, zombies, base_of, gen_of, stacks, vspace_of, vspaces>> BY DEF release_gid
  <1>3. DTypes' BY <1>0, <1>1, <1>2 DEF DTypes, OnlyPath
  <1>4. Homed' BY <1>0, <1>2 DEF Homed
  <1>5. Paths'
    <2>1. SUFFICES ASSUME NEW d \in Cores PROVE Born(d)' /\ InHand(d)' BY DEF Paths
    <2>2. CASE d = c BY <2>2, <1>1, UserPath DEF OnlyPath, Born, InHand, Locked, Dying
    <2>3. CASE d # c BY <2>3, <1>0, <1>1, <1>2 DEF OnlyPath, Paths, Born, InHand, Locked
    <2> QED BY <2>2, <2>3
  <1>6. HandsApart' BY <1>0, <1>1, <1>2, UserPath DEF HandsApart, OnlyPath
  <1>7. BookedApart' BY <1>0, <1>1, <1>2, UserPath DEF BookedApart, OnlyPath
  <1>8. LiveBooked'
    <2>1. \A s \in Slots : Live(s)' => Live(s) BY <1>1, <1>2, UserPath DEF Live, Locked, OnlyPath
    <2> QED BY <1>0, <1>2, <2>1 DEF LiveBooked
  <1>9. Slotted'
    <2>1. path'[c].gids = <<>> /\ ToSet(path'[c].gids) = {} /\ IsInjective(path'[c].gids)
      BY <1>1, UserPath, NoSlots DEF OnlyPath
    <2>2. ASSUME NEW s \in Slots PROVE SlotOnce(s)'
      <3>1. SlotOnce(s) BY <1>0 DEF Slotted
      <3>2. \A d \in Cores : InRing(s, d)' <=> InRing(s, d) BY <1>2 DEF InRing
      <3>3. \A d \in Cores : Reaped(s, d)' <=> Reaped(s, d) /\ d # c BY <1>1, <2>1 DEF Reaped, OnlyPath
      <3>4. InFree(s)' <=> InFree(s) \/ Reaped(s, c) BY <1>1 DEF InFree, Reaped
      <3>5. dir'[s] = dir[s] BY <1>2
      <3> QED BY <3>1, <3>2, <3>3, <3>4, <3>5 DEF SlotOnce
    <2> QED BY <1>0, <1>1, <1>2, <2>1, <2>2 DEF Slotted, OnlyPath
  <1> QED BY <1>3, <1>4, <1>5, <1>6, <1>7, <1>8, <1>9 DEF DInv

-----------------------------------------------------------------------------
(* What every path keeps                                                   *)

LEMMA DeathInit == ASSUME DeathAssumption, Init PROVE DInv
PROOF
  <1>1. Empty(0) \in DirEntry /\ ~Empty(0).used /\ Empty(0).stack = None BY DEF Empty, DirEntry
  <1>2. gidfree \in Seq(Slots) /\ IsInjective(gidfree) BY AllSlots DEF Init
  <1>3. /\ dir \in [Slots -> DirEntry] /\ \A s \in Slots : dir[s] = Empty(0)
        /\ zombies \in [Cores -> Seq(Slots)] /\ path \in [Cores -> Path]
        /\ \A c \in Cores : zombies[c] = <<>> /\ path[c] = User
    BY <1>1, UserPath DEF Init
  <1>4. DTypes BY <1>2, <1>3 DEF Init, DTypes
  <1>5. Homed BY <1>1, <1>3 DEF Homed
  <1>6. Paths BY <1>3, UserPath DEF Paths, Born, InHand, Locked, Dying
  <1>7. HandsApart BY <1>3, UserPath DEF HandsApart
  <1>8. BookedApart BY DEF Init, BookedApart
  <1>9. LiveBooked BY <1>1, <1>3 DEF LiveBooked, Live
  <1>10. Slotted
    <2>1. \A c \in Cores : ToSet(zombies[c]) = {} /\ ToSet(path[c].gids) = {}
      BY <1>3, UserPath, NoSlots
    <2>2. \A c \in Cores : IsInjective(zombies[c]) /\ IsInjective(path[c].gids)
      BY <1>3, UserPath, NoSlots
    <2>3. \A s \in Slots : SlotOnce(s) BY <1>1, <1>3, <2>1 DEF SlotOnce, InRing, Reaped
    <2> QED BY <1>2, <2>2, <2>3 DEF Slotted
  <1> QED BY <1>4, <1>5, <1>6, <1>7, <1>8, <1>9, <1>10 DEF DInv

LEMMA DeathStep == ASSUME DeathAssumption, DInv, [Next]_vars PROVE DInv'
PROOF
  <1>1. CASE UNCHANGED vars
    BY <1>1 DEF vars, DInv, DTypes, Homed, Paths, Born, InHand, Locked, HandsApart, BookedApart,
                LiveBooked, Live, Slotted, SlotOnce, InRing, Reaped, InFree
  <1>2. ASSUME NEW c \in Cores, claim(c) PROVE DInv' BY <1>2, ClaimInv
  <1>3. ASSUME NEW c \in Cores, spawn(c) PROVE DInv' BY <1>3, SpawnFails, SpawnTakes
  <1>4. ASSUME NEW c \in Cores, record_user_kstack(c) PROVE DInv' BY <1>4, RecordInv
  <1>5. ASSUME NEW c \in Cores, bind(c) PROVE DInv' BY <1>5, BindInv
  <1>6. ASSUME NEW c \in Cores, NEW s \in Slots, NEW how \in {"exit", "fault", "kill", "destroy"},
               die(c, s, how)
        PROVE  DInv'
    BY <1>6, DieInv
  <1>7. ASSUME NEW c \in Cores, NEW s \in Slots, stop(c, s) PROVE DInv' BY <1>7, StopInv
  <1>8. ASSUME NEW c \in Cores, kill_remote(c) PROVE DInv' BY <1>8, KillInv
  <1>9. ASSUME NEW c \in Cores, reclaim_user_kstack(c) PROVE DInv' BY <1>9, ReclaimInv
  <1>10. ASSUME NEW c \in Cores, free_kstack(c) PROVE DInv' BY <1>10, FreeInv
  <1>11. ASSUME NEW c \in Cores, look(c) PROVE DInv' BY <1>11, LookInv
  <1>12. ASSUME NEW c \in Cores, vspace_teardown(c) PROVE DInv' BY <1>12, TeardownInv
  <1>13. ASSUME NEW c \in Cores, clear_vspace(c) PROVE DInv' BY <1>13, ClearInv
  <1>14. ASSUME NEW c \in Cores, NEW d \in Cores, reap_core(c, d) PROVE DInv' BY <1>14, ReapInv
  <1>15. ASSUME NEW c \in Cores, release_gid(c) PROVE DInv' BY <1>15, ReleaseInv
  <1> QED BY <1>1, <1>2, <1>3, <1>4, <1>5, <1>6, <1>7, <1>8, <1>9, <1>10, <1>11, <1>12, <1>13,
             <1>14, <1>15 DEF Next

LEMMA StackInv == ASSUME DeathAssumption, DInv PROVE StackKept
PROOF
  <1>0. DTypes /\ Homed /\ Paths /\ HandsApart /\ BookedApart /\ LiveBooked BY DEF DInv
  <1>1. SUFFICES ASSUME NEW s \in Slots, Live(s)
                 PROVE  /\ base_of[s] = dir[s].stack /\ gen_of[s] = dir[s].gen
                        /\ dir[s].stack \notin stacks
                        /\ \A r \in Slots \ {s} : dir[r].used => dir[r].stack # dir[s].stack
                        /\ \A c \in Cores : path[c].stack # dir[s].stack
    BY DEF StackKept
  <1>2. base_of[s] = dir[s].stack /\ gen_of[s] = dir[s].gen /\ base_of[s] # None
    BY <1>0, <1>1 DEF LiveBooked, DeathAssumption
  <1>3. base_of[s] \notin stacks BY <1>0, <1>2 DEF BookedApart
  <1>4. ASSUME NEW c \in Cores PROVE path[c].stack # dir[s].stack
    BY <1>0, <1>1, <1>2 DEF BookedApart, Live, Locked
  <1>5. ASSUME NEW r \in Slots \ {s}, dir[r].used PROVE dir[r].stack # dir[s].stack
    <2>1. CASE Live(r) BY <1>0, <1>2, <1>5, <2>1 DEF LiveBooked, BookedApart
    <2>2. CASE ~Live(r)
      <3>1. PICK c \in Cores : path[c].slot = r /\ Locked(c) BY <1>5, <2>2 DEF Live
      <3>2. dir[r].stack = path[c].stack BY <1>0, <3>1 DEF Paths, Born
      <3> QED BY <1>4, <3>2
    <2> QED BY <2>1, <2>2
  <1> QED BY <1>2, <1>3, <1>4, <1>5

\* Steps that leave the slots where they are.
LEMMA QuietGids ==
  ASSUME DInv, NEW c \in Cores,
         \/ claim(c) \/ record_user_kstack(c) \/ bind(c) \/ reclaim_user_kstack(c) \/ free_kstack(c)
         \/ look(c) \/ vspace_teardown(c) \/ clear_vspace(c)
         \/ \E s \in Slots : stop(c, s)
         \/ spawn(c) /\ gidfree = <<>>
         \/ kill_remote(c) /\ ~(dir[path[c].slot].used /\ dir[path[c].slot].gen = path[c].gen)
  PROVE  (\A d \in Cores : path'[d].gids = path[d].gids) /\ UNCHANGED <<gidfree, zombies, dir>>
PROOF
  <1>0. path \in [Cores -> Path] /\ path[c] \in Path BY DEF DInv, DTypes
  <1>1. path[c].at # "release" => path[c].gids = <<>> BY Hand DEF InHand
  <1>2. CASE claim(c)
    <2>1. UNCHANGED <<gidfree, zombies, dir>> /\ path[c] = User BY <1>2 DEF claim
    <2> QED BY <1>2, <2>1, ClaimStep, UserPath DEF OnlyPath
  <1>3. CASE record_user_kstack(c) BY <1>0, <1>3 DEF record_user_kstack, Goto
  <1>4. CASE bind(c) BY <1>0, <1>1, <1>4, UserPath DEF bind, Done
  <1>5. CASE reclaim_user_kstack(c)
    <2>1. PICK k : path' = [path EXCEPT ![c].at = "free", ![c].stack = k]
      BY <1>5 DEF reclaim_user_kstack
    <2> QED BY <1>0, <1>5, <2>1 DEF reclaim_user_kstack
  <1>6. CASE free_kstack(c)
    <2>1. UNCHANGED <<gidfree, zombies, dir>> /\ path[c].at = "free" BY <1>6 DEF free_kstack
    <2> QED BY <1>1, <1>6, <2>1, FreeStep DEF OnlyPath
  <1>7. CASE look(c)
    <2>1. UNCHANGED <<gidfree, zombies, dir>> /\ path[c].at = "look" BY <1>7 DEF look
    <2>2. CASE Done(c) BY <1>0, <1>1, <2>1, <2>2, UserPath DEF Done
    <2>3. CASE path' = [path EXCEPT ![c].at = "teardown", ![c].asid = vspace_of[path[c].slot]]
      BY <1>0, <2>1, <2>3
    <2> QED BY <1>7, <2>2, <2>3 DEF look
  <1>8. CASE vspace_teardown(c) BY <1>0, <1>8 DEF vspace_teardown, Goto
  <1>9. CASE clear_vspace(c)
    <2>1. UNCHANGED <<gidfree, zombies, dir>> /\ path[c].at = "clear" BY <1>9 DEF clear_vspace
    <2>2. CASE Goto(c, "reclaim") BY <1>0, <2>1, <2>2 DEF Goto
    <2>3. CASE Done(c) BY <1>0, <1>1, <2>1, <2>3, UserPath DEF Done
    <2> QED BY <1>9, <2>2, <2>3 DEF clear_vspace
  <1>10. CASE \E s \in Slots : stop(c, s)
    <2>1. PICK s \in Slots : stop(c, s) BY <1>10
    <2>2. UNCHANGED <<gidfree, zombies, dir>> /\ path[c] = User BY <2>1 DEF stop
    <2>3. PICK g, a : path' = [path EXCEPT ![c] = [User EXCEPT !.at = "kill", !.on = "stop", !.slot = s,
                                                               !.gen = g, !.asid = a]]
      BY <2>1 DEF stop
    <2>4. path'[c].gids = User.gids BY <1>0, <2>3, UserPath DEF Path
    <2> QED BY <1>0, <2>2, <2>3, <2>4
  <1>11. CASE spawn(c) /\ gidfree = <<>> BY <1>0, <1>1, <1>11, UserPath DEF spawn, Done
  <1>12. CASE kill_remote(c) /\ ~(dir[path[c].slot].used /\ dir[path[c].slot].gen = path[c].gen)
    BY <1>0, <1>1, <1>12, UserPath DEF kill_remote, Done
  <1> QED BY <1>2, <1>3, <1>4, <1>5, <1>6, <1>7, <1>8, <1>9, <1>10, <1>11, <1>12

LEMMA QuietSlots ==
  ASSUME (\A d \in Cores : path'[d].gids = path[d].gids) /\ UNCHANGED <<gidfree, zombies, dir>>
  PROVE  SlotsKept
  BY DEF SlotsKept, SlotSomewhere, InFree, InRing, Reaped

\* The ring of the core takes the number of the dead thread.
LEMMA WithdrawSlots ==
  ASSUME DeathAssumption, DInv, NEW s \in Slots, dir[s].used, NEW e \in Cores, dir[s].core = e,
         record_zombie(s, e), \A d \in Cores : path'[d].gids = path[d].gids, UNCHANGED gidfree
  PROVE  SlotsKept
PROOF
  <1>1. SUFFICES ASSUME NEW r \in Slots, SlotSomewhere(r), ~(r = s /\ Len(zombies[e]) >= ZombieCap)
                 PROVE  SlotSomewhere(r)'
    BY DEF SlotsKept
  <1>2. Len(zombies[e]) \in Nat /\ ZombieCap \in Nat BY SlotSeq DEF DInv, DTypes, DeathAssumption
  <1>3. r = s => Len(zombies[e]) < ZombieCap BY <1>1, <1>2
  <1>5. r = s => InRing(s, e)' BY <1>3, WithdrawEffect DEF InRing
  <1>6. r # s => dir'[r] = dir[r] BY WithdrawEffect
  <1>7. \A d \in Cores : InRing(r, d) => InRing(r, d)'
    <2>1. /\ \A d \in Cores : d # e => zombies'[d] = zombies[d]
          /\ ToSet(zombies[e]) \subseteq ToSet(zombies'[e])
      BY WithdrawEffect
    <2> QED BY <2>1 DEF InRing
  <1> QED BY <1>1, <1>5, <1>6, <1>7 DEF SlotSomewhere, InFree, Reaped

LEMMA SlotsStep == ASSUME DeathAssumption, DInv, [Next]_vars PROVE SlotsKept
PROOF
  <1>1. CASE UNCHANGED vars BY <1>1 DEF vars, SlotsKept, SlotSomewhere, InFree, InRing, Reaped
  <1>2. ASSUME NEW c \in Cores, spawn(c), gidfree # <<>> PROVE SlotsKept
    <2>1. PICK s \in Slots, p \in Path :
              /\ s = Head(gidfree) /\ gidfree' = Tail(gidfree)
              /\ OnlyPath(c, p) /\ p.gids = <<>> /\ dir'[s].used
              /\ \A r \in Slots : r # s => dir'[r] = dir[r]
              /\ UNCHANGED zombies
      BY <1>2, SpawnStep
    <2>2. \A r \in Slots : InFree(r) => r = s \/ InFree(r)'
      BY <1>2, <2>1, TailSlot DEF DInv, DTypes, InFree
    <2>3. path[c].gids = <<>> BY <1>2, Hand DEF spawn, InHand
    <2>4. \A d \in Cores : path'[d].gids = path[d].gids BY <2>1, <2>3 DEF OnlyPath
    <2> QED BY <2>1, <2>2, <2>4 DEF SlotsKept, SlotSomewhere, InRing, Reaped
  <1>3. ASSUME NEW c \in Cores, NEW s \in Slots, NEW how \in {"exit", "fault", "kill", "destroy"},
               die(c, s, how)
        PROVE  SlotsKept
    <2>1. dir[s].used /\ dir[s].core = c /\ record_zombie(s, c) /\ path[c] = User /\ UNCHANGED gidfree
      BY <1>3 DEF die
    <2>2. \A d \in Cores : path'[d].gids = path[d].gids
      BY <1>3, <2>1, DieStep, UserPath DEF OnlyPath
    <2> QED BY <2>1, <2>2, WithdrawSlots
  <1>4. ASSUME NEW c \in Cores, kill_remote(c), dir[path[c].slot].used,
               dir[path[c].slot].gen = path[c].gen
        PROVE  SlotsKept
    <2> DEFINE s == path[c].slot
    <2>1. record_zombie(s, dir[s].core) /\ Goto(c, "reclaim") /\ UNCHANGED gidfree
      BY <1>4 DEF kill_remote
    <2>2. s \in Slots /\ dir[s].core \in Cores BY <1>4, Hand DEF kill_remote, InHand, DInv, Homed
    <2>3. \A d \in Cores : path'[d].gids = path[d].gids BY <2>1 DEF Goto, DInv, DTypes, Path
    <2> HIDE DEF s
    <2> QED BY <1>4, <2>1, <2>2, <2>3, WithdrawSlots DEF s
  <1>5. ASSUME NEW c \in Cores, NEW e \in Cores, reap_core(c, e) PROVE SlotsKept
    <2>1. PICK p \in Path :
              /\ OnlyPath(c, p) /\ p.gids = zombies[e] /\ path[c].gids = <<>>
              /\ \A d \in Cores : d # e => zombies'[d] = zombies[d]
      BY <1>5, ReapStep
    <2>2. UNCHANGED <<dir, gidfree>> BY <1>5 DEF reap_core
    <2>3. ASSUME NEW s \in Slots, SlotSomewhere(s) PROVE SlotSomewhere(s)'
      <3>1. ~Reaped(s, c) BY <2>1, NoSlots DEF Reaped
      <3>2. \A d \in Cores : d # c => (Reaped(s, d)' <=> Reaped(s, d)) BY <2>1 DEF Reaped, OnlyPath
      <3>3. \A d \in Cores : d # e => (InRing(s, d)' <=> InRing(s, d)) BY <2>1 DEF InRing
      <3>4. InRing(s, e) => Reaped(s, c)' BY <2>1 DEF Reaped, OnlyPath, InRing
      <3> QED BY <2>2, <2>3, <3>1, <3>2, <3>3, <3>4 DEF SlotSomewhere, InFree
    <2> QED BY <2>3 DEF SlotsKept
  <1>6. ASSUME NEW c \in Cores, release_gid(c) PROVE SlotsKept
    <2>1. /\ ToSet(gidfree') = ToSet(path[c].gids) \cup ToSet(gidfree) /\ OnlyPath(c, User)
          /\ UNCHANGED <<dir, zombies>>
      BY <1>6, ReleaseEffect DEF release_gid
    <2>2. ASSUME NEW s \in Slots, SlotSomewhere(s) PROVE SlotSomewhere(s)'
      <3>1. \A d \in Cores : d # c => (Reaped(s, d)' <=> Reaped(s, d)) BY <2>1 DEF Reaped, OnlyPath
      <3>2. InFree(s) \/ Reaped(s, c) => InFree(s)' BY <2>1 DEF InFree, Reaped
      <3>3. \A d \in Cores : InRing(s, d)' <=> InRing(s, d) BY <2>1 DEF InRing
      <3> QED BY <2>1, <2>2, <3>1, <3>2, <3>3 DEF SlotSomewhere
    <2> QED BY <2>2 DEF SlotsKept
  <1>7. CASE Next
    <2>1. PICK c \in Cores :
              \/ claim(c) \/ spawn(c) \/ record_user_kstack(c) \/ bind(c)
              \/ \E s \in Slots : \E how \in {"exit", "fault", "kill", "destroy"} : die(c, s, how)
              \/ \E s \in Slots : stop(c, s)
              \/ kill_remote(c) \/ reclaim_user_kstack(c) \/ free_kstack(c) \/ look(c)
              \/ vspace_teardown(c) \/ clear_vspace(c)
              \/ \E d \in Cores : reap_core(c, d)
              \/ release_gid(c)
      BY <1>7 DEF Next
    <2> QED BY <2>1, <1>2, <1>3, <1>4, <1>5, <1>6, QuietGids, QuietSlots
  <1> QED BY <1>1, <1>7

LEMMA GidsInv == ASSUME DInv PROVE GidsApart
PROOF
  <1>1. SUFFICES ASSUME NEW s \in Slots PROVE Cardinality(Whereabouts(s)) <= 1 BY DEF GidsApart
  <1>2. SlotOnce(s) BY DEF DInv, Slotted
  <1>3. ASSUME NEW x \in Whereabouts(s), NEW y \in Whereabouts(s) PROVE x = y
    BY <1>2 DEF Whereabouts, SlotOnce, InFree, InRing, Reaped
  <1>4. CASE Whereabouts(s) = {} BY <1>4, FS_EmptySet
  <1>5. CASE Whereabouts(s) # {}
    <2>1. PICK x : x \in Whereabouts(s) BY <1>5
    <2>2. Whereabouts(s) = {x} BY <1>3, <2>1
    <2>3. Cardinality({x}) = 1 BY FS_Singleton
    <2> QED BY <2>2, <2>3
  <1> QED BY <1>4, <1>5

LEMMA SomewhereIs ==
  ASSUME NEW s \in Slots
  PROVE  /\ Whereabouts(s) # {} => SlotSomewhere(s)
         /\ SlotSomewhere(s)' => Whereabouts(s)' # {}
  BY DEF Whereabouts, SlotSomewhere, InFree, InRing, Reaped

\* Kernel stacks (user_kstacks, reclaim_user_kstack): whatever dies, is stopped or is reaped on
\* whichever core, the stack of a live thread is booked for it alone.
THEOREM StackStaysWithThread == Spec => []StackKept
PROOF
  <1>1. Init => DInv BY DeathAssumption, DeathInit
  <1>2. DInv /\ [Next]_vars => DInv' BY DeathAssumption, DeathStep
  <1>3. DInv => StackKept BY DeathAssumption, StackInv
  <1> QED BY <1>1, <1>2, <1>3, PTL DEF Spec

\* Slot numbers, whatever the length of the zombie rings: a number is free, in use, a zombie or in
\* the hand of one reaper, never two of these, and it goes missing in one way only: its thread
\* dies while the ring of its core is full.
THEOREM NumbersAccounted == Spec => GidsAccounted
PROOF
  <1>1. Init => DInv BY DeathAssumption, DeathInit
  <1>2. DInv /\ [Next]_vars => DInv' BY DeathAssumption, DeathStep
  <1>3. DInv => GidsApart BY GidsInv
  <1>4. DInv /\ [Next]_vars => LossNamed
    <2> SUFFICES ASSUME DInv, [Next]_vars PROVE LossNamed OBVIOUS
    <2>1. SlotsKept BY DeathAssumption, SlotsStep
    <2> QED BY <2>1, SomewhereIs DEF LossNamed, SlotsKept
  <1> QED BY <1>1, <1>2, <1>3, <1>4, PTL DEF Spec, GidsAccounted

-----------------------------------------------------------------------------
(* Only the own core reaps and nobody is stopped from elsewhere            *)

\* The slot of a thread in use, or of another thread being cleaned up, is not this one's.
LEMMA Aside ==
  ASSUME OrderlyInv, NEW c \in Cores, path[c].at \in Dying
  PROVE  /\ ~dir[path[c].slot].used /\ ~InFree(path[c].slot)
         /\ \A d \in Cores : ~Reaped(path[c].slot, d) /\ (InRing(path[c].slot, d) => d = c)
         /\ \A d \in Cores : path[d].at \in Dying /\ path[d].slot = path[c].slot => d = c
  BY DEF OrderlyInv, Withdrawals, Withdrawn

\* A core that goes on and leaves the slots where they are.
LEMMA KeepWithdrawn ==
  ASSUME DInv, OrderlyInv, NEW c \in Cores, NEW p \in Path, OnlyPath(c, p),
         \A d \in Cores : path'[d].gids = path[d].gids, UNCHANGED <<gidfree, zombies, dir>>,
         p.at # "kill", p.on # "stop",
         p.at \in Dying => path[c].at \in Dying /\ p.slot = path[c].slot
  PROVE  Withdrawals'
PROOF
  <1>1. ASSUME NEW d \in Cores PROVE path'[d].at # "kill" /\ path'[d].on # "stop"
    BY DEF OnlyPath, OrderlyInv, Withdrawals
  <1>2. \A d \in Cores : path'[d].at \in Dying => path[d].at \in Dying /\ path'[d].slot = path[d].slot
    BY DEF OnlyPath
  <1>3. \A s \in Slots, d \in Cores : /\ Reaped(s, d)' <=> Reaped(s, d)
                                      /\ InRing(s, d)' <=> InRing(s, d)
    BY DEF Reaped, InRing
  <1>4. \A s \in Slots : InFree(s)' <=> InFree(s) BY DEF InFree
  <1>5. ASSUME NEW d \in Cores, path'[d].at \in Dying PROVE path'[d].slot \in Slots
    BY <1>2, <1>5, Hand DEF InHand
  <1>6. ASSUME NEW d \in Cores PROVE Withdrawn(d)'
    BY <1>2, <1>3, <1>4, <1>5, Aside DEF Withdrawn
  <1> QED BY <1>1, <1>6 DEF Withdrawals

\* Address spaces stay with their threads where VSPACE_OF and VSPACES do not change.
LEMMA KeepVSpaces ==
  ASSUME OrderlyInv, NEW c \in Cores, NEW p \in Path, OnlyPath(c, p), UNCHANGED <<vspace_of, vspaces>>,
         p.at \in {"spawn", "record", "bind"} => Building(c) /\ p.asid = path[c].asid,
         p.at # "clear", path[c].at # "clear",
         p.at = "teardown" => p.asid # None /\ p.asid = vspace_of[p.slot]
  PROVE  VApart' /\ VBuilt' /\ VTorn'
PROOF
  <1>1. \A d \in Cores : Building(d)' => Building(d) /\ path'[d].asid = path[d].asid
    BY DEF OnlyPath, Building
  <1>2. \A s \in Slots : Cleared(s)' <=> Cleared(s) BY DEF OnlyPath, Cleared
  <1>3. VApart' BY <1>1, <1>2 DEF OrderlyInv, VApart
  <1>4. VBuilt' BY <1>1 DEF OrderlyInv, VBuilt
  <1>5. VTorn' BY DEF OrderlyInv, VTorn, OnlyPath
  <1> QED BY <1>3, <1>4, <1>5


LEMMA ClaimOrderly ==
  ASSUME DeathAssumption, DInv, OrderlyInv, NEW c \in Cores, claim(c) PROVE OrderlyInv'
PROOF
  <1>1. PICK k \in stacks, a \in Asids \ vspaces, p \in Path :
              /\ stacks' = stacks \ {k} /\ vspaces' = vspaces \cup {a}
              /\ OnlyPath(c, p) /\ p.at = "spawn" /\ p.stack = k /\ p.asid = a /\ p.on = None
    BY ClaimStep
  <1>2. /\ UNCHANGED <<dir, gidfree, zombies, base_of, gen_of, vspace_of>> /\ path[c].at = "user"
        /\ path[c].stack = None
    BY UserPath DEF claim
  <1>3. Withdrawals'
    <2>1. \A d \in Cores : path'[d].gids = path[d].gids BY QuietGids
    <2> QED BY <1>1, <1>2, <2>1, KeepWithdrawn DEF Dying, None
  <1>4. VApart' /\ VBuilt'
    <2>1. /\ \A s \in Slots : Cleared(s)' <=> Cleared(s)
          /\ \A d \in Cores : Building(d)' <=> Building(d) \/ d = c
          /\ \A d \in Cores : path'[d].asid = IF d = c THEN a ELSE path[d].asid
      BY <1>1, <1>2 DEF OnlyPath, Cleared, Building
    <2>2. a \notin vspaces /\ a \in vspaces' /\ vspaces \subseteq vspaces' BY <1>1
    <2>3. VApart' BY <1>2, <2>1, <2>2 DEF OrderlyInv, VApart
    <2>4. VBuilt' BY <1>2, <2>1, <2>2 DEF OrderlyInv, VBuilt
    <2> QED BY <2>3, <2>4
  <1>5. VTorn' BY <1>1, <1>2 DEF OrderlyInv, VTorn, OnlyPath
  <1>6. VLive'
    <2>1. \A s \in Slots : Live(s)' => Live(s) BY <1>1, <1>2 DEF Live, Locked, OnlyPath
    <2> QED BY <1>2, <2>1 DEF OrderlyInv, VLive
  <1>7. \A d \in Cores : StillBooked(d)' BY <1>1, <1>2 DEF OrderlyInv, StillBooked, OnlyPath
  <1>8. StacksAccounted'
    <2>1. SUFFICES ASSUME NEW j \in Stacks
                   PROVE  \/ j \in stacks' \/ \E s \in Slots : dir'[s].stack = j
                          \/ \E d \in Cores : path'[d].stack = j
                          \/ \E d \in Cores : /\ path'[d].at \in {"teardown", "clear", "reclaim"}
                                              /\ base_of'[path'[d].slot] = j
      BY DEF StacksAccounted
    <2>2. j # None BY DEF DeathAssumption
    <2>3. CASE j = k BY <1>1, <2>3 DEF OnlyPath
    <2>4. CASE j # k BY <1>1, <1>2, <2>2, <2>4 DEF OnlyPath, OrderlyInv, StacksAccounted
    <2> QED BY <2>3, <2>4
  <1> QED BY <1>3, <1>4, <1>5, <1>6, <1>7, <1>8 DEF OrderlyInv

LEMMA SpawnFailsOrderly ==
  ASSUME DInv, OrderlyInv, NEW c \in Cores, spawn(c), gidfree = <<>> PROVE OrderlyInv'
PROOF
  <1>1. /\ stacks' = stacks \cup {path[c].stack} /\ vspaces' = vspaces \ {path[c].asid}
        /\ OnlyPath(c, User) /\ path[c].at = "spawn"
        /\ UNCHANGED <<dir, gidfree, zombies, base_of, gen_of, vspace_of>>
    BY DoneStep DEF spawn, DInv
  <1>2. Withdrawals'
    <2>1. \A d \in Cores : path'[d].gids = path[d].gids BY QuietGids
    <2> QED BY <1>1, <2>1, UserPath, KeepWithdrawn DEF Dying, None
  <1>3. VApart' /\ VBuilt'
    <2>1. /\ \A s \in Slots : Cleared(s)' <=> Cleared(s)
          /\ \A d \in Cores : Building(d)' <=> Building(d) /\ d # c
          /\ \A d \in Cores : d # c => path'[d].asid = path[d].asid
          /\ Building(c)
      BY <1>1, UserPath DEF OnlyPath, Cleared, Building
    <2>2. \A a \in vspaces : a # path[c].asid => a \in vspaces' BY <1>1
    <2>3. VApart' BY <1>1, <2>1, <2>2 DEF OrderlyInv, VApart
    <2>4. VBuilt' BY <1>1, <2>1, <2>2 DEF OrderlyInv, VBuilt
    <2> QED BY <2>3, <2>4
  <1>4. VTorn' BY <1>1, UserPath DEF OrderlyInv, VTorn, OnlyPath
  <1>5. VLive'
    <2>1. \A s \in Slots : Live(s)' => Live(s) BY <1>1, UserPath DEF Live, Locked, OnlyPath
    <2> QED BY <1>1, <2>1 DEF OrderlyInv, VLive
  <1>6. \A d \in Cores : StillBooked(d)' BY <1>1, UserPath DEF OrderlyInv, StillBooked, OnlyPath
  <1>7. StacksAccounted' BY <1>1 DEF OrderlyInv, StacksAccounted, OnlyPath
  <1> QED BY <1>2, <1>3, <1>4, <1>5, <1>6, <1>7 DEF OrderlyInv

LEMMA SpawnTakesOrderly ==
  ASSUME DeathAssumption, DInv, OrderlyInv, NEW c \in Cores, spawn(c), gidfree # <<>> PROVE OrderlyInv'
PROOF
  <1>1. PICK s \in Slots, p \in Path :
              /\ s = Head(gidfree) /\ gidfree' = Tail(gidfree) /\ ~dir[s].used
              /\ OnlyPath(c, p) /\ p.at = "record" /\ p.slot = s /\ p.stack = path[c].stack
              /\ p.asid = path[c].asid /\ p.on = path[c].on /\ p.gids = <<>>
              /\ \A r \in Slots : r # s => dir'[r] = dir[r]
              /\ vspace_of' = [vspace_of EXCEPT ![s] = None]
              /\ UNCHANGED <<zombies, base_of, gen_of, stacks, vspaces>>
    BY SpawnStep
  <1>2. path[c].at = "spawn" /\ path[c].gids = <<>> BY Hand DEF spawn, InHand
  <1>3. ToSet(gidfree) = {s} \cup ToSet(Tail(gidfree)) /\ InFree(s)
    <2>1. gidfree \in Seq(Slots) BY DEF DInv, DTypes
    <2>2. ToSet(gidfree) = {Head(gidfree)} \cup ToSet(Tail(gidfree)) BY <2>1, TailSlot
    <2> QED BY <1>1, <2>2 DEF InFree
  <1>4. \A d \in Cores : path[d].at \in Dying => path[d].slot # s BY <1>3, Aside
  <1>5. vspace_of'[s] = None /\ \A r \in Slots : r # s => vspace_of'[r] = vspace_of[r]
    BY <1>1 DEF DInv, DTypes
  <1>6. \A d \in Cores : path'[d].at \in Dying => path'[d] = path[d] /\ d # c
    BY <1>1 DEF OnlyPath, Dying
  <1>7. Withdrawals'
    <2>1. ASSUME NEW d \in Cores PROVE path'[d].at # "kill" /\ path'[d].on # "stop"
      BY <1>1 DEF OnlyPath, OrderlyInv, Withdrawals
    <2>2. \A d \in Cores : path'[d].gids = path[d].gids BY <1>1, <1>2 DEF OnlyPath
    <2>3. \A r \in Slots, d \in Cores : /\ Reaped(r, d)' <=> Reaped(r, d)
                                        /\ InRing(r, d)' <=> InRing(r, d)
      BY <1>1, <2>2 DEF Reaped, InRing
    <2>4. \A r \in Slots : InFree(r)' => InFree(r) BY <1>1, <1>3 DEF InFree
    <2>5. ASSUME NEW d \in Cores, path'[d].at \in Dying
          PROVE  path'[d].slot \in Slots /\ path'[d].slot # s
      BY <1>4, <1>6, <2>5, Hand DEF InHand
    <2>6. ASSUME NEW d \in Cores PROVE Withdrawn(d)'
      BY <1>1, <1>6, <2>3, <2>4, <2>5, Aside DEF Withdrawn
    <2> QED BY <2>1, <2>6 DEF Withdrawals
  <1>8. VApart' /\ VBuilt'
    <2>1. /\ \A r \in Slots : Cleared(r)' <=> Cleared(r)
          /\ \A d \in Cores : Building(d)' <=> Building(d)
          /\ \A d \in Cores : path'[d].asid = path[d].asid
      BY <1>1, <1>2 DEF OnlyPath, Cleared, Building
    <2>2. \A r \in Slots : vspace_of'[r] # None => vspace_of'[r] = vspace_of[r] BY <1>5
    <2>3. VApart' BY <1>1, <2>1, <2>2 DEF OrderlyInv, VApart
    <2>4. VBuilt' BY <1>1, <2>1 DEF OrderlyInv, VBuilt
    <2> QED BY <2>3, <2>4
  <1>9. VTorn'
    <2>1. SUFFICES ASSUME NEW d \in Cores, path'[d].at = "teardown"
                   PROVE  path'[d].asid # None /\ path'[d].asid = vspace_of'[path'[d].slot]
      BY DEF VTorn
    <2>2. path'[d] = path[d] /\ path[d].slot # s /\ path[d].slot \in Slots
      BY <1>4, <1>6, <2>1, Hand DEF InHand, Dying
    <2> QED BY <1>5, <2>1, <2>2 DEF OrderlyInv, VTorn
  <1>10. VLive'
    <2>1. \A r \in Slots : Live(r)' => Live(r) /\ r # s
      BY <1>1, <1>2 DEF Live, Locked, OnlyPath
    <2> QED BY <1>1, <1>5, <2>1 DEF OrderlyInv, VLive
  <1>11. \A d \in Cores : StillBooked(d)' BY <1>1 DEF OrderlyInv, StillBooked, OnlyPath
  <1>12. StacksAccounted'
    <2>1. \A j \in Stacks : j # None BY DEF DeathAssumption
    <2>2. dir[s].stack = None BY <1>1 DEF DInv, Homed
    <2>3. \A d \in Cores : path'[d].stack = path[d].stack BY <1>1 DEF OnlyPath
    <2>4. \A d \in Cores : path[d].at \in {"teardown", "clear", "reclaim"} => path'[d] = path[d]
      BY <1>1, <1>2 DEF OnlyPath
    <2> QED BY <1>1, <2>1, <2>2, <2>3, <2>4 DEF OrderlyInv, StacksAccounted
  <1> QED BY <1>7, <1>8, <1>9, <1>10, <1>11, <1>12 DEF OrderlyInv

LEMMA RecordOrderly ==
  ASSUME DInv, OrderlyInv, NEW c \in Cores, record_user_kstack(c) PROVE OrderlyInv'
PROOF
  <1> DEFINE s == path[c].slot
             p == [path[c] EXCEPT !.at = "bind"]
  <1>1. /\ path[c].at = "record" /\ Goto(c, "bind")
        /\ base_of' = [base_of EXCEPT ![s] = path[c].stack]
        /\ gen_of' = [gen_of EXCEPT ![s] = path[c].gen]
        /\ UNCHANGED <<dir, gidfree, zombies, stacks, vspace_of, vspaces>>
    BY DEF record_user_kstack
  <1>2. path[c] \in Path /\ s \in Slots /\ dir[s].used BY <1>1, Hand DEF Born, Locked
  <1>3. OnlyPath(c, p) BY <1>1, GotoStep DEF Stages, DInv
  <1>4. /\ p \in Path /\ p.at = "bind" /\ p.slot = s /\ p.on = path[c].on
        /\ p.stack = path[c].stack /\ p.asid = path[c].asid
    BY <1>2 DEF Path, Stages
  <1> HIDE DEF s, p
  <1>5. \A r \in Slots : r # s => base_of'[r] = base_of[r] /\ gen_of'[r] = gen_of[r]
    BY <1>1, <1>2 DEF DInv, DTypes
  <1>6. \A d \in Cores : path[d].at \in Dying => path[d].slot \in Slots /\ path[d].slot # s
    BY <1>2, Aside, Hand DEF InHand
  <1>7. Withdrawals'
    <2>1. \A d \in Cores : path'[d].gids = path[d].gids BY QuietGids
    <2>2. p.on # "stop" BY <1>4 DEF OrderlyInv, Withdrawals
    <2> QED BY <1>1, <1>3, <1>4, <2>1, <2>2, KeepWithdrawn DEF Dying
  <1>8. VApart' /\ VBuilt' /\ VTorn' BY <1>1, <1>3, <1>4, KeepVSpaces DEF Building
  <1>9. VLive'
    <2>1. \A r \in Slots : Live(r)' => Live(r) BY <1>1, <1>3, <1>4 DEF Live, Locked, OnlyPath, s
    <2> QED BY <1>1, <2>1 DEF OrderlyInv, VLive
  <1>10. ASSUME NEW d \in Cores PROVE StillBooked(d)'
    <2>1. CASE d = c BY <1>3, <1>4, <2>1 DEF StillBooked, OnlyPath
    <2>2. CASE d # c /\ path[d].at \in Dying
      BY <1>3, <1>5, <1>6, <2>2 DEF OrderlyInv, StillBooked, OnlyPath
    <2>3. CASE d # c /\ path[d].at \notin Dying BY <1>3, <2>3 DEF StillBooked, OnlyPath, Dying
    <2> QED BY <2>1, <2>2, <2>3
  <1>11. StacksAccounted'
    <2>1. \A d \in Cores : path'[d].stack = path[d].stack BY <1>3, <1>4 DEF OnlyPath
    <2>2. \A d \in Cores : path[d].at \in {"teardown", "clear", "reclaim"} =>
            path'[d] = path[d] /\ base_of'[path[d].slot] = base_of[path[d].slot]
      BY <1>1, <1>3, <1>5, <1>6 DEF OnlyPath, Dying
    <2> QED BY <1>1, <2>1, <2>2 DEF OrderlyInv, StacksAccounted
  <1> QED BY <1>7, <1>8, <1>9, <1>10, <1>11 DEF OrderlyInv

LEMMA BindOrderly == ASSUME DInv, OrderlyInv, NEW c \in Cores, bind(c) PROVE OrderlyInv'
PROOF
  <1> DEFINE s == path[c].slot
             a == path[c].asid
  <1>1. /\ path[c].at = "bind" /\ OnlyPath(c, User)
        /\ vspace_of' = [vspace_of EXCEPT ![s] = a]
        /\ UNCHANGED <<dir, gidfree, zombies, base_of, gen_of, stacks, vspaces>>
    BY DoneStep DEF bind, DInv
  <1>2. /\ s \in Slots /\ a \in Asids /\ dir[s].used /\ dir[s].asid = a
        /\ dir[s].stack = path[c].stack
    BY <1>1, Hand DEF Born, Locked
  <1>3. vspace_of'[s] = a /\ \A r \in Slots : r # s => vspace_of'[r] = vspace_of[r]
    BY <1>1, <1>2 DEF DInv, DTypes
  <1>4. \A d \in Cores : path[d].at \in Dying => path[d].slot \in Slots /\ path[d].slot # s
    BY <1>2, Aside, Hand DEF InHand
  <1>5. Withdrawals'
    <2>1. \A d \in Cores : path'[d].gids = path[d].gids BY QuietGids
    <2> QED BY <1>1, <2>1, UserPath, KeepWithdrawn DEF Dying, None
  <1>6. VApart' /\ VBuilt'
    <2>1. /\ \A r \in Slots : Cleared(r)' <=> Cleared(r)
          /\ \A d \in Cores : Building(d)' <=> Building(d) /\ d # c
          /\ \A d \in Cores : d # c => path'[d].asid = path[d].asid
          /\ Building(c)
      BY <1>1, UserPath DEF OnlyPath, Cleared, Building
    <2>2. a \in vspaces /\ \A d \in Cores : Building(d) /\ path[d].asid = a => d = c
      BY <2>1 DEF OrderlyInv, VBuilt
    <2>3. \A r \in Slots : vspace_of[r] # None /\ ~Cleared(r) => vspace_of[r] # a
      BY <2>1 DEF OrderlyInv, VApart
    <2>4. VApart' BY <1>1, <1>3, <2>1, <2>2, <2>3 DEF OrderlyInv, VApart
    <2>5. VBuilt' BY <1>1, <2>1 DEF OrderlyInv, VBuilt
    <2> QED BY <2>4, <2>5
  <1>7. VTorn'
    <2>1. \A d \in Cores : path'[d].at = "teardown" => path'[d] = path[d] /\ path[d].slot # s
                                                       /\ path[d].slot \in Slots
      BY <1>1, <1>4, UserPath DEF OnlyPath, Dying
    <2> QED BY <1>3, <2>1 DEF OrderlyInv, VTorn
  <1>8. VLive'
    <2>1. \A r \in Slots : Live(r)' => Live(r) \/ r = s BY <1>1, UserPath DEF Live, Locked, OnlyPath
    <2>2. ASSUME NEW r \in Slots, Live(r), r = s PROVE FALSE BY <1>1, <2>2 DEF Live, Locked
    <2> QED BY <1>1, <1>2, <1>3, <2>1, <2>2 DEF OrderlyInv, VLive
  <1>9. \A d \in Cores : StillBooked(d)' BY <1>1, UserPath DEF OrderlyInv, StillBooked, OnlyPath
  <1>10. StacksAccounted'
    <2>1. \A d \in Cores : path[d].stack = path'[d].stack \/ path[d].stack = dir[s].stack
      BY <1>1, <1>2 DEF OnlyPath
    <2>2. \A d \in Cores : path[d].at \in {"teardown", "clear", "reclaim"} => path'[d] = path[d]
      BY <1>1 DEF OnlyPath
    <2> QED BY <1>1, <1>2, <2>1, <2>2 DEF OrderlyInv, StacksAccounted
  <1> QED BY <1>5, <1>6, <1>7, <1>8, <1>9, <1>10 DEF OrderlyInv

LEMMA DieOrderly ==
  ASSUME DeathAssumption, DInv, OrderlyInv, NEW c \in Cores, NEW s \in Slots,
         NEW how \in {"exit", "fault", "kill", "destroy"}, die(c, s, how)
  PROVE  OrderlyInv'
PROOF
  <1>1. PICK p \in Path :
              /\ OnlyPath(c, p) /\ p.at = (IF how = "destroy" THEN "teardown" ELSE "reclaim")
              /\ p.on = how /\ p.gids = <<>> /\ p.slot = s /\ p.gen = dir[s].gen
              /\ how = "destroy" => p.asid = vspace_of[s]
    BY DieStep
  <1>2. /\ dir[s].used /\ dir[s].core = c /\ record_zombie(s, c) /\ path[c].at = "user"
        /\ path[c].gids = <<>> /\ path[c].stack = None
        /\ UNCHANGED <<gidfree, base_of, gen_of, stacks, vspace_of, vspaces>>
    BY UserPath DEF die
  <1>3. /\ ~dir'[s].used /\ \A r \in Slots : r # s => dir'[r] = dir[r]
        /\ \A d \in Cores : d # c => zombies'[d] = zombies[d]
        /\ ToSet(zombies'[c]) \subseteq ToSet(zombies[c]) \cup {s}
    BY <1>2, WithdrawEffect
  <1>4. Live(s)
    BY <1>2, Hand DEF Live, Born, Locked
  <1>5. /\ base_of[s] = dir[s].stack /\ base_of[s] # None /\ gen_of[s] = dir[s].gen
        /\ vspace_of[s] # None
    BY <1>4 DEF DInv, LiveBooked, OrderlyInv, VLive, DeathAssumption
  <1>6. \A d \in Cores : path[d].at \in Dying => path[d].slot \in Slots /\ path[d].slot # s
    BY <1>2, Aside, Hand DEF InHand
  <1>7. Withdrawals'
    <2>1. ASSUME NEW d \in Cores PROVE path'[d].at # "kill" /\ path'[d].on # "stop"
      BY <1>1 DEF OnlyPath, OrderlyInv, Withdrawals
    <2>2. \A d \in Cores : path'[d].gids = path[d].gids BY <1>1, <1>2 DEF OnlyPath
    <2>3. \A r \in Slots, d \in Cores : Reaped(r, d)' <=> Reaped(r, d) BY <2>2 DEF Reaped
    <2>4. \A r \in Slots, d \in Cores : InRing(r, d)' => InRing(r, d) \/ (r = s /\ d = c)
      BY <1>3 DEF InRing
    <2>5. \A r \in Slots : InFree(r)' <=> InFree(r) BY <1>2 DEF InFree
    <2>6. SlotOnce(s) BY DEF DInv, Slotted
    <2>7. \A d \in Cores : d # c => path'[d] = path[d] BY <1>1 DEF OnlyPath
    <2>8. path'[c].slot = s BY <1>1 DEF OnlyPath
    <2>9. ~InFree(s) /\ \A d \in Cores : ~Reaped(s, d) /\ ~InRing(s, d) BY <1>2, <2>6 DEF SlotOnce
    <2>10. Withdrawn(c)' BY <1>3, <1>6, <2>3, <2>4, <2>5, <2>7, <2>8, <2>9 DEF Withdrawn
    <2>11. ASSUME NEW d \in Cores, d # c PROVE Withdrawn(d)'
      <3>1. SUFFICES ASSUME path[d].at \in Dying PROVE Withdrawn(d)' BY <2>7, <2>11 DEF Withdrawn
      <3>2. path'[d] = path[d] /\ path[d].slot \in Slots /\ path[d].slot # s
        BY <1>6, <2>7, <2>11, <3>1
      <3>3. \A e \in Cores : path'[e].at \in Dying /\ path'[e].slot = path'[d].slot => e = d
        BY <2>7, <2>8, <3>1, <3>2, Aside
      <3> QED BY <1>3, <2>3, <2>4, <2>5, <3>1, <3>2, <3>3, Aside DEF Withdrawn
    <2> QED BY <2>1, <2>10, <2>11 DEF Withdrawals
  <1>8. VApart' /\ VBuilt' /\ VTorn' BY <1>1, <1>2, <1>5, KeepVSpaces
  <1>9. VLive'
    <2>1. \A r \in Slots : Live(r)' => Live(r) /\ r # s
      BY <1>1, <1>2, <1>3 DEF Live, Locked, OnlyPath
    <2> QED BY <1>2, <1>3, <2>1 DEF OrderlyInv, VLive
  <1>10. \A d \in Cores : StillBooked(d)'
    BY <1>1, <1>2, <1>5 DEF OrderlyInv, StillBooked, OnlyPath
  <1>11. StacksAccounted'
    <2>1. \A j \in Stacks : j # None BY DEF DeathAssumption
    <2>2. \A d \in Cores : path[d].stack # None => path'[d] = path[d] BY <1>1, <1>2 DEF OnlyPath
    <2>3. \A d \in Cores : path[d].at \in {"teardown", "clear", "reclaim"} => path'[d] = path[d]
      BY <1>1, <1>2 DEF OnlyPath
    <2>4. path'[c].at \in {"teardown", "clear", "reclaim"} /\ base_of'[path'[c].slot] = dir[s].stack
      BY <1>1, <1>2, <1>5 DEF OnlyPath
    <2> QED BY <1>2, <1>3, <2>1, <2>2, <2>3, <2>4 DEF OrderlyInv, StacksAccounted
  <1> QED BY <1>7, <1>8, <1>9, <1>10, <1>11 DEF OrderlyInv

LEMMA ReclaimOrderly ==
  ASSUME DeathAssumption, DInv, OrderlyInv, NEW c \in Cores, reclaim_user_kstack(c) PROVE OrderlyInv'
PROOF
  <1> DEFINE s == path[c].slot
             k == base_of[s]
             p == [path[c] EXCEPT !.at = "free", !.stack = k]
  <1>1. path[c].at = "reclaim" BY DEF reclaim_user_kstack
  <1>2. base_of[s] # None /\ gen_of[s] = path[c].gen BY <1>1 DEF OrderlyInv, StillBooked
  <1>3. /\ base_of' = [base_of EXCEPT ![s] = None] /\ gen_of' = [gen_of EXCEPT ![s] = 0]
        /\ path' = [path EXCEPT ![c].at = "free", ![c].stack = k]
        /\ UNCHANGED <<dir, gidfree, zombies, stacks, vspace_of, vspaces>>
    BY <1>2 DEF reclaim_user_kstack
  <1>4. path[c] \in Path /\ s \in Slots /\ path[c].stack = None BY <1>1, Hand DEF InHand, Dying
  <1>5. k \in Stacks \cup {None} BY <1>4 DEF DInv, DTypes
  <1>6. path' = [path EXCEPT ![c] = p] BY <1>3 DEF DInv, DTypes
  <1> HIDE DEF k
  <1>7. /\ p \in Path /\ p.at = "free" /\ p.stack = k /\ p.slot = s /\ p.on = path[c].on
    BY <1>4, <1>5 DEF Path, Stages
  <1> HIDE DEF p
  <1>8. OnlyPath(c, p) BY <1>6, <1>7, PathStep DEF DInv
  <1> HIDE DEF s
  <1>9. base_of'[s] = None /\ \A r \in Slots : r # s => base_of'[r] = base_of[r] /\ gen_of'[r] = gen_of[r]
    BY <1>3, <1>4 DEF DInv, DTypes
  <1>10. \A d \in Cores : path[d].at \in Dying /\ d # c => path[d].slot \in Slots /\ path[d].slot # s
    BY <1>1, Aside, Hand DEF InHand, s, Dying
  <1>11. Withdrawals'
    <2>1. \A d \in Cores : path'[d].gids = path[d].gids BY QuietGids
    <2>2. p.on # "stop" BY <1>7 DEF OrderlyInv, Withdrawals
    <2> QED BY <1>1, <1>3, <1>7, <1>8, <2>1, <2>2, KeepWithdrawn DEF Dying, s
  <1>12. VApart' /\ VBuilt' /\ VTorn' BY <1>1, <1>3, <1>7, <1>8, KeepVSpaces
  <1>13. VLive'
    <2>1. \A r \in Slots : Live(r)' => Live(r) BY <1>1, <1>3, <1>7, <1>8 DEF Live, Locked, OnlyPath
    <2> QED BY <1>3, <2>1 DEF OrderlyInv, VLive
  <1>14. ASSUME NEW d \in Cores PROVE StillBooked(d)'
    <2>1. CASE d = c BY <1>7, <1>8, <1>9, <2>1 DEF StillBooked, OnlyPath
    <2>2. CASE d # c /\ path[d].at \in Dying
      BY <1>8, <1>9, <1>10, <2>2 DEF OrderlyInv, StillBooked, OnlyPath
    <2>3. CASE d # c /\ path[d].at \notin Dying BY <1>8, <2>3 DEF StillBooked, OnlyPath, Dying
    <2> QED BY <2>1, <2>2, <2>3
  <1>15. StacksAccounted'
    <2>1. \A j \in Stacks : j # None BY DEF DeathAssumption
    <2>2. \A d \in Cores : path[d].stack # None => path'[d] = path[d] BY <1>4, <1>8 DEF OnlyPath
    <2>3. \A d \in Cores : path[d].at \in {"teardown", "clear", "reclaim"} /\ d # c =>
            path'[d] = path[d] /\ base_of'[path[d].slot] = base_of[path[d].slot]
      BY <1>8, <1>9, <1>10 DEF OnlyPath, Dying
    <2>4. path'[c].stack = base_of[path[c].slot] BY <1>7, <1>8 DEF OnlyPath, s, k
    <2>5. SUFFICES ASSUME NEW j \in Stacks
                   PROVE  \/ j \in stacks' \/ \E r \in Slots : dir'[r].stack = j
                          \/ \E d \in Cores : path'[d].stack = j
                          \/ \E d \in Cores : /\ path'[d].at \in {"teardown", "clear", "reclaim"}
                                              /\ base_of'[path'[d].slot] = j
      BY DEF StacksAccounted
    <2>6. \/ j \in stacks \/ \E r \in Slots : dir[r].stack = j
          \/ \E d \in Cores : path[d].stack = j
          \/ \E d \in Cores : /\ path[d].at \in {"teardown", "clear", "reclaim"}
                              /\ base_of[path[d].slot] = j
      BY DEF OrderlyInv, StacksAccounted
    <2>7. ASSUME NEW d \in Cores, path[d].stack = j PROVE path'[d].stack = j BY <2>1, <2>2, <2>7
    <2>8. ASSUME NEW d \in Cores, path[d].at \in {"teardown", "clear", "reclaim"},
                 base_of[path[d].slot] = j
          PROVE  \/ path'[c].stack = j
                 \/ path'[d].at \in {"teardown", "clear", "reclaim"} /\ base_of'[path'[d].slot] = j
      <3>1. CASE d = c BY <2>4, <2>8, <3>1
      <3>2. CASE d # c BY <2>3, <2>8, <3>2
      <3> QED BY <3>1, <3>2
    <2> QED BY <1>3, <2>6, <2>7, <2>8
  <1> QED BY <1>11, <1>12, <1>13, <1>14, <1>15 DEF OrderlyInv

LEMMA FreeOrderly ==
  ASSUME DInv, OrderlyInv, NEW c \in Cores, free_kstack(c) PROVE OrderlyInv'
PROOF
  <1>1. /\ path[c].at = "free" /\ stacks' = stacks \cup ({path[c].stack} \ {None})
        /\ UNCHANGED <<dir, gidfree, zombies, base_of, gen_of, vspace_of, vspaces>>
    BY DEF free_kstack
  <1>2. path[c].on # "stop" BY DEF OrderlyInv, Withdrawals
  <1>3. PICK p \in Path :
              /\ OnlyPath(c, p)
              /\ \/ p = User
                 \/ /\ \/ p.at = "look" /\ path[c].on = "fault"
                       \/ p.at = "reap" /\ path[c].on = "destroy"
                    /\ p.slot = path[c].slot /\ p.on = path[c].on
    BY <1>2, FreeStep
  <1>4. /\ p.at \in {"user", "look", "reap"} /\ p.on # "stop"
        /\ p.at = "look" => p.on # "destroy"
        /\ p.at \in {"look", "reap"} => p.slot = path[c].slot
    BY <1>2, <1>3, UserPath DEF None
  <1>5. Withdrawals'
    <2>1. \A d \in Cores : path'[d].gids = path[d].gids BY QuietGids
    <2> QED BY <1>1, <1>3, <1>4, <2>1, KeepWithdrawn DEF Dying
  <1>6. VApart' /\ VBuilt' /\ VTorn' BY <1>1, <1>3, <1>4, KeepVSpaces
  <1>7. VLive'
    <2>1. \A r \in Slots : Live(r)' => Live(r) BY <1>1, <1>3, <1>4 DEF Live, Locked, OnlyPath
    <2> QED BY <1>1, <2>1 DEF OrderlyInv, VLive
  <1>8. \A d \in Cores : StillBooked(d)'
    BY <1>1, <1>3, <1>4 DEF OrderlyInv, StillBooked, OnlyPath
  <1>9. StacksAccounted'
    <2>1. \A d \in Cores : path[d].at \in {"teardown", "clear", "reclaim"} => path'[d] = path[d]
      BY <1>1, <1>3 DEF OnlyPath
    <2>2. \A d \in Cores : d # c => path'[d].stack = path[d].stack BY <1>3 DEF OnlyPath
    <2>3. \A j \in Stacks : path[c].stack = j => j \in stacks' \/ j = None BY <1>1
    <2>4. \A d \in Cores : path[d].stack = None => path'[d].stack = None
      BY <1>3, FreeStep DEF OnlyPath
    <2> QED BY <1>1, <2>1, <2>2, <2>3, <2>4 DEF OrderlyInv, StacksAccounted
  <1> QED BY <1>5, <1>6, <1>7, <1>8, <1>9 DEF OrderlyInv

LEMMA LookOrderly ==
  ASSUME DInv, OrderlyInv, NEW c \in Cores, look(c) PROVE OrderlyInv'
PROOF
  <1> DEFINE a == vspace_of[path[c].slot]
             q == [path[c] EXCEPT !.at = "teardown", !.asid = a]
  <1>1. /\ path[c].at = "look"
        /\ UNCHANGED <<dir, gidfree, zombies, base_of, gen_of, stacks, vspace_of, vspaces>>
    BY DEF look
  <1>2. path[c] \in Path /\ path[c].slot \in Slots /\ path[c].stack = None
    BY <1>1, Hand DEF InHand, Dying
  <1>3. PICK p \in Path :
              /\ OnlyPath(c, p) /\ p.stack = None
              /\ \/ p = User
                 \/ /\ p.at = "teardown" /\ p.slot = path[c].slot /\ p.on = path[c].on
                    /\ p.asid = vspace_of[p.slot] /\ p.asid # None
    <2>1. CASE a = None
      <3>1. OnlyPath(c, User) BY <2>1, DoneStep DEF look, DInv
      <3> QED BY <3>1, UserPath
    <2>2. CASE a # None
      <3>1. a \in Asids \cup {None} BY <1>2 DEF DInv, DTypes
      <3>2. /\ q \in Path /\ q.at = "teardown" /\ q.slot = path[c].slot /\ q.on = path[c].on
            /\ q.stack = path[c].stack /\ q.asid = a
        BY <1>2, <3>1 DEF Path, Stages
      <3>3. path' = [path EXCEPT ![c] = q] BY <2>2 DEF look
      <3> HIDE DEF q
      <3>4. OnlyPath(c, q) BY <3>2, <3>3, PathStep DEF DInv
      <3> QED BY <1>2, <2>2, <3>2, <3>4
    <2> QED BY <2>1, <2>2
  <1>4. /\ p.at \in {"user", "teardown"} /\ p.on # "stop"
        /\ p.at = "teardown" => /\ p.slot = path[c].slot /\ p.on = path[c].on
                                /\ p.asid = vspace_of[p.slot] /\ p.asid # None
    BY <1>3, UserPath DEF None, OrderlyInv, Withdrawals
  <1>5. base_of[path[c].slot] = None /\ path[c].on # "destroy" BY <1>1 DEF OrderlyInv, StillBooked
  <1>6. Withdrawals'
    <2>1. \A d \in Cores : path'[d].gids = path[d].gids BY QuietGids
    <2> QED BY <1>1, <1>3, <1>4, <2>1, KeepWithdrawn DEF Dying
  <1>7. VApart' /\ VBuilt' /\ VTorn' BY <1>1, <1>3, <1>4, KeepVSpaces
  <1>8. VLive'
    <2>1. \A r \in Slots : Live(r)' => Live(r) BY <1>1, <1>3, <1>4 DEF Live, Locked, OnlyPath
    <2> QED BY <1>1, <2>1 DEF OrderlyInv, VLive
  <1>9. \A d \in Cores : StillBooked(d)'
    BY <1>1, <1>3, <1>4, <1>5 DEF OrderlyInv, StillBooked, OnlyPath
  <1>10. StacksAccounted'
    <2>1. \A d \in Cores : path[d].at \in {"teardown", "clear", "reclaim"} => path'[d] = path[d]
      BY <1>1, <1>3 DEF OnlyPath
    <2>2. \A d \in Cores : path'[d].stack = path[d].stack BY <1>2, <1>3 DEF OnlyPath
    <2> QED BY <1>1, <2>1, <2>2 DEF OrderlyInv, StacksAccounted
  <1> QED BY <1>6, <1>7, <1>8, <1>9, <1>10 DEF OrderlyInv

LEMMA TeardownOrderly ==
  ASSUME DInv, OrderlyInv, NEW c \in Cores, vspace_teardown(c) PROVE OrderlyInv'
PROOF
  <1> DEFINE s == path[c].slot
             p == [path[c] EXCEPT !.at = "clear"]
  <1>1. /\ path[c].at = "teardown" /\ vspaces' = vspaces \ {path[c].asid} /\ Goto(c, "clear")
        /\ UNCHANGED <<dir, gidfree, zombies, base_of, gen_of, stacks, vspace_of>>
    BY DEF vspace_teardown
  <1>2. path[c] \in Path /\ s \in Slots /\ path[c].at \in Dying BY <1>1, Hand DEF InHand, Dying
  <1>3. OnlyPath(c, p) BY <1>1, GotoStep DEF Stages, DInv
  <1>4. /\ p \in Path /\ p.at = "clear" /\ p.slot = s /\ p.on = path[c].on
        /\ p.stack = path[c].stack /\ p.gen = path[c].gen
    BY <1>2 DEF Path, Stages
  <1> HIDE DEF p
  <1>5. path[c].asid # None /\ path[c].asid = vspace_of[s] BY <1>1 DEF OrderlyInv, VTorn
  <1>6. \A d \in Cores : path[d].at \in Dying /\ path[d].slot = s => d = c BY <1>2, Aside
  <1> HIDE DEF s
  <1>7. ~Cleared(s)
    <2>1. SUFFICES ASSUME NEW d \in Cores, path[d].at = "clear", path[d].slot = s PROVE FALSE
      BY DEF Cleared
    <2> QED BY <1>1, <1>6, <2>1 DEF Dying
  <1>8. Withdrawals'
    <2>1. \A d \in Cores : path'[d].gids = path[d].gids BY QuietGids
    <2>2. p.on # "stop" BY <1>4 DEF OrderlyInv, Withdrawals
    <2> QED BY <1>1, <1>2, <1>3, <1>4, <2>1, <2>2, KeepWithdrawn DEF s
  <1>9. VApart' /\ VBuilt'
    <2>1. /\ \A r \in Slots : Cleared(r)' <=> Cleared(r) \/ r = s
          /\ \A d \in Cores : Building(d)' <=> Building(d)
          /\ \A d \in Cores : Building(d) => path'[d].asid = path[d].asid
      BY <1>1, <1>3, <1>4 DEF OnlyPath, Cleared, Building
    <2>2. \A v \in vspaces : v # vspace_of[s] => v \in vspaces' BY <1>1, <1>5
    <2>3. VApart' BY <1>1, <1>2, <1>5, <1>7, <2>1, <2>2 DEF OrderlyInv, VApart
    <2>4. \A d \in Cores : Building(d) => path[d].asid # vspace_of[s]
      BY <1>2, <1>5, <1>7 DEF OrderlyInv, VApart, s
    <2>5. VBuilt' BY <2>1, <2>2, <2>4 DEF OrderlyInv, VBuilt
    <2> QED BY <2>3, <2>5
  <1>10. VTorn' BY <1>1, <1>3, <1>4 DEF OrderlyInv, VTorn, OnlyPath
  <1>11. VLive'
    <2>1. \A r \in Slots : Live(r)' => Live(r) BY <1>1, <1>3, <1>4 DEF Live, Locked, OnlyPath
    <2> QED BY <1>1, <2>1 DEF OrderlyInv, VLive
  <1>12. \A d \in Cores : StillBooked(d)'
    BY <1>1, <1>3, <1>4 DEF OrderlyInv, StillBooked, OnlyPath, s
  <1>13. StacksAccounted'
    <2>1. \A d \in Cores : path'[d].stack = path[d].stack /\ path'[d].slot = path[d].slot
      BY <1>3, <1>4 DEF OnlyPath, s
    <2>2. \A d \in Cores : path[d].at \in {"teardown", "clear", "reclaim"} =>
            path'[d].at \in {"teardown", "clear", "reclaim"}
      BY <1>3, <1>4 DEF OnlyPath
    <2> QED BY <1>1, <2>1, <2>2 DEF OrderlyInv, StacksAccounted
  <1> QED BY <1>8, <1>9, <1>10, <1>11, <1>12, <1>13 DEF OrderlyInv

LEMMA ClearOrderly ==
  ASSUME DeathAssumption, DInv, OrderlyInv, NEW c \in Cores, clear_vspace(c) PROVE OrderlyInv'
PROOF
  <1> DEFINE s == path[c].slot
             q == [path[c] EXCEPT !.at = "reclaim"]
  <1>1. /\ path[c].at = "clear" /\ vspace_of' = [vspace_of EXCEPT ![s] = None]
        /\ UNCHANGED <<dir, gidfree, zombies, base_of, gen_of, stacks, vspaces>>
    BY DEF clear_vspace
  <1>2. /\ path[c] \in Path /\ s \in Slots /\ path[c].at \in Dying /\ path[c].stack = None
    BY <1>1, Hand DEF InHand, Dying
  <1>3. PICK p \in Path :
              /\ OnlyPath(c, p) /\ p.stack = None
              /\ \/ p = User /\ path[c].on # "destroy"
                 \/ /\ p.at = "reclaim" /\ path[c].on = "destroy" /\ p.on = path[c].on /\ p.slot = s
                    /\ p.gen = path[c].gen
    <2>1. CASE path[c].on = "destroy"
      <3>1. OnlyPath(c, q) BY <2>1, GotoStep DEF clear_vspace, DInv, Stages
      <3>2. /\ q \in Path /\ q.at = "reclaim" /\ q.slot = s /\ q.on = path[c].on
            /\ q.gen = path[c].gen /\ q.stack = path[c].stack
        BY <1>2 DEF Path, Stages
      <3> HIDE DEF q
      <3> QED BY <1>2, <2>1, <3>1, <3>2
    <2>2. CASE path[c].on # "destroy"
      <3>1. OnlyPath(c, User) BY <2>2, DoneStep DEF clear_vspace, DInv
      <3> QED BY <2>2, <3>1, UserPath
    <2> QED BY <2>1, <2>2
  <1>4. /\ p.at \in {"user", "reclaim"} /\ p.on # "stop"
        /\ p.at = "reclaim" => path[c].on = "destroy" /\ p.slot = s /\ p.gen = path[c].gen
        /\ p.at = "user" => path[c].on # "destroy"
    BY <1>3, UserPath DEF None
  <1> HIDE DEF s
  <1>5. \A d \in Cores : path[d].at \in Dying /\ path[d].slot = s => d = c
    BY <1>2, Aside DEF s
  <1>6. vspace_of'[s] = None /\ \A r \in Slots : r # s => vspace_of'[r] = vspace_of[r]
    BY <1>1, <1>2 DEF DInv, DTypes
  <1>7. Withdrawals'
    <2>1. \A d \in Cores : path'[d].gids = path[d].gids BY QuietGids
    <2> QED BY <1>1, <1>2, <1>3, <1>4, <2>1, KeepWithdrawn DEF s, Dying
  <1>8. VApart' /\ VBuilt'
    <2>1. /\ \A r \in Slots : r # s => (Cleared(r)' <=> Cleared(r))
          /\ \A d \in Cores : Building(d)' <=> Building(d)
          /\ \A d \in Cores : Building(d) => path'[d].asid = path[d].asid
      BY <1>1, <1>3, <1>4 DEF OnlyPath, Cleared, Building, s
    <2>2. VApart' BY <1>1, <1>6, <2>1 DEF OrderlyInv, VApart
    <2>3. VBuilt' BY <1>1, <2>1 DEF OrderlyInv, VBuilt
    <2> QED BY <2>2, <2>3
  <1>9. VTorn'
    <2>1. \A d \in Cores : path'[d].at = "teardown" =>
            path'[d] = path[d] /\ path[d].slot # s /\ path[d].slot \in Slots
      BY <1>1, <1>3, <1>4, <1>5, Hand DEF OnlyPath, Dying, InHand
    <2> QED BY <1>6, <2>1 DEF OrderlyInv, VTorn
  <1>10. VLive'
    <2>1. \A r \in Slots : Live(r)' => Live(r) BY <1>1, <1>3, <1>4 DEF Live, Locked, OnlyPath
    <2>2. ~dir[s].used BY <1>2, Aside DEF s
    <2> QED BY <1>1, <1>6, <2>1, <2>2 DEF OrderlyInv, VLive, Live
  <1>11. \A d \in Cores : StillBooked(d)'
    BY <1>1, <1>3, <1>4 DEF OrderlyInv, StillBooked, OnlyPath, s
  <1>12. StacksAccounted'
    <2>1. \A d \in Cores : path'[d].stack = path[d].stack BY <1>2, <1>3 DEF OnlyPath
    <2>2. \A j \in Stacks : j # None BY DEF DeathAssumption
    <2>3. path[c].on # "destroy" => base_of[path[c].slot] = None BY <1>1 DEF OrderlyInv, StillBooked
    <2>4. \A d \in Cores : path[d].at \in {"teardown", "clear", "reclaim"} =>
            \/ base_of[path[d].slot] = None
            \/ path'[d].at \in {"teardown", "clear", "reclaim"} /\ path'[d].slot = path[d].slot
      BY <1>3, <2>3 DEF OnlyPath, s
    <2> QED BY <1>1, <2>1, <2>2, <2>4 DEF OrderlyInv, StacksAccounted
  <1> QED BY <1>7, <1>8, <1>9, <1>10, <1>11, <1>12 DEF OrderlyInv

LEMMA ReapOrderly ==
  ASSUME Orderly, DInv, OrderlyInv, NEW c \in Cores, NEW e \in Cores, reap_core(c, e) PROVE OrderlyInv'
PROOF
  <1>1. PICK p \in Path :
              /\ OnlyPath(c, p) /\ p.at = "release" /\ p.gids = zombies[e] /\ p.on = None
              /\ p.stack = None
              /\ zombies'[e] = <<>> /\ \A d \in Cores : d # e => zombies'[d] = zombies[d]
              /\ path[c].at \in {"user", "reap"} /\ path[c].stack = None
    BY ReapStep
  <1>2. UNCHANGED <<dir, gidfree, base_of, gen_of, stacks, vspace_of, vspaces>> /\ c = e
    BY DEF reap_core, Orderly
  <1>3. Withdrawals'
    <2>1. ASSUME NEW d \in Cores PROVE path'[d].at # "kill" /\ path'[d].on # "stop"
      BY <1>1 DEF OnlyPath, OrderlyInv, Withdrawals, None
    <2>2. \A d \in Cores : path'[d].at \in Dying => path'[d] = path[d] /\ d # c
      BY <1>1 DEF OnlyPath, Dying
    <2>3. \A r \in Slots, d \in Cores : Reaped(r, d)' => Reaped(r, d) \/ (d = c /\ InRing(r, c))
      BY <1>1, <1>2 DEF Reaped, InRing, OnlyPath
    <2>4. \A r \in Slots, d \in Cores : InRing(r, d)' => InRing(r, d) BY <1>1, NoSlots DEF InRing
    <2>5. \A r \in Slots : InFree(r)' <=> InFree(r) BY <1>2 DEF InFree
    <2>6. ASSUME NEW d \in Cores PROVE Withdrawn(d)'
      <3>1. SUFFICES ASSUME path'[d].at \in Dying PROVE Withdrawn(d)' BY DEF Withdrawn
      <3>2. path'[d] = path[d] /\ d # c /\ path[d].slot \in Slots BY <2>2, <3>1, Hand DEF InHand
      <3> QED BY <1>2, <2>2, <2>3, <2>4, <2>5, <3>1, <3>2, Aside DEF Withdrawn
    <2> QED BY <2>1, <2>6 DEF Withdrawals
  <1>4. VApart' /\ VBuilt' /\ VTorn' BY <1>1, <1>2, KeepVSpaces
  <1>5. VLive'
    <2>1. \A r \in Slots : Live(r)' => Live(r) BY <1>1, <1>2 DEF Live, Locked, OnlyPath
    <2> QED BY <1>2, <2>1 DEF OrderlyInv, VLive
  <1>6. \A d \in Cores : StillBooked(d)' BY <1>1, <1>2 DEF OrderlyInv, StillBooked, OnlyPath
  <1>7. StacksAccounted'
    <2>1. \A d \in Cores : path'[d].stack = path[d].stack BY <1>1 DEF OnlyPath
    <2>2. \A d \in Cores : path[d].at \in {"teardown", "clear", "reclaim"} => path'[d] = path[d]
      BY <1>1 DEF OnlyPath
    <2> QED BY <1>2, <2>1, <2>2 DEF OrderlyInv, StacksAccounted
  <1> QED BY <1>3, <1>4, <1>5, <1>6, <1>7 DEF OrderlyInv

LEMMA ReleaseOrderly ==
  ASSUME DInv, OrderlyInv, NEW c \in Cores, release_gid(c) PROVE OrderlyInv'
PROOF
  <1>1. /\ ToSet(gidfree') = ToSet(path[c].gids) \cup ToSet(gidfree)
        /\ path[c].at = "release" /\ path[c].stack = None /\ OnlyPath(c, User)
    BY ReleaseEffect
  <1>2. UNCHANGED <<dir, zombies, base_of, gen_of, stacks, vspace_of, vspaces>> BY DEF release_gid
  <1>3. Withdrawals'
    <2>1. ASSUME NEW d \in Cores PROVE path'[d].at # "kill" /\ path'[d].on # "stop"
      BY <1>1, UserPath DEF OnlyPath, OrderlyInv, Withdrawals, None
    <2>2. \A d \in Cores : path'[d].at \in Dying => path'[d] = path[d] /\ d # c
      BY <1>1, UserPath DEF OnlyPath, Dying
    <2>3. \A r \in Slots, d \in Cores : Reaped(r, d)' => Reaped(r, d)
      BY <1>1, UserPath, NoSlots DEF Reaped, OnlyPath
    <2>4. \A r \in Slots, d \in Cores : InRing(r, d)' <=> InRing(r, d) BY <1>2 DEF InRing
    <2>5. \A r \in Slots : InFree(r)' => InFree(r) \/ Reaped(r, c) BY <1>1 DEF InFree, Reaped
    <2>6. ASSUME NEW d \in Cores PROVE Withdrawn(d)'
      <3>1. SUFFICES ASSUME path'[d].at \in Dying PROVE Withdrawn(d)' BY DEF Withdrawn
      <3>2. path'[d] = path[d] /\ path[d].slot \in Slots BY <2>2, <3>1, Hand DEF InHand
      <3> QED BY <1>2, <2>2, <2>3, <2>4, <2>5, <3>1, <3>2, Aside DEF Withdrawn
    <2> QED BY <2>1, <2>6 DEF Withdrawals
  <1>4. VApart' /\ VBuilt' /\ VTorn' BY <1>1, <1>2, UserPath, KeepVSpaces
  <1>5. VLive'
    <2>1. \A r \in Slots : Live(r)' => Live(r) BY <1>1, <1>2, UserPath DEF Live, Locked, OnlyPath
    <2> QED BY <1>2, <2>1 DEF OrderlyInv, VLive
  <1>6. \A d \in Cores : StillBooked(d)'
    BY <1>1, <1>2, UserPath DEF OrderlyInv, StillBooked, OnlyPath
  <1>7. StacksAccounted'
    <2>1. \A d \in Cores : path'[d].stack = path[d].stack BY <1>1, UserPath DEF OnlyPath
    <2>2. \A d \in Cores : path[d].at \in {"teardown", "clear", "reclaim"} => path'[d] = path[d]
      BY <1>1 DEF OnlyPath
    <2> QED BY <1>2, <2>1, <2>2 DEF OrderlyInv, StacksAccounted
  <1> QED BY <1>3, <1>4, <1>5, <1>6, <1>7 DEF OrderlyInv

LEMMA OrderlyInit == ASSUME Init PROVE OrderlyInv
PROOF
  <1>1. \A c \in Cores : path[c] = User BY DEF Init
  <1>2. \A s \in Slots : ~dir[s].used /\ vspace_of[s] = None BY DEF Init, Empty
  <1>3. Withdrawals BY <1>1, UserPath DEF Withdrawals, Withdrawn, Dying, None
  <1>4. VApart /\ VLive BY <1>2 DEF VApart, VLive, Live
  <1>5. VBuilt /\ VTorn BY <1>1, UserPath DEF VBuilt, VTorn, Building
  <1>6. \A c \in Cores : StillBooked(c) BY <1>1, UserPath DEF StillBooked
  <1>7. StacksAccounted BY DEF Init, StacksAccounted
  <1> QED BY <1>3, <1>4, <1>5, <1>6, <1>7 DEF OrderlyInv

LEMMA OrderlyStep == ASSUME DeathAssumption, Orderly, DInv, OrderlyInv, [Next]_vars PROVE OrderlyInv'
PROOF
  <1>1. CASE UNCHANGED vars
    BY <1>1 DEF vars, OrderlyInv, Withdrawals, Withdrawn, InRing, Reaped, InFree, VApart, Cleared,
                Building, VBuilt, VTorn, VLive, Live, Locked, StillBooked, StacksAccounted
  <1>2. ASSUME NEW c \in Cores, claim(c) PROVE OrderlyInv' BY <1>2, ClaimOrderly
  <1>3. ASSUME NEW c \in Cores, spawn(c) PROVE OrderlyInv' BY <1>3, SpawnFailsOrderly, SpawnTakesOrderly
  <1>4. ASSUME NEW c \in Cores, record_user_kstack(c) PROVE OrderlyInv' BY <1>4, RecordOrderly
  <1>5. ASSUME NEW c \in Cores, bind(c) PROVE OrderlyInv' BY <1>5, BindOrderly
  <1>6. ASSUME NEW c \in Cores, NEW s \in Slots, NEW how \in {"exit", "fault", "kill", "destroy"},
               die(c, s, how)
        PROVE  OrderlyInv'
    BY <1>6, DieOrderly
  <1>7. ASSUME NEW c \in Cores, NEW s \in Slots, stop(c, s) PROVE OrderlyInv' BY <1>7 DEF stop, Orderly
  <1>8. ASSUME NEW c \in Cores, kill_remote(c) PROVE OrderlyInv'
    BY <1>8 DEF kill_remote, OrderlyInv, Withdrawals
  <1>9. ASSUME NEW c \in Cores, reclaim_user_kstack(c) PROVE OrderlyInv' BY <1>9, ReclaimOrderly
  <1>10. ASSUME NEW c \in Cores, free_kstack(c) PROVE OrderlyInv' BY <1>10, FreeOrderly
  <1>11. ASSUME NEW c \in Cores, look(c) PROVE OrderlyInv' BY <1>11, LookOrderly
  <1>12. ASSUME NEW c \in Cores, vspace_teardown(c) PROVE OrderlyInv' BY <1>12, TeardownOrderly
  <1>13. ASSUME NEW c \in Cores, clear_vspace(c) PROVE OrderlyInv' BY <1>13, ClearOrderly
  <1>14. ASSUME NEW c \in Cores, NEW d \in Cores, reap_core(c, d) PROVE OrderlyInv' BY <1>14, ReapOrderly
  <1>15. ASSUME NEW c \in Cores, release_gid(c) PROVE OrderlyInv' BY <1>15, ReleaseOrderly
  <1> QED BY <1>1, <1>2, <1>3, <1>4, <1>5, <1>6, <1>7, <1>8, <1>9, <1>10, <1>11, <1>12, <1>13,
             <1>14, <1>15 DEF Next

LEMMA VSpaceInv == ASSUME DeathAssumption, OrderlyInv PROVE VSpaceKept
PROOF
  <1>1. SUFFICES ASSUME NEW s \in Slots, Live(s)
                 PROVE  vspace_of[s] = dir[s].asid /\ dir[s].asid \in vspaces
    BY DEF VSpaceKept
  <1>2. vspace_of[s] = dir[s].asid /\ vspace_of[s] # None
    BY <1>1 DEF OrderlyInv, VLive, DeathAssumption
  <1>3. ~Cleared(s) BY <1>1, Aside DEF Cleared, Dying, Live
  <1> QED BY <1>2, <1>3 DEF OrderlyInv, VApart

\* Address spaces (VSPACE_OF, vspace_teardown): where threads die on their own core and only that
\* core reaps its zombies, a live thread keeps the address space it was born with, and no kernel
\* stack is lost between a death, its clean-up and the next birth.
THEOREM OrderlyDeaths ==
  ASSUME "stop" \notin Deaths, CrossReap = FALSE
  PROVE  Spec => [](VSpaceKept /\ StacksAccounted)
PROOF
  <1>0. Orderly BY DEF Orderly
  <1>1. Init => DInv /\ OrderlyInv BY DeathAssumption, DeathInit, OrderlyInit
  <1>2. DInv /\ OrderlyInv /\ [Next]_vars => DInv' /\ OrderlyInv'
    BY <1>0, DeathAssumption, DeathStep, OrderlyStep
  <1>3. DInv /\ OrderlyInv => VSpaceKept /\ StacksAccounted
    BY DeathAssumption, VSpaceInv DEF OrderlyInv
  <1> QED BY <1>1, <1>2, <1>3, PTL DEF Spec

-----------------------------------------------------------------------------
(* Threads that move: the invariant                                        *)

Tcb == [used : BOOLEAN, gid : Gids \cup {Nowhere}, gen : Nat, ready : BOOLEAN, parked : BOOLEAN,
        wake : BOOLEAN]
Entry == [used : BOOLEAN, gen : Nat, core : CoreIds \cup {0}, local : Locals \cup {0}]
Tid == [slot : Gids \cup {Nowhere}, gen : Nat]
Call == [pc : {"idle", "look", "try", "recheck", "done", "failed", "gave up"}, tid : Tid,
         op : {"unpark", "kill"}, core : CoreIds \cup {Nowhere}, tries : Int]

Types ==
  /\ tcbs \in [CoreIds -> [Locals -> Tcb]]
  /\ current \in [CoreIds -> Locals \cup {Nowhere}]
  /\ directory \in [Gids -> Entry]
  /\ gid_free \subseteq Gids /\ reaped \subseteq Gids
  /\ rings \in [CoreIds -> Seq(Gids)]
  /\ pick \in [CoreIds -> [tid : Tid, dst : CoreIds \cup {Nowhere}]]
  /\ call \in [Wakers -> Call]

\* A waker that is in the middle of with_owner names a thread, and one that tries names a core;
\* a balancer moves to another core.
Named ==
  /\ \A w \in Wakers : /\ call[w].pc # "idle" => call[w].tid.slot \in Gids
                       /\ call[w].pc = "try" => call[w].core \in CoreIds
  /\ \A c \in CoreIds : pick[c] # NoPick =>
       pick[c].tid.slot \in Gids /\ pick[c].dst \in CoreIds \ {c}

\* The slot l of core c: empty, or the thread the directory says.
SlotTrue(c, l) ==
  IF tcbs[c][l].used
  THEN /\ tcbs[c][l].gid \in Gids
       /\ directory[tcbs[c][l].gid] = [used |-> TRUE, gen |-> tcbs[c][l].gen, core |-> c, local |-> l]
  ELSE tcbs[c][l] = NoTcb

\* The entry of number g: nobody, or the thread in the slot it says.
EntryTrue(g) == directory[g].used =>
  /\ directory[g].core \in CoreIds /\ directory[g].local \in Locals
  /\ tcbs[directory[g].core][directory[g].local].used
  /\ tcbs[directory[g].core][directory[g].local].gid = g

Placed ==
  /\ \A c \in CoreIds, l \in Locals : SlotTrue(c, l)
  /\ \A g \in Gids : EntryTrue(g)
  /\ \A c \in CoreIds : current[c] # Nowhere => tcbs[c][current[c]].used

\* Where a number may be.
Free(g) == g \in gid_free
Alive(g) == directory[g].used
Ring(g, c) == g \in ToSet(rings[c])
Once(g) ==
  /\ Free(g) => ~Alive(g) /\ g \notin reaped
  /\ g \in reaped => ~Alive(g)
  /\ \A c \in CoreIds : Ring(g, c) =>
       ~Free(g) /\ ~Alive(g) /\ g \notin reaped /\ \A d \in CoreIds : Ring(g, d) => d = c

Numbers ==
  /\ \A g \in Gids : Once(g)
  /\ \A c \in CoreIds : IsInjective(rings[c])

MInv == Types /\ Named /\ Placed /\ Numbers

LEMMA Ranges ==
  ASSUME MigrateAssumption
  PROVE  /\ Nowhere \notin CoreIds /\ Nowhere \notin Locals /\ 0 \notin Locals
         /\ NoTcb \in Tcb /\ NoTcb.used = FALSE
  BY DEF MigrateAssumption, Locals, Nowhere, NoTcb, Tcb

LEMMA MigrateInitInv == ASSUME MigrateAssumption, MigrateInit PROVE MInv
PROOF
  <1>1. Types
    <2>1. call \in [Wakers -> Call]
      BY DEF MigrateInit, Call, NoCall, Tid, Nowhere
    <2>2. pick \in [CoreIds -> [tid : Tid, dst : CoreIds \cup {Nowhere}]]
      BY DEF MigrateInit, NoPick, Tid, Nowhere
    <2>3. directory \in [Gids -> Entry] BY DEF MigrateInit, Entry
    <2>4. tcbs \in [CoreIds -> [Locals -> Tcb]] BY Ranges DEF MigrateInit
    <2> QED BY <2>1, <2>2, <2>3, <2>4 DEF MigrateInit, Types
  <1>2. Named BY DEF MigrateInit, Named, NoCall
  <1>3. Placed BY Ranges DEF MigrateInit, Placed, SlotTrue, EntryTrue
  <1>4. Numbers
    <2>1. \A c \in CoreIds : ToSet(rings[c]) = {} /\ IsInjective(rings[c])
      BY DEF MigrateInit, ToSet, IsInjective
    <2> QED BY <2>1 DEF MigrateInit, Numbers, Once, Free, Alive, Ring
  <1> QED BY <1>1, <1>2, <1>3, <1>4 DEF MInv

-----------------------------------------------------------------------------
(* Threads that move: what a step does to the tables                       *)

\* Slots keep their threads; only their flags change.
SameThreads ==
  /\ tcbs' \in [CoreIds -> [Locals -> Tcb]]
  /\ \A c \in CoreIds, l \in Locals :
       /\ tcbs'[c][l].used = tcbs[c][l].used /\ tcbs'[c][l].gid = tcbs[c][l].gid
       /\ tcbs'[c][l].gen = tcbs[c][l].gen
       /\ ~tcbs[c][l].used => tcbs'[c][l] = tcbs[c][l]

\* Only the slot l of core c changes, to t.
Write(c, l, t) ==
  /\ tcbs' \in [CoreIds -> [Locals -> Tcb]]
  /\ tcbs'[c][l] = t
  /\ \A d \in CoreIds, m \in Locals : d # c \/ m # l => tcbs'[d][m] = tcbs[d][m]

LEMMA WriteSlot ==
  ASSUME Types, NEW c \in CoreIds, NEW l \in Locals, NEW t \in Tcb, tcbs' = [tcbs EXCEPT ![c][l] = t]
  PROVE  Write(c, l, t)
PROOF
  <1>1. tcbs \in [CoreIds -> [Locals -> Tcb]] BY DEF Types
  <1>2. tcbs' = [tcbs EXCEPT ![c] = [tcbs[c] EXCEPT ![l] = t]] OBVIOUS
  <1>3. [tcbs[c] EXCEPT ![l] = t] \in [Locals -> Tcb] BY <1>1
  <1>4. tcbs' \in [CoreIds -> [Locals -> Tcb]] BY <1>1, <1>2, <1>3
  <1>5. tcbs'[c] = [tcbs[c] EXCEPT ![l] = t] /\ \A d \in CoreIds : d # c => tcbs'[d] = tcbs[d]
    BY <1>1, <1>2
  <1> QED BY <1>1, <1>4, <1>5 DEF Write

LEMMA FlagsPlaced ==
  ASSUME MInv, SameThreads, UNCHANGED directory,
         \A c \in CoreIds : current'[c] # Nowhere => tcbs[c][current'[c]].used,
         current' \in [CoreIds -> Locals \cup {Nowhere}]
  PROVE  Placed'
PROOF
  <1>1. \A c \in CoreIds, l \in Locals : SlotTrue(c, l)'
    BY DEF MInv, Placed, SlotTrue, SameThreads
  <1>2. \A g \in Gids : EntryTrue(g)' BY DEF MInv, Placed, EntryTrue, SameThreads
  <1>3. \A c \in CoreIds : current'[c] # Nowhere => tcbs'[c][current'[c]].used BY DEF SameThreads
  <1> QED BY <1>1, <1>2, <1>3 DEF Placed

\* Numbers stay where they are.
LEMMA SameNumbers ==
  ASSUME MInv, UNCHANGED <<gid_free, reaped, rings>>,
         \A g \in Gids : directory'[g].used = directory[g].used
  PROVE  Numbers'
  BY DEF MInv, Numbers, Once, Free, Alive, Ring

\* A slot in use is where the directory says, and a slot that is ready is in use.
LEMMA Found ==
  ASSUME MInv, NEW c \in CoreIds, NEW l \in Locals
  PROVE  /\ tcbs[c][l].used =>
              /\ tcbs[c][l].gid \in Gids /\ directory[tcbs[c][l].gid].used
              /\ directory[tcbs[c][l].gid].core = c /\ directory[tcbs[c][l].gid].local = l
              /\ directory[tcbs[c][l].gid].gen = tcbs[c][l].gen
         /\ tcbs[c][l].ready => tcbs[c][l].used
PROOF
  <1>1. SlotTrue(c, l) BY DEF MInv, Placed
  <1>2. CASE tcbs[c][l].used BY <1>1, <1>2 DEF SlotTrue
  <1>3. CASE ~tcbs[c][l].used
    <2>1. tcbs[c][l] = NoTcb BY <1>1, <1>3 DEF SlotTrue
    <2>2. NoTcb.ready = FALSE BY DEF NoTcb
    <2> QED BY <1>3, <2>1, <2>2
  <1> QED BY <1>2, <1>3

\* Two slots never hold the same number.
LEMMA Apart ==
  ASSUME MInv, NEW c \in CoreIds, NEW l \in Locals, NEW d \in CoreIds, NEW m \in Locals,
         tcbs[c][l].used, tcbs[d][m].used, tcbs[c][l].gid = tcbs[d][m].gid
  PROVE  c = d /\ l = m
  BY Found

-----------------------------------------------------------------------------
(* Threads that move: the end of a thread                                  *)

LEMMA AppendRing ==
  ASSUME NEW q \in Seq(Gids), NEW g \in Gids
  PROVE  /\ Append(q, g) \in Seq(Gids) /\ ToSet(Append(q, g)) = ToSet(q) \cup {g}
         /\ IsInjective(q) /\ g \notin ToSet(q) => IsInjective(Append(q, g))
PROOF
  <1> DEFINE a == Append(q, g)
  <1>1. a \in Seq(Gids) /\ DOMAIN a = 1 .. Len(q) + 1 /\ DOMAIN q = 1 .. Len(q) /\ Len(q) \in Nat
    OBVIOUS
  <1>2. a[Len(q) + 1] = g /\ \A i \in 1 .. Len(q) : a[i] = q[i] OBVIOUS
  <1>3. ToSet(a) = ToSet(q) \cup {g} BY <1>1, <1>2 DEF ToSet
  <1>4. ASSUME IsInjective(q), g \notin ToSet(q) PROVE IsInjective(a)
    <2>1. \A i \in 1 .. Len(q) : q[i] # g BY <1>1, <1>4 DEF ToSet
    <2> QED BY <1>1, <1>2, <1>4, <2>1 DEF IsInjective
  <1> QED BY <1>1, <1>3, <1>4

LEMMA EndEffect ==
  ASSUME MigrateAssumption, MInv, NEW c \in CoreIds, NEW l \in Locals, tcbs[c][l].used,
         record_tcb_zombie(c, l)
  PROVE  /\ Write(c, l, NoTcb)
         /\ directory' \in [Gids -> Entry] /\ rings' \in [CoreIds -> Seq(Gids)]
         /\ \E g \in Gids :
              /\ tcbs[c][l].gid = g /\ directory[g].used /\ ~directory'[g].used
              /\ directory[g].core = c /\ directory[g].local = l
              /\ \A h \in Gids : h # g => directory'[h] = directory[h]
              /\ \A d \in CoreIds : d # c => rings'[d] = rings[d]
              /\ rings'[c] \in {rings[c], Append(rings[c], g)}
PROOF
  <1> DEFINE g == tcbs[c][l].gid
  <1>0. Types BY DEF MInv
  <1>1. g \in Gids /\ directory[g] = [used |-> TRUE, gen |-> tcbs[c][l].gen, core |-> c, local |-> l]
    BY DEF MInv, Placed, SlotTrue
  <1>2. Write(c, l, NoTcb) BY <1>0, WriteSlot, Ranges DEF record_tcb_zombie
  <1> DEFINE e == [used |-> FALSE, gen |-> tcbs[c][l].gen + 1, core |-> 0, local |-> 0]
  <1>3. e \in Entry BY <1>0 DEF Types, Tcb, Entry
  <1>4. directory' = [directory EXCEPT ![g] = e] BY DEF record_tcb_zombie
  <1>5. directory' \in [Gids -> Entry] /\ directory'[g] = e
        /\ \A h \in Gids : h # g => directory'[h] = directory[h]
    BY <1>0, <1>1, <1>3, <1>4 DEF Types
  <1>6. PICK z \in {rings[c], Append(rings[c], g)} : rings' = [rings EXCEPT ![c] = z]
    BY DEF record_tcb_zombie
  <1>7. z \in Seq(Gids)
    <2>1. rings[c] \in Seq(Gids) BY <1>0 DEF Types
    <2>2. Append(rings[c], g) \in Seq(Gids) BY <1>1, <2>1, AppendRing
    <2> QED BY <1>6, <2>1, <2>2
  <1>8. rings' \in [CoreIds -> Seq(Gids)] /\ rings'[c] = z
        /\ \A d \in CoreIds : d # c => rings'[d] = rings[d]
    BY <1>0, <1>6, <1>7 DEF Types
  <1>9. directory[g].used /\ ~directory'[g].used /\ directory[g].core = c /\ directory[g].local = l
    BY <1>1, <1>5
  <1> HIDE DEF g, e
  <1> QED BY <1>1, <1>2, <1>5, <1>6, <1>8, <1>9 DEF g

\* The thread of slot l on core c has ended: who is left is where the directory says.
LEMMA EndPlaced ==
  ASSUME MigrateAssumption, MInv, NEW c \in CoreIds, NEW l \in Locals, tcbs[c][l].used,
         record_tcb_zombie(c, l),
         \/ l = current[c] /\ current' = [current EXCEPT ![c] = Nowhere]
         \/ l # current[c] /\ UNCHANGED current
  PROVE  Placed' /\ current' \in [CoreIds -> Locals \cup {Nowhere}]
PROOF
  <1>0. Types BY DEF MInv
  <1>1. PICK g \in Gids :
              /\ tcbs[c][l].gid = g /\ directory[g].used /\ ~directory'[g].used
              /\ directory[g].core = c /\ directory[g].local = l
              /\ \A h \in Gids : h # g => directory'[h] = directory[h]
    BY EndEffect
  <1>2. Write(c, l, NoTcb) BY EndEffect
  <1>3. \A d \in CoreIds, m \in Locals : SlotTrue(d, m)'
    <2> SUFFICES ASSUME NEW d \in CoreIds, NEW m \in Locals PROVE SlotTrue(d, m)' OBVIOUS
    <2>1. CASE d = c /\ m = l BY <1>2, <2>1, Ranges DEF Write, SlotTrue
    <2>2. CASE d # c \/ m # l
      <3>1. tcbs'[d][m] = tcbs[d][m] BY <1>2, <2>2 DEF Write
      <3>2. SlotTrue(d, m) BY DEF MInv, Placed
      <3>3. tcbs[d][m].used => tcbs[d][m].gid # g BY <1>1, <2>2, Apart
      <3> QED BY <1>1, <3>1, <3>2, <3>3 DEF SlotTrue
    <2> QED BY <2>1, <2>2
  <1>4. \A h \in Gids : EntryTrue(h)'
    <2> SUFFICES ASSUME NEW h \in Gids PROVE EntryTrue(h)' OBVIOUS
    <2>1. CASE h = g BY <1>1, <2>1 DEF EntryTrue
    <2>2. CASE h # g
      <3>1. directory'[h] = directory[h] /\ EntryTrue(h) BY <1>1, <2>2 DEF MInv, Placed
      <3>2. ASSUME directory[h].used PROVE directory[h].core # c \/ directory[h].local # l
        BY <1>1, <2>2, <3>1, <3>2 DEF EntryTrue
      <3> QED BY <1>2, <3>1, <3>2 DEF EntryTrue, Write
    <2> QED BY <2>1, <2>2
  <1>5. current' \in [CoreIds -> Locals \cup {Nowhere}] BY <1>0 DEF Types
  <1>6. \A d \in CoreIds : current'[d] # Nowhere => tcbs'[d][current'[d]].used
    <2> SUFFICES ASSUME NEW d \in CoreIds, current'[d] # Nowhere PROVE tcbs'[d][current'[d]].used
      OBVIOUS
    <2>1. current'[d] = current[d] /\ (d # c \/ current[d] # l) BY <1>0 DEF Types
    <2>2. current[d] \in Locals /\ tcbs[d][current[d]].used
      BY <1>0, <2>1 DEF Types, MInv, Placed
    <2> QED BY <1>2, <2>1, <2>2 DEF Write
  <1> QED BY <1>3, <1>4, <1>5, <1>6 DEF Placed

\* ... and its number is in the ring of its core, or nowhere.
LEMMA EndNumbers ==
  ASSUME MigrateAssumption, MInv, NEW c \in CoreIds, NEW l \in Locals, tcbs[c][l].used,
         record_tcb_zombie(c, l), UNCHANGED <<gid_free, reaped>>
  PROVE  Numbers'
PROOF
  <1>0. Types /\ Numbers BY DEF MInv
  <1>1. PICK g \in Gids :
              /\ tcbs[c][l].gid = g /\ directory[g].used /\ ~directory'[g].used
              /\ \A h \in Gids : h # g => directory'[h] = directory[h]
              /\ \A d \in CoreIds : d # c => rings'[d] = rings[d]
              /\ rings'[c] \in {rings[c], Append(rings[c], g)}
    BY EndEffect
  <1>2. rings[c] \in Seq(Gids) BY <1>0 DEF Types
  <1>3. \A d \in CoreIds : ~Ring(g, d) BY <1>0, <1>1 DEF Numbers, Once, Alive
  <1>4. ToSet(rings'[c]) \subseteq ToSet(rings[c]) \cup {g} BY <1>1, <1>2, AppendRing
  <1>5. \A h \in Gids, d \in CoreIds : Ring(h, d)' => Ring(h, d) \/ (h = g /\ d = c)
    BY <1>1, <1>4 DEF Ring
  <1>6. \A h \in Gids : Once(h)'
    <2> SUFFICES ASSUME NEW h \in Gids PROVE Once(h)' OBVIOUS
    <2>1. Once(h) BY <1>0 DEF Numbers
    <2>2. CASE h = g BY <1>1, <1>3, <1>5, <2>1, <2>2 DEF Once, Free, Alive
    <2>3. CASE h # g
      <3>1. directory'[h] = directory[h] BY <1>1, <2>3
      <3> QED BY <1>5, <2>1, <2>3, <3>1 DEF Once, Free, Alive
    <2> QED BY <2>2, <2>3
  <1>7. \A d \in CoreIds : IsInjective(rings'[d])
    <2>1. \A d \in CoreIds : IsInjective(rings[d]) BY <1>0 DEF Numbers
    <2>2. IsInjective(Append(rings[c], g)) BY <1>2, <1>3, <2>1, AppendRing DEF Ring
    <2> QED BY <1>1, <2>1, <2>2
  <1> QED BY <1>6, <1>7 DEF Numbers

-----------------------------------------------------------------------------
(* Threads that move: the steps of a core                                  *)

LEMMA SpawnInv == ASSUME MigrateAssumption, MInv, NEW c \in CoreIds, Spawn(c) PROVE MInv'
PROOF
  <1>0. Types /\ Named /\ Numbers BY DEF MInv
  <1>1. PICK g \in Gids, l \in Locals :
              /\ g \in gid_free /\ ~tcbs[c][l].used
              /\ tcbs' = [tcbs EXCEPT ![c][l] = [NoTcb EXCEPT !.used = TRUE, !.gid = g, !.ready = TRUE,
                                                              !.gen = directory[g].gen]]
              /\ directory' = [directory EXCEPT ![g] = [used |-> TRUE, gen |-> directory[g].gen,
                                                        core |-> c, local |-> l]]
              /\ gid_free' = gid_free \ {g}
    <2> DEFINE l == CHOOSE f \in FreeLocals(c) : TRUE
    <2>1. l \in FreeLocals(c) BY DEF Spawn
    <2>2. l \in Locals /\ ~tcbs[c][l].used BY <2>1 DEF FreeLocals
    <2>3. PICK g \in {h \in gid_free : directory[h].gen <= GenBound} :
              /\ tcbs' = [tcbs EXCEPT ![c][l] = [NoTcb EXCEPT !.used = TRUE, !.gid = g, !.ready = TRUE,
                                                              !.gen = directory[g].gen]]
              /\ directory' = [directory EXCEPT ![g] = [used |-> TRUE, gen |-> directory[g].gen,
                                                        core |-> c, local |-> l]]
              /\ gid_free' = gid_free \ {g}
      BY DEF Spawn
    <2> HIDE DEF l
    <2> QED BY <1>0, <2>2, <2>3 DEF Types
  <1> DEFINE t == [NoTcb EXCEPT !.used = TRUE, !.gid = g, !.ready = TRUE, !.gen = directory[g].gen]
             e == [used |-> TRUE, gen |-> directory[g].gen, core |-> c, local |-> l]
  <1>2. t \in Tcb /\ t.used /\ t.gid = g /\ t.gen = directory[g].gen
    BY <1>0 DEF Types, Tcb, NoTcb, Entry
  <1>3. e \in Entry BY <1>0 DEF Types, Entry
  <1>4. Write(c, l, t) BY <1>0, <1>1, <1>2, WriteSlot
  <1>5. directory' \in [Gids -> Entry] /\ directory'[g] = e
        /\ \A h \in Gids : h # g => directory'[h] = directory[h]
    BY <1>0, <1>1, <1>3 DEF Types
  <1>6. UNCHANGED <<current, rings, reaped, pick, call>> BY DEF Spawn
  <1> HIDE DEF t, e
  <1>7. ~directory[g].used /\ g \notin reaped /\ \A d \in CoreIds : ~Ring(g, d)
    BY <1>0, <1>1 DEF Numbers, Once, Free, Alive
  <1>8. \A d \in CoreIds, m \in Locals : tcbs[d][m].used => tcbs[d][m].gid # g
    BY <1>7, Found
  <1>9. Placed'
    <2>1. \A d \in CoreIds, m \in Locals : SlotTrue(d, m)'
      <3> SUFFICES ASSUME NEW d \in CoreIds, NEW m \in Locals PROVE SlotTrue(d, m)' OBVIOUS
      <3>1. CASE d = c /\ m = l
        <4>1. tcbs'[c][l] = t BY <1>4 DEF Write
        <4> QED BY <1>2, <1>5, <3>1, <4>1 DEF SlotTrue, e
      <3>2. CASE d # c \/ m # l
        <4>1. tcbs'[d][m] = tcbs[d][m] /\ SlotTrue(d, m) BY <1>4, <3>2 DEF Write, MInv, Placed
        <4> QED BY <1>5, <1>8, <4>1 DEF SlotTrue
      <3> QED BY <3>1, <3>2
    <2>2. \A h \in Gids : EntryTrue(h)'
      <3> SUFFICES ASSUME NEW h \in Gids PROVE EntryTrue(h)' OBVIOUS
      <3>1. CASE h = g BY <1>2, <1>4, <1>5, <3>1 DEF EntryTrue, Write, e
      <3>2. CASE h # g
        <4>1. directory'[h] = directory[h] /\ EntryTrue(h) BY <1>5, <3>2 DEF MInv, Placed
        <4> QED BY <1>1, <1>4, <4>1 DEF EntryTrue, Write
      <3> QED BY <3>1, <3>2
    <2>3. \A d \in CoreIds : current'[d] # Nowhere => tcbs'[d][current'[d]].used
      <3> SUFFICES ASSUME NEW d \in CoreIds, current[d] # Nowhere PROVE tcbs'[d][current[d]].used
        BY <1>6
      <3>1. current[d] \in Locals /\ tcbs[d][current[d]].used BY <1>0 DEF Types, MInv, Placed
      <3> QED BY <1>1, <1>4, <3>1 DEF Write
    <2> QED BY <2>1, <2>2, <2>3 DEF Placed
  <1>10. Numbers'
    <2>1. \A h \in Gids : Once(h)'
      <3> SUFFICES ASSUME NEW h \in Gids PROVE Once(h)' OBVIOUS
      <3>1. Once(h) /\ (h # g => directory'[h] = directory[h]) BY <1>0, <1>5 DEF Numbers
      <3> QED BY <1>1, <1>6, <1>7, <3>1 DEF Once, Free, Alive, Ring
    <2> QED BY <1>0, <1>6, <2>1 DEF Numbers
  <1>11. Types' BY <1>0, <1>1, <1>4, <1>5, <1>6 DEF Types, Write
  <1>12. Named' BY <1>0, <1>6 DEF Named
  <1> QED BY <1>9, <1>10, <1>11, <1>12 DEF MInv

LEMMA DispatchInv == ASSUME MigrateAssumption, MInv, NEW c \in CoreIds, Dispatch(c) PROVE MInv'
PROOF
  <1>0. Types /\ Named /\ Numbers BY DEF MInv
  <1>1. PICK n \in Locals :
              /\ tcbs[c][n].ready /\ current' = [current EXCEPT ![c] = n]
              /\ tcbs' = [tcbs EXCEPT ![c] = [l \in Locals |->
                            IF l = n THEN [tcbs[c][l] EXCEPT !.ready = FALSE]
                            ELSE IF l = current[c] THEN [tcbs[c][l] EXCEPT !.ready = TRUE]
                            ELSE tcbs[c][l]]]
    BY DEF Dispatch
  <1>2. UNCHANGED <<directory, gid_free, rings, reaped, pick, call>> BY DEF Dispatch
  <1> DEFINE row == [l \in Locals |->
                       IF l = n THEN [tcbs[c][l] EXCEPT !.ready = FALSE]
                       ELSE IF l = current[c] THEN [tcbs[c][l] EXCEPT !.ready = TRUE]
                       ELSE tcbs[c][l]]
  <1>3. \A l \in Locals : tcbs[c][l] \in Tcb BY <1>0 DEF Types
  <1>4. row \in [Locals -> Tcb] BY <1>3 DEF Tcb
  <1>5. tcbs[c][n].used BY <1>1, Found
  <1>6. current' \in [CoreIds -> Locals \cup {Nowhere}] BY <1>0, <1>1 DEF Types
  <1>7. current[c] # Nowhere => tcbs[c][current[c]].used BY DEF MInv, Placed
  <1>8. \A l \in Locals : /\ row[l].used = tcbs[c][l].used /\ row[l].gid = tcbs[c][l].gid
                          /\ row[l].gen = tcbs[c][l].gen
                          /\ ~tcbs[c][l].used => row[l] = tcbs[c][l]
    <2> SUFFICES ASSUME NEW l \in Locals
                 PROVE  /\ row[l].used = tcbs[c][l].used /\ row[l].gid = tcbs[c][l].gid
                        /\ row[l].gen = tcbs[c][l].gen
                        /\ ~tcbs[c][l].used => row[l] = tcbs[c][l]
      OBVIOUS
    <2>1. CASE l = n BY <1>3, <1>5, <2>1 DEF Tcb
    <2>2. CASE l # n /\ l = current[c] BY <1>3, <1>7, <2>2, Ranges DEF Tcb
    <2>3. CASE l # n /\ l # current[c] BY <2>3
    <2> QED BY <2>1, <2>2, <2>3
  <1> HIDE DEF row
  <1>9. tcbs' = [tcbs EXCEPT ![c] = row] BY <1>1 DEF row
  <1>10. SameThreads BY <1>0, <1>4, <1>8, <1>9 DEF Types, SameThreads
  <1>11. \A d \in CoreIds : current'[d] # Nowhere => tcbs[d][current'[d]].used
    BY <1>0, <1>1, <1>5 DEF Types, MInv, Placed
  <1>12. Placed' BY <1>2, <1>6, <1>10, <1>11, FlagsPlaced
  <1>13. Numbers' BY <1>2, SameNumbers
  <1>14. Types' BY <1>0, <1>2, <1>6, <1>10 DEF Types, SameThreads
  <1>15. Named' BY <1>0, <1>2 DEF Named
  <1> QED BY <1>12, <1>13, <1>14, <1>15 DEF MInv

LEMMA ParkInv == ASSUME MigrateAssumption, MInv, NEW c \in CoreIds, Park(c) PROVE MInv'
PROOF
  <1>0. Types /\ Named /\ Numbers BY DEF MInv
  <1> DEFINE l == current[c]
  <1>1. UNCHANGED <<directory, gid_free, rings, reaped, pick, call>> BY DEF Park
  <1>2. l \in Locals /\ tcbs[c][l].used /\ tcbs[c][l] \in Tcb
    BY <1>0 DEF Park, Types, MInv, Placed
  <1>3. \/ tcbs' = [tcbs EXCEPT ![c][l].wake = FALSE] /\ UNCHANGED current
        \/ tcbs' = [tcbs EXCEPT ![c][l].parked = TRUE] /\ current' = [current EXCEPT ![c] = Nowhere]
    BY DEF Park
  <1> HIDE DEF l
  <1>4. PICK t \in Tcb : /\ t.used = tcbs[c][l].used /\ t.gid = tcbs[c][l].gid /\ t.gen = tcbs[c][l].gen
                         /\ tcbs' = [tcbs EXCEPT ![c][l] = t]
    <2>1. CASE tcbs' = [tcbs EXCEPT ![c][l].wake = FALSE]
      <3> DEFINE t == [tcbs[c][l] EXCEPT !.wake = FALSE]
      <3>1. t \in Tcb /\ t.used = tcbs[c][l].used /\ t.gid = tcbs[c][l].gid /\ t.gen = tcbs[c][l].gen
        BY <1>2 DEF Tcb
      <3>2. tcbs' = [tcbs EXCEPT ![c][l] = t] BY <2>1
      <3> HIDE DEF t
      <3> QED BY <3>1, <3>2
    <2>2. CASE tcbs' = [tcbs EXCEPT ![c][l].parked = TRUE]
      <3> DEFINE t == [tcbs[c][l] EXCEPT !.parked = TRUE]
      <3>1. t \in Tcb /\ t.used = tcbs[c][l].used /\ t.gid = tcbs[c][l].gid /\ t.gen = tcbs[c][l].gen
        BY <1>2 DEF Tcb
      <3>2. tcbs' = [tcbs EXCEPT ![c][l] = t] BY <2>2
      <3> HIDE DEF t
      <3> QED BY <3>1, <3>2
    <2> QED BY <1>3, <2>1, <2>2
  <1>5. Write(c, l, t) BY <1>0, <1>2, <1>4, WriteSlot
  <1>6. SameThreads BY <1>2, <1>4, <1>5 DEF SameThreads, Write
  <1>7. /\ current' \in [CoreIds -> Locals \cup {Nowhere}]
        /\ \A d \in CoreIds : current'[d] # Nowhere => tcbs[d][current'[d]].used
    BY <1>0, <1>3 DEF Types, MInv, Placed
  <1>8. Placed' BY <1>1, <1>6, <1>7, FlagsPlaced
  <1>9. Numbers' BY <1>1, SameNumbers
  <1>10. Types' BY <1>0, <1>1, <1>6, <1>7 DEF Types, SameThreads
  <1>11. Named' BY <1>0, <1>1 DEF Named
  <1> QED BY <1>8, <1>9, <1>10, <1>11 DEF MInv

LEMMA ExitInv == ASSUME MigrateAssumption, MInv, NEW c \in CoreIds, Exit(c) PROVE MInv'
PROOF
  <1>0. Types /\ Named BY DEF MInv
  <1> DEFINE l == current[c]
  <1>1. l \in Locals /\ tcbs[c][l].used BY <1>0 DEF Exit, Types, MInv, Placed
  <1>2. record_tcb_zombie(c, l) /\ current' = [current EXCEPT ![c] = Nowhere]
        /\ UNCHANGED <<gid_free, reaped, pick, call>>
    BY DEF Exit
  <1>3. Placed' /\ current' \in [CoreIds -> Locals \cup {Nowhere}] BY <1>1, <1>2, EndPlaced
  <1> HIDE DEF l
  <1>4. Numbers' BY <1>1, <1>2, EndNumbers
  <1>5. Types'
    <2>1. Write(c, l, NoTcb) /\ directory' \in [Gids -> Entry] /\ rings' \in [CoreIds -> Seq(Gids)]
      BY <1>1, <1>2, EndEffect
    <2> QED BY <1>0, <1>2, <1>3, <2>1 DEF Types, Write
  <1>6. Named' BY <1>0, <1>2 DEF Named
  <1> QED BY <1>3, <1>4, <1>5, <1>6 DEF MInv

LEMMA ReapRingInv == ASSUME MigrateAssumption, MInv, NEW c \in CoreIds, Reap(c) PROVE MInv'
PROOF
  <1>0. Types /\ Named /\ Placed /\ Numbers BY DEF MInv
  <1>1. /\ reaped' = reaped \cup ToSet(rings[c]) /\ rings' = [rings EXCEPT ![c] = <<>>]
        /\ UNCHANGED <<tcbs, current, directory, gid_free, pick, call>>
    BY DEF Reap
  <1>2. ToSet(rings[c]) \subseteq Gids BY <1>0 DEF Types, ToSet
  <1>3. rings' \in [CoreIds -> Seq(Gids)] /\ rings'[c] = <<>>
        /\ \A d \in CoreIds : d # c => rings'[d] = rings[d]
    BY <1>0, <1>1 DEF Types
  <1>4. ToSet(<<>>) = {} /\ IsInjective(<<>>) BY DEF ToSet, IsInjective
  <1>5. \A g \in Gids, d \in CoreIds : Ring(g, d)' => Ring(g, d) /\ d # c BY <1>3, <1>4 DEF Ring
  <1>6. \A g \in Gids : Once(g)'
    <2> SUFFICES ASSUME NEW g \in Gids PROVE Once(g)' OBVIOUS
    <2>1. Once(g) BY <1>0 DEF Numbers
    <2>2. g \in reaped' => g \in reaped \/ Ring(g, c) BY <1>1 DEF Ring
    <2>3. (Free(g)' <=> Free(g)) /\ (Alive(g)' <=> Alive(g)) BY <1>1 DEF Free, Alive
    <2> QED BY <1>5, <2>1, <2>2, <2>3 DEF Once
  <1>7. Numbers' BY <1>0, <1>3, <1>4, <1>6 DEF Numbers
  <1>8. Types' BY <1>0, <1>1, <1>2, <1>3 DEF Types
  <1>9. Named' /\ Placed' BY <1>0, <1>1 DEF Named, Placed, SlotTrue, EntryTrue
  <1> QED BY <1>7, <1>8, <1>9 DEF MInv

LEMMA ReleaseReapedInv == ASSUME MInv, NEW g \in Gids, release_reaped_gid(g) PROVE MInv'
PROOF
  <1>0. Types /\ Named /\ Placed /\ Numbers BY DEF MInv
  <1>1. /\ g \in reaped /\ reaped' = reaped \ {g} /\ gid_free' = gid_free \cup {g}
        /\ UNCHANGED <<tcbs, current, directory, rings, pick, call>>
    BY DEF release_reaped_gid
  <1>2. \A h \in Gids : Once(h)'
    <2> SUFFICES ASSUME NEW h \in Gids PROVE Once(h)' OBVIOUS
    <2>1. Once(h) BY <1>0 DEF Numbers
    <2> QED BY <1>1, <2>1 DEF Once, Free, Alive, Ring
  <1>3. Numbers' BY <1>0, <1>1, <1>2 DEF Numbers
  <1>4. Types' BY <1>0, <1>1 DEF Types
  <1>5. Named' /\ Placed' BY <1>0, <1>1 DEF Named, Placed, SlotTrue, EntryTrue
  <1> QED BY <1>3, <1>4, <1>5 DEF MInv

LEMMA BalanceInv == ASSUME MigrateAssumption, MInv, NEW c \in CoreIds, balance_once(c) PROVE MInv'
PROOF
  <1>0. Types /\ Named /\ Placed /\ Numbers BY DEF MInv
  <1>1. PICK d \in CoreIds \ {c}, l \in Locals :
              /\ tcbs[c][l].ready /\ pick' = [pick EXCEPT ![c] = [tid |-> tid(tcbs[c][l]), dst |-> d]]
    BY DEF balance_once
  <1>2. UNCHANGED <<tcbs, current, directory, gid_free, rings, reaped, call>> BY DEF balance_once
  <1>3. tid(tcbs[c][l]) \in Tid /\ tid(tcbs[c][l]).slot \in Gids
    BY <1>0, <1>1, Found DEF Types, Tcb, Tid, tid
  <1>4. pick' \in [CoreIds -> [tid : Tid, dst : CoreIds \cup {Nowhere}]] BY <1>0, <1>1, <1>3 DEF Types
  <1>5. pick'[c].tid.slot \in Gids /\ pick'[c].dst = d /\ \A e \in CoreIds : e # c => pick'[e] = pick[e]
    BY <1>0, <1>1, <1>3 DEF Types
  <1>6. Named' BY <1>0, <1>1, <1>2, <1>5 DEF Named
  <1>7. Types' BY <1>0, <1>2, <1>4 DEF Types
  <1>8. Placed' /\ Numbers'
    BY <1>0, <1>2 DEF Placed, SlotTrue, EntryTrue, Numbers, Once, Free, Alive, Ring
  <1> QED BY <1>6, <1>7, <1>8 DEF MInv

\* What the directory resolves is in its slot, under its number.
LEMMA Resolved ==
  ASSUME MigrateAssumption, MInv, NEW c \in CoreIds, NEW id \in Tid, id.slot \in Gids,
         resolve(c, id) # Nowhere
  PROVE  /\ resolve(c, id) \in Locals /\ tcbs[c][resolve(c, id)].used
         /\ tcbs[c][resolve(c, id)].gid = id.slot /\ tcbs[c][resolve(c, id)].gen = id.gen
PROOF
  <1> DEFINE e == directory[id.slot]
  <1>1. /\ e.used /\ e.gen = id.gen /\ e.core = c /\ resolve(c, id) = e.local
        /\ tcbs[c][e.local].used /\ tcbs[c][e.local].gen = id.gen
    BY DEF resolve
  <1>2. EntryTrue(id.slot) BY DEF MInv, Placed
  <1> QED BY <1>1, <1>2 DEF EntryTrue

\* A thread moves from slot l of core c to slot n of core d, and the directory follows.
LEMMA MoveEffect ==
  ASSUME MigrateAssumption, MInv, NEW c \in CoreIds, NEW l \in Locals, NEW d \in CoreIds, NEW n \in Locals,
         c # d, tcbs[c][l].used, ~tcbs[d][n].used, attach_migrated(d, n, tcbs[c][l])
  PROVE  /\ tcbs' \in [CoreIds -> [Locals -> Tcb]] /\ directory' \in [Gids -> Entry]
         /\ tcbs'[d][n] = tcbs[c][l] /\ tcbs'[c][l] = NoTcb
         /\ \A e \in CoreIds, m \in Locals :
              (e # c \/ m # l) /\ (e # d \/ m # n) => tcbs'[e][m] = tcbs[e][m]
         /\ directory'[tcbs[c][l].gid] =
              [used |-> TRUE, gen |-> tcbs[c][l].gen, core |-> d, local |-> n]
         /\ \A g \in Gids : g # tcbs[c][l].gid => directory'[g] = directory[g]
PROOF
  <1> DEFINE t == tcbs[c][l]
             g == t.gid
  <1>0. Types BY DEF MInv
  <1>1. \A e \in CoreIds, m \in Locals : tcbs[e][m] = t => e = c /\ m = l BY Apart
  <1>2. t \in Tcb /\ t.used BY <1>0 DEF Types
  <1>3. /\ tcbs' = [e \in CoreIds |-> IF e = d THEN [tcbs[e] EXCEPT ![n] = t]
                              ELSE [m \in Locals |-> IF tcbs[e][m] = t THEN NoTcb ELSE tcbs[e][m]]]
        /\ directory' = [directory EXCEPT ![g].core = d, ![g].local = n]
    BY DEF attach_migrated
  <1>4. g \in Gids /\ directory[g] = [used |-> TRUE, gen |-> t.gen, core |-> c, local |-> l]
    BY DEF MInv, Placed, SlotTrue
  <1> HIDE DEF t, g
  <1>5. tcbs'[d] = [tcbs[d] EXCEPT ![n] = t]
        /\ \A e \in CoreIds : e # d =>
             tcbs'[e] = [m \in Locals |-> IF tcbs[e][m] = t THEN NoTcb ELSE tcbs[e][m]]
    BY <1>3
  <1>6. tcbs'[d][n] = t /\ \A m \in Locals : m # n => tcbs'[d][m] = tcbs[d][m]
    BY <1>0, <1>5 DEF Types
  <1>7. tcbs'[c][l] = NoTcb BY <1>5 DEF t
  <1>8. \A e \in CoreIds, m \in Locals : e # d /\ (e # c \/ m # l) => tcbs'[e][m] = tcbs[e][m]
    <2> SUFFICES ASSUME NEW e \in CoreIds, NEW m \in Locals, e # d, e # c \/ m # l
                 PROVE  tcbs'[e][m] = tcbs[e][m]
      OBVIOUS
    <2>1. tcbs[e][m] # t BY <1>1
    <2>2. tcbs'[e] = [k \in Locals |-> IF tcbs[e][k] = t THEN NoTcb ELSE tcbs[e][k]] BY <1>5
    <2> QED BY <2>1, <2>2
  <1>9. \A e \in CoreIds : tcbs'[e] \in [Locals -> Tcb]
    <2> SUFFICES ASSUME NEW e \in CoreIds PROVE tcbs'[e] \in [Locals -> Tcb] OBVIOUS
    <2>1. tcbs[e] \in [Locals -> Tcb] BY <1>0 DEF Types
    <2>2. CASE e = d BY <1>2, <1>5, <2>1, <2>2
    <2>3. CASE e # d
      <3>1. tcbs'[e] = [m \in Locals |-> IF tcbs[e][m] = t THEN NoTcb ELSE tcbs[e][m]]
        BY <1>5, <2>3
      <3>2. \A m \in Locals : tcbs[e][m] \in Tcb BY <2>1
      <3> QED BY <3>1, <3>2, Ranges
    <2> QED BY <2>2, <2>3
  <1>10. tcbs' \in [CoreIds -> [Locals -> Tcb]] BY <1>3, <1>9
  <1> DEFINE r == [used |-> TRUE, gen |-> t.gen, core |-> d, local |-> n]
  <1>11. directory' = [directory EXCEPT ![g] = r]
    <2> DEFINE s == [directory[g] EXCEPT !.core = d, !.local = n]
    <2>0. directory[g] \in Entry BY <1>0, <1>4 DEF Types
    <2>1. s \in Entry BY <2>0 DEF Entry
    <2>3. s.used = r.used /\ s.gen = r.gen /\ s.core = r.core /\ s.local = r.local
      BY <1>4, <2>0 DEF Entry
    <2>4. r \in Entry BY <1>2 DEF Entry, Tcb
    <2>5. s = r BY <2>1, <2>3, <2>4 DEF Entry
    <2>2. directory' = [directory EXCEPT ![g] = [directory[g] EXCEPT !.core = d, !.local = n]]
      BY <1>0, <1>3, <1>4 DEF Types
    <2> QED BY <2>2, <2>5
  <1>12. r \in Entry BY <1>2 DEF Entry, Tcb
  <1>13. directory' \in [Gids -> Entry] /\ directory'[g] = r
         /\ \A h \in Gids : h # g => directory'[h] = directory[h]
    BY <1>0, <1>4, <1>11, <1>12 DEF Types
  <1> QED BY <1>6, <1>7, <1>8, <1>10, <1>13 DEF t, g

LEMMA MovePlaced ==
  ASSUME MigrateAssumption, MInv, NEW c \in CoreIds, NEW l \in Locals, NEW d \in CoreIds, NEW n \in Locals,
         c # d, tcbs[c][l].used, ~tcbs[d][n].used, attach_migrated(d, n, tcbs[c][l]),
         l # current[c], UNCHANGED current
  PROVE  Placed' /\ \A g \in Gids : directory'[g].used = directory[g].used
PROOF
  <1> DEFINE g == tcbs[c][l].gid
  <1>0. Types BY DEF MInv
  <1>1. /\ tcbs'[d][n] = tcbs[c][l] /\ tcbs'[c][l] = NoTcb
        /\ \A e \in CoreIds, m \in Locals :
             (e # c \/ m # l) /\ (e # d \/ m # n) => tcbs'[e][m] = tcbs[e][m]
        /\ directory'[g] = [used |-> TRUE, gen |-> tcbs[c][l].gen, core |-> d, local |-> n]
        /\ \A h \in Gids : h # g => directory'[h] = directory[h]
    BY MoveEffect
  <1>2. g \in Gids /\ directory[g].used /\ directory[g].core = c /\ directory[g].local = l BY Found
  <1>3. \A e \in CoreIds, m \in Locals : tcbs[e][m].used /\ (e # c \/ m # l) => tcbs[e][m].gid # g
    BY Apart
  <1> HIDE DEF g
  <1>4. \A e \in CoreIds, m \in Locals : SlotTrue(e, m)'
    <2> SUFFICES ASSUME NEW e \in CoreIds, NEW m \in Locals PROVE SlotTrue(e, m)' OBVIOUS
    <2>1. CASE e = c /\ m = l BY <1>1, <2>1, Ranges DEF SlotTrue
    <2>2. CASE e = d /\ m = n BY <1>1, <1>2, <2>2 DEF SlotTrue, g
    <2>3. CASE (e # c \/ m # l) /\ (e # d \/ m # n)
      <3>1. tcbs'[e][m] = tcbs[e][m] /\ SlotTrue(e, m) BY <1>1, <2>3 DEF MInv, Placed
      <3> QED BY <1>1, <1>3, <2>3, <3>1 DEF SlotTrue
    <2> QED BY <2>1, <2>2, <2>3
  <1>5. \A h \in Gids : EntryTrue(h)'
    <2> SUFFICES ASSUME NEW h \in Gids PROVE EntryTrue(h)' OBVIOUS
    <2>1. CASE h = g
      <3>1. directory'[h].core = d /\ directory'[h].local = n BY <1>1, <2>1
      <3>2. tcbs'[d][n].used /\ tcbs'[d][n].gid = g BY <1>1 DEF g
      <3> QED BY <2>1, <3>1, <3>2 DEF EntryTrue
    <2>2. CASE h # g
      <3>1. directory'[h] = directory[h] /\ EntryTrue(h) BY <1>1, <2>2 DEF MInv, Placed
      <3>2. ASSUME directory[h].used
            PROVE  /\ directory[h].core # c \/ directory[h].local # l
                   /\ directory[h].core # d \/ directory[h].local # n
        BY <2>2, <3>1, <3>2 DEF EntryTrue, g
      <3> QED BY <1>1, <3>1, <3>2 DEF EntryTrue
    <2> QED BY <2>1, <2>2
  <1>6. \A e \in CoreIds : current'[e] # Nowhere => tcbs'[e][current'[e]].used
    <2> SUFFICES ASSUME NEW e \in CoreIds, current[e] # Nowhere PROVE tcbs'[e][current[e]].used
      OBVIOUS
    <2>1. current[e] \in Locals /\ tcbs[e][current[e]].used BY <1>0 DEF Types, MInv, Placed
    <2>2. (e # c \/ current[e] # l) /\ (e # d \/ current[e] # n) BY <2>1
    <2> QED BY <1>1, <2>1, <2>2
  <1>7. \A h \in Gids : directory'[h].used = directory[h].used
    <2>1. directory'[g].used = TRUE BY <1>1
    <2>2. directory[g].used = TRUE BY <1>0, <1>2 DEF Types, Entry
    <2> QED BY <1>1, <2>1, <2>2
  <1> QED BY <1>4, <1>5, <1>6, <1>7 DEF Placed

LEMMA MigrateInv == ASSUME MigrateAssumption, MInv, NEW c \in CoreIds, migrate_to(c) PROVE MInv'
PROOF
  <1>0. Types /\ Named /\ Placed /\ Numbers BY DEF MInv
  <1> DEFINE id == pick[c].tid
             l == resolve(c, id)
             d == pick[c].dst
  <1>1. pick' = [pick EXCEPT ![c] = NoPick] /\ UNCHANGED <<current, gid_free, rings, reaped, call>>
    BY DEF migrate_to
  <1>2. pick[c] # NoPick /\ id \in Tid /\ id.slot \in Gids /\ d \in CoreIds \ {c}
    BY <1>0 DEF migrate_to, Types, Named
  <1>3. pick' \in [CoreIds -> [tid : Tid, dst : CoreIds \cup {Nowhere}]]
    <2>1. NoPick \in [tid : Tid, dst : CoreIds \cup {Nowhere}] BY DEF NoPick, Tid
    <2> QED BY <1>0, <1>1, <2>1 DEF Types
  <1>4. Named'
    <2>1. pick'[c] = NoPick /\ \A e \in CoreIds : e # c => pick'[e] = pick[e] BY <1>0, <1>1 DEF Types
    <2> QED BY <1>0, <1>1, <2>1 DEF Named
  <1>5. CASE UNCHANGED <<tcbs, directory>>
    <2>1. Types' BY <1>0, <1>1, <1>3, <1>5 DEF Types
    <2>2. Placed' BY <1>0, <1>1, <1>5 DEF Placed, SlotTrue, EntryTrue
    <2>3. Numbers' BY <1>1, <1>5, SameNumbers
    <2> QED BY <1>4, <2>1, <2>2, <2>3 DEF MInv
  <1>6. CASE /\ l # Nowhere /\ l # current[c] /\ FreeLocals(d) # {}
             /\ attach_migrated(d, CHOOSE n \in FreeLocals(d) : TRUE, tcbs[c][l])
    <2>1. PICK n \in FreeLocals(d) : attach_migrated(d, n, tcbs[c][l]) BY <1>6
    <2>2. n \in Locals /\ ~tcbs[d][n].used BY <2>1 DEF FreeLocals
    <2>3. l \in Locals /\ tcbs[c][l].used BY <1>2, <1>6, Resolved
    <2>4. l # current[c] /\ c # d /\ d \in CoreIds BY <1>2, <1>6
    <2> HIDE DEF l, d, id
    <2>5. Placed' /\ \A g \in Gids : directory'[g].used = directory[g].used
      BY <1>1, <2>1, <2>2, <2>3, <2>4, MovePlaced
    <2>6. Numbers' BY <1>1, <2>5, SameNumbers
    <2>7. tcbs' \in [CoreIds -> [Locals -> Tcb]] /\ directory' \in [Gids -> Entry]
      BY <2>1, <2>2, <2>3, <2>4, MoveEffect
    <2>8. Types' BY <1>0, <1>1, <1>3, <2>7 DEF Types
    <2> QED BY <1>4, <2>5, <2>6, <2>8 DEF MInv
  <1> QED BY <1>5, <1>6 DEF migrate_to

-----------------------------------------------------------------------------
(* Threads that move: the steps of with_owner                              *)

\* Only the call of waker w changes.
CallOf(w) == call' \in [Wakers -> Call] /\ \A v \in Wakers : v # w => call'[v] = call[v]

LEMMA OneCall ==
  ASSUME Types, NEW w \in Wakers, NEW k \in Call, call' = [call EXCEPT ![w] = k]
  PROVE  CallOf(w) /\ call'[w] = k
  BY DEF Types, CallOf

LEMMA CallOnly ==
  ASSUME MInv, NEW w \in Wakers, CallOf(w),
         UNCHANGED <<tcbs, current, directory, gid_free, rings, reaped, pick>>,
         call'[w].pc # "idle" => call'[w].tid.slot \in Gids,
         call'[w].pc = "try" => call'[w].core \in CoreIds
  PROVE  MInv'
PROOF
  <1>0. Types /\ Named /\ Placed /\ Numbers BY DEF MInv
  <1>1. Types' BY <1>0 DEF Types, CallOf
  <1>2. Named' BY <1>0 DEF Named, CallOf
  <1>3. Placed' /\ Numbers'
    BY <1>0 DEF Placed, SlotTrue, EntryTrue, Numbers, Once, Free, Alive, Ring
  <1> QED BY <1>1, <1>2, <1>3 DEF MInv

LEMMA OwnerCore ==
  ASSUME MigrateAssumption, MInv, NEW id \in Tid, id.slot \in Gids
  PROVE  owner_core(id) \in CoreIds \cup {Nowhere}
  BY DEF MInv, Placed, EntryTrue, owner_core

LEMMA BeginInv ==
  ASSUME MigrateAssumption, MInv, NEW w \in Wakers, NEW id \in ThreadId, NEW o \in {"unpark", "kill"},
         Begin(w, id, o)
  PROVE  MInv'
PROOF
  <1> DEFINE k == [pc |-> "look", tid |-> id, op |-> o, core |-> Nowhere, tries |-> Retries]
  <1>1. id \in Tid /\ id.slot \in Gids BY DEF ThreadId, Tid, MigrateAssumption
  <1>2. k \in Call BY <1>1 DEF Call, MigrateAssumption
  <1>3. k.pc = "look" /\ k.tid = id OBVIOUS
  <1>4. call' = [call EXCEPT ![w] = k] BY DEF Begin
  <1> HIDE DEF k
  <1>5. CallOf(w) /\ call'[w] = k BY <1>2, <1>4, OneCall DEF MInv
  <1> QED BY <1>1, <1>3, <1>5, CallOnly DEF Begin

LEMMA LookupInv == ASSUME MigrateAssumption, MInv, NEW w \in Wakers, Look(w) PROVE MInv'
PROOF
  <1> DEFINE c == owner_core(call[w].tid)
             p == IF call[w].tries = 0 THEN "gave up" ELSE IF c = Nowhere THEN "failed" ELSE "try"
             k == [call[w] EXCEPT !.core = c, !.pc = p]
  <1>0. call \in [Wakers -> Call] /\ call[w] \in Call BY DEF MInv, Types
  <1>1. call[w].tid \in Tid /\ call[w].tid.slot \in Gids BY <1>0 DEF Call, Look, MInv, Named
  <1>2. c \in CoreIds \cup {Nowhere} BY <1>1, OwnerCore
  <1>3. k \in Call BY <1>0, <1>2 DEF Call
  <1>4. k.tid = call[w].tid /\ k.core = c /\ k.pc = p BY <1>0 DEF Call
  <1>5. call' = [call EXCEPT ![w] = k] BY <1>0 DEF Look
  <1>6. p = "try" => c \in CoreIds BY <1>2
  <1> HIDE DEF k, p, c
  <1>7. CallOf(w) /\ call'[w] = k BY <1>3, <1>5, OneCall DEF MInv
  <1>8. UNCHANGED <<tcbs, current, directory, gid_free, rings, reaped, pick>> BY DEF Look
  <1> QED BY <1>1, <1>4, <1>6, <1>7, <1>8, CallOnly

LEMMA RecheckInv == ASSUME MigrateAssumption, MInv, NEW w \in Wakers, Recheck(w) PROVE MInv'
PROOF
  <1> DEFINE now == owner_core(call[w].tid)
             p == IF now \notin {Nowhere, call[w].core} THEN "look" ELSE "failed"
             k == [call[w] EXCEPT !.pc = p, !.tries = call[w].tries - 1]
  <1>0. call \in [Wakers -> Call] /\ call[w] \in Call BY DEF MInv, Types
  <1>1. call[w].tid \in Tid /\ call[w].tid.slot \in Gids BY <1>0 DEF Call, Recheck, MInv, Named
  <1>2. k \in Call
    <2>1. p \in {"look", "failed"} OBVIOUS
    <2>2. call[w].tries \in Int BY <1>0, Zenon DEF Call
    <2>3. call[w].tries - 1 \in Int BY <2>2
    <2> HIDE DEF p
    <2> QED BY <1>0, <2>1, <2>3 DEF Call
  <1>3. k.tid = call[w].tid /\ k.pc # "try" BY <1>0 DEF Call
  <1>4. call' = [call EXCEPT ![w] = k] BY <1>0 DEF Recheck
  <1> HIDE DEF k, p, now
  <1>5. CallOf(w) /\ call'[w] = k BY <1>2, <1>4, OneCall DEF MInv
  <1> QED BY <1>1, <1>3, <1>5, CallOnly DEF Recheck

LEMMA ReturnInv == ASSUME MigrateAssumption, MInv, NEW w \in Wakers, Return(w) PROVE MInv'
PROOF
  <1>1. NoCall \in Call /\ NoCall.pc = "idle" BY DEF NoCall, Call, Tid
  <1>2. CallOf(w) /\ call'[w] = NoCall BY <1>1, OneCall DEF MInv, Return
  <1> QED BY <1>1, <1>2, CallOnly DEF Return

\* What a try does: it wakes the thread it names, ends it, or finds that it cannot.
Wakes(w, c, l) ==
  /\ UNCHANGED <<directory, rings>> /\ call'[w].pc = "done"
  /\ \E t \in Tcb : /\ t.used = tcbs[c][l].used /\ t.gid = tcbs[c][l].gid /\ t.gen = tcbs[c][l].gen
                    /\ Write(c, l, t)
Ends(w, c, l) == l # current[c] /\ record_tcb_zombie(c, l) /\ call'[w].pc = "done"
Misses(w) == UNCHANGED <<tcbs, directory, rings>> /\ call'[w].pc = "recheck"

LEMMA AttemptEffect ==
  ASSUME MigrateAssumption, MInv, NEW w \in Wakers, Attempt(w)
  PROVE  /\ CallOf(w) /\ call'[w].tid = call[w].tid /\ call[w].tid.slot \in Gids
         /\ UNCHANGED <<current, gid_free, reaped, pick>>
         /\ \/ Misses(w)
            \/ \E c \in CoreIds, l \in Locals :
                 /\ tcbs[c][l].used /\ tid(tcbs[c][l]) = call[w].tid
                 /\ Wakes(w, c, l) \/ Ends(w, c, l)
PROOF
  <1> DEFINE c == call[w].core
             id == call[w].tid
             l == resolve(c, id)
  <1>0. Types /\ call \in [Wakers -> Call] /\ call[w] \in Call BY DEF MInv, Types
  <1>1. c \in CoreIds /\ id \in Tid /\ id.slot \in Gids
    BY <1>0 DEF Call, Attempt, MInv, Named
  <1>2. PICK p \in {"done", "recheck"} : call' = [call EXCEPT ![w].pc = p] BY DEF Attempt
  <1>3. CallOf(w) /\ call'[w].tid = id /\ call'[w].pc = p
    <2> DEFINE k == [call[w] EXCEPT !.pc = p]
    <2>1. k \in Call /\ k.tid = id /\ k.pc = p BY <1>0, <1>2 DEF Call
    <2>2. call' = [call EXCEPT ![w] = k] BY <1>0, <1>2
    <2> HIDE DEF k
    <2>3. CallOf(w) /\ call'[w] = k BY <1>0, <2>1, <2>2, OneCall
    <2> QED BY <2>1, <2>3
  <1>4. UNCHANGED <<current, gid_free, reaped, pick>> BY DEF Attempt
  <1>5. l # Nowhere => l \in Locals /\ tcbs[c][l].used /\ tid(tcbs[c][l]) = id
    <2>1. ASSUME l # Nowhere
          PROVE  /\ l \in Locals /\ tcbs[c][l].used /\ tcbs[c][l].gid = id.slot
                 /\ tcbs[c][l].gen = id.gen
      BY <1>1, <2>1, Resolved
    <2>2. id = [slot |-> id.slot, gen |-> id.gen] BY <1>1 DEF Tid
    <2> QED BY <2>1, <2>2 DEF tid
  <1>6. CASE /\ l # Nowhere
             /\ tcbs' = IF tcbs[c][l].parked
                        THEN [tcbs EXCEPT ![c][l].parked = FALSE, ![c][l].ready = TRUE]
                        ELSE [tcbs EXCEPT ![c][l].wake = TRUE]
             /\ call' = [call EXCEPT ![w].pc = "done"]
             /\ UNCHANGED <<directory, rings>>
    <2>1. tcbs[c] \in [Locals -> Tcb] /\ tcbs[c][l] \in Tcb BY <1>0, <1>1, <1>5, <1>6 DEF Types
    <2>2. PICK t \in Tcb : /\ t.used = tcbs[c][l].used /\ t.gid = tcbs[c][l].gid
                           /\ t.gen = tcbs[c][l].gen /\ tcbs' = [tcbs EXCEPT ![c][l] = t]
      <3>1. CASE tcbs[c][l].parked
        <4> DEFINE t == [tcbs[c][l] EXCEPT !.parked = FALSE, !.ready = TRUE]
        <4>1. t \in Tcb /\ t.used = tcbs[c][l].used /\ t.gid = tcbs[c][l].gid
              /\ t.gen = tcbs[c][l].gen
          BY <2>1 DEF Tcb
        <4>2. tcbs' = [tcbs EXCEPT ![c][l].parked = FALSE, ![c][l].ready = TRUE] BY <1>6, <3>1
        <4>3. tcbs' = [tcbs EXCEPT ![c][l] = t] BY <1>0, <1>1, <1>5, <1>6, <2>1, <4>2 DEF Types
        <4> HIDE DEF t
        <4> QED BY <4>1, <4>3
      <3>2. CASE ~tcbs[c][l].parked
        <4> DEFINE t == [tcbs[c][l] EXCEPT !.wake = TRUE]
        <4>1. t \in Tcb /\ t.used = tcbs[c][l].used /\ t.gid = tcbs[c][l].gid
              /\ t.gen = tcbs[c][l].gen
          BY <2>1 DEF Tcb
        <4>2. tcbs' = [tcbs EXCEPT ![c][l] = t] BY <1>6, <3>2
        <4> HIDE DEF t
        <4> QED BY <4>1, <4>2
      <3> QED BY <3>1, <3>2
    <2>3. Write(c, l, t) BY <1>0, <1>1, <1>5, <1>6, <2>2, WriteSlot
    <2>4. call'[w].pc = "done" BY <1>0, <1>6 DEF Call
    <2>5. Wakes(w, c, l) BY <1>6, <2>2, <2>3, <2>4 DEF Wakes
    <2> QED BY <1>1, <1>3, <1>4, <1>5, <1>6, <2>5
  <1>7. CASE /\ l # Nowhere /\ l # current[c] /\ record_tcb_zombie(c, l)
             /\ call' = [call EXCEPT ![w].pc = "done"]
    <2>1. call'[w].pc = "done" BY <1>0, <1>7 DEF Call
    <2>2. Ends(w, c, l) BY <1>7, <2>1 DEF Ends
    <2> QED BY <1>1, <1>3, <1>4, <1>5, <1>7, <2>2
  <1>8. CASE call' = [call EXCEPT ![w].pc = "recheck"] /\ UNCHANGED <<tcbs, directory, rings>>
    <2>1. call'[w].pc = "recheck" BY <1>0, <1>8 DEF Call
    <2> QED BY <1>1, <1>3, <1>4, <1>8, <2>1 DEF Misses
  <1> QED BY <1>6, <1>7, <1>8 DEF Attempt

LEMMA AttemptInv == ASSUME MigrateAssumption, MInv, NEW w \in Wakers, Attempt(w) PROVE MInv'
PROOF
  <1>0. Types /\ Named /\ Placed /\ Numbers BY DEF MInv
  <1>1. /\ CallOf(w) /\ call'[w].tid = call[w].tid /\ call[w].tid.slot \in Gids
        /\ UNCHANGED <<current, gid_free, reaped, pick>>
    BY AttemptEffect
  <1>2. CASE Misses(w)
    <2>1. call'[w].pc = "recheck" /\ UNCHANGED <<tcbs, directory, rings>> BY <1>2 DEF Misses
    <2> QED BY <1>1, <2>1, CallOnly
  <1>3. ASSUME NEW c \in CoreIds, NEW l \in Locals, tcbs[c][l].used, Wakes(w, c, l) PROVE MInv'
    <2>1. UNCHANGED <<directory, rings>> /\ call'[w].pc = "done" BY <1>3 DEF Wakes
    <2>2. SameThreads BY <1>3 DEF Wakes, Write, SameThreads
    <2>3. /\ current' \in [CoreIds -> Locals \cup {Nowhere}]
          /\ \A d \in CoreIds : current'[d] # Nowhere => tcbs[d][current'[d]].used
      BY <1>0, <1>1 DEF Types, Placed
    <2>4. Placed' BY <2>1, <2>2, <2>3, FlagsPlaced
    <2>5. Numbers' BY <1>1, <2>1, SameNumbers
    <2>6. Types' BY <1>0, <1>1, <2>1, <2>2 DEF Types, SameThreads, CallOf
    <2>7. Named' BY <1>0, <1>1, <2>1 DEF Named, CallOf
    <2> QED BY <2>4, <2>5, <2>6, <2>7 DEF MInv
  <1>4. ASSUME NEW c \in CoreIds, NEW l \in Locals, tcbs[c][l].used, Ends(w, c, l) PROVE MInv'
    <2>1. l # current[c] /\ record_tcb_zombie(c, l) /\ call'[w].pc = "done" BY <1>4 DEF Ends
    <2>2. Placed' BY <1>1, <1>4, <2>1, EndPlaced
    <2>3. Numbers' BY <1>1, <1>4, <2>1, EndNumbers
    <2>4. Write(c, l, NoTcb) /\ directory' \in [Gids -> Entry] /\ rings' \in [CoreIds -> Seq(Gids)]
      BY <1>4, <2>1, EndEffect
    <2>5. Types' BY <1>0, <1>1, <2>4 DEF Types, Write, CallOf
    <2>6. Named' BY <1>0, <1>1, <2>1 DEF Named, CallOf
    <2> QED BY <2>2, <2>3, <2>5, <2>6 DEF MInv
  <1> QED BY <1>2, <1>3, <1>4, AttemptEffect

-----------------------------------------------------------------------------
(* Threads that move: the theorems                                         *)

LEMMA StepInv == ASSUME MigrateAssumption, MInv, [MigrateNext]_migrateVars PROVE MInv'
PROOF
  <1>1. CASE UNCHANGED migrateVars
    BY <1>1 DEF migrateVars, MInv, Types, Named, Placed, SlotTrue, EntryTrue, Numbers, Once, Free, Alive, Ring
  <1>2. CASE MigrateNext
    BY <1>2, SpawnInv, DispatchInv, ParkInv, ExitInv, ReapRingInv, ReleaseReapedInv, BalanceInv, MigrateInv,
       BeginInv, LookupInv, AttemptInv, RecheckInv, ReturnInv DEF MigrateNext
  <1> QED BY <1>1, <1>2

\* The inductive invariant: tables, directory, rings and calls agree in every reachable state.
THEOREM MigrateInvariant == ASSUME MigrateAssumption PROVE MigrateSpec => []MInv
PROOF
  <1>1. MigrateInit => MInv BY MigrateInitInv
  <1>2. MInv /\ [MigrateNext]_migrateVars => MInv' BY StepInv
  <1> QED BY <1>1, <1>2, PTL DEF MigrateSpec

LEMMA ExactFromInv == ASSUME MigrateAssumption, MInv PROVE DirectoryExact
PROOF
  <1> SUFFICES ASSUME NEW g \in Gids
               PROVE  IF directory[g].used
                      THEN /\ Homes(g) = {<<directory[g].core, directory[g].local>>}
                           /\ tcbs[directory[g].core][directory[g].local].gen = directory[g].gen
                      ELSE Homes(g) = {}
    BY DEF DirectoryExact
  <1> DEFINE e == directory[g]
  <1>1. CASE e.used
    <2>1. /\ e.core \in CoreIds /\ e.local \in Locals
          /\ tcbs[e.core][e.local].used /\ tcbs[e.core][e.local].gid = g
      BY <1>1 DEF MInv, Placed, EntryTrue
    <2>2. tcbs[e.core][e.local].gen = e.gen BY <2>1, Found
    <2>3. \A c \in CoreIds, l \in Locals : tcbs[c][l].used /\ tcbs[c][l].gid = g => c = e.core /\ l = e.local
      BY <2>1, Found
    <2>4. Homes(g) = {<<e.core, e.local>>} BY <2>1, <2>3 DEF Homes
    <2> QED BY <1>1, <2>2, <2>4
  <1>2. CASE ~e.used
    <2>1. \A c \in CoreIds, l \in Locals : ~(tcbs[c][l].used /\ tcbs[c][l].gid = g) BY <1>2, Found
    <2>2. Homes(g) = {} BY <2>1 DEF Homes
    <2> QED BY <1>2, <2>2
  <1> QED BY <1>1, <1>2

LEMMA AtMostOne ==
  ASSUME NEW S, \A x, y \in S : x = y
  PROVE  Cardinality(S) <= 1
PROOF
  <1>1. CASE S = {} BY <1>1, FS_EmptySet
  <1>2. CASE S # {}
    <2>1. PICK x \in S : TRUE BY <1>2
    <2>2. S = {x} BY <2>1
    <2>3. Cardinality({x}) = 1 BY FS_Singleton
    <2> QED BY <2>2, <2>3
  <1> QED BY <1>1, <1>2

LEMMA OnceFromInv == ASSUME MInv PROVE GidOnce
PROOF
  <1> SUFFICES ASSUME NEW g \in Gids
               PROVE  LET places == {<<"free", 0>> : x \in gid_free \cap {g}}
                                      \cup {<<"reaped", 0>> : x \in reaped \cap {g}}
                                      \cup {<<"ring", c>> : c \in {d \in CoreIds : g \in ToSet(rings[d])}}
                                      \cup {<<"live", 0>> : x \in {h \in Gids : h = g /\ directory[h].used}}
                      IN Cardinality(places) <= 1 /\ \A c \in CoreIds : IsInjective(rings[c])
    BY DEF GidOnce
  <1> DEFINE A == {<<"free", 0>> : x \in gid_free \cap {g}}
             B == {<<"reaped", 0>> : x \in reaped \cap {g}}
             C == {<<"ring", c>> : c \in {d \in CoreIds : g \in ToSet(rings[d])}}
             D == {<<"live", 0>> : x \in {h \in Gids : h = g /\ directory[h].used}}
  <1>1. Once(g) /\ \A c \in CoreIds : IsInjective(rings[c]) BY DEF MInv, Numbers
  <1>2. \A x \in A : x = <<"free", 0>> /\ Free(g) BY DEF Free
  <1>3. \A x \in B : x = <<"reaped", 0>> /\ g \in reaped OBVIOUS
  <1>4. \A x \in C : \E c \in CoreIds : x = <<"ring", c>> /\ Ring(g, c) BY DEF Ring
  <1>5. \A x \in D : x = <<"live", 0>> /\ Alive(g) BY DEF Alive
  <1> HIDE DEF A, B, C, D
  <1>6. \A x, y \in A \cup B \cup C \cup D : x = y
    BY <1>1, <1>2, <1>3, <1>4, <1>5 DEF Once
  <1>7. Cardinality(A \cup B \cup C \cup D) <= 1 BY <1>6, AtMostOne
  <1> QED BY <1>1, <1>7 DEF A, B, C, D

\* The thread directory and the TCB tables always agree, whatever is spawned, moved, ended and
\* reaped between the look-up of a core and its lock.
THEOREM DirectoryAgrees == ASSUME MigrateAssumption PROVE MigrateSpec => []DirectoryExact
PROOF
  <1>1. MInv => DirectoryExact BY ExactFromInv
  <1> QED BY <1>1, MigrateInvariant, PTL

\* A number of the directory is never in two places: free, live, in a zombie ring or on its way
\* back; so no two threads ever share it.
THEOREM NumbersStayApart == ASSUME MigrateAssumption PROVE MigrateSpec => []GidOnce
PROOF
  <1>1. MInv => GidOnce BY OnceFromInv
  <1> QED BY <1>1, MigrateInvariant, PTL

\* One step of anybody: a try that succeeds has changed the slot of the thread it names, no other.
LEMMA HitStep ==
  ASSUME MigrateAssumption, MInv, MigrateNext, NEW w \in Wakers, call[w].pc = "try", call'[w].pc = "done",
         NEW c \in CoreIds, NEW l \in Locals, tcbs'[c][l] # tcbs[c][l]
  PROVE  tid(tcbs[c][l]) = call[w].tid
PROOF
  <1>0. call \in [Wakers -> Call] BY DEF MInv, Types
  <1>1. Attempt(w)
    <2>1. \A v \in Wakers : v # w =>
            ~(\E id \in ThreadId, op \in {"unpark", "kill"} : Begin(v, id, op)) /\ ~Look(v)
            /\ ~Recheck(v) /\ ~Return(v)
      BY <1>0 DEF Begin, Look, Recheck, Return
    <2>2. ~(\E id \in ThreadId, op \in {"unpark", "kill"} : Begin(w, id, op)) /\ ~Look(w)
          /\ ~Recheck(w) /\ ~Return(w)
      BY DEF Begin, Look, Recheck, Return
    <2>3. \A v \in Wakers : v # w => ~Attempt(v) BY AttemptEffect DEF CallOf
    <2>4. \A d \in CoreIds : ~(Spawn(d) \/ Dispatch(d) \/ Park(d) \/ Exit(d) \/ Reap(d)
                             \/ balance_once(d) \/ migrate_to(d))
      BY DEF Spawn, Dispatch, Park, Exit, Reap, balance_once, migrate_to
    <2>5. \A g \in Gids : ~release_reaped_gid(g) BY DEF release_reaped_gid
    <2> QED BY <2>1, <2>2, <2>3, <2>4, <2>5 DEF MigrateNext
  <1>2. PICK d \in CoreIds, m \in Locals : /\ tcbs[d][m].used /\ tid(tcbs[d][m]) = call[w].tid
                                           /\ (Wakes(w, d, m) \/ Ends(w, d, m))
    BY <1>1, AttemptEffect DEF Misses
  <1>3. \E t : Write(d, m, t)
    <2>1. CASE Wakes(w, d, m) BY <2>1 DEF Wakes
    <2>2. CASE Ends(w, d, m) BY <1>2, <2>2, EndEffect DEF Ends
    <2> QED BY <1>2, <2>1, <2>2
  <1>4. c = d /\ l = m BY <1>3 DEF Write
  <1> QED BY <1>2, <1>4

\* with_owner acts on the thread it was given and on nobody else: not on a successor under the same
\* number, and not on whoever is in the slot the thread has left.
THEOREM WithOwnerHits == ASSUME MigrateAssumption PROVE MigrateSpec => HitsTheNamed
PROOF
  <1> DEFINE Hit == \A w \in Wakers : (call[w].pc = "try" /\ call'[w].pc = "done") =>
                      \A c \in CoreIds, l \in Locals :
                        tcbs'[c][l] # tcbs[c][l] => tid(tcbs[c][l]) = call[w].tid
  <1>1. MInv /\ [MigrateNext]_migrateVars => [Hit]_migrateVars BY HitStep
  <1> QED BY <1>1, MigrateInvariant, PTL DEF MigrateSpec, HitsTheNamed
====
