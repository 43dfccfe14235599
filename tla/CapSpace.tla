------------------------------ MODULE CapSpace ------------------------------
(***************************************************************************)
(* The capability space of crates/caprock-cap/src/space.rs: a table of     *)
(* slots, each holding a capability and its node of the derivation tree    *)
(* (CDT), and a table of reference-counted objects.                        *)
(*                                                                         *)
(* Every operation of the Rust type runs under the kernel's CAPS lock, so  *)
(* an operation is one action here.  The exception is revoke: its loop     *)
(* deletes one leaf per iteration and the model takes one step per         *)
(* iteration (revoking # Null between them), which lets the properties     *)
(* look at the half-dismantled tree as well.  No other operation runs      *)
(* meanwhile, as none can take the lock.                                   *)
(*                                                                         *)
(* An operation that answers with an error leaves the space unchanged and  *)
(* is not a step, except install, which by then has consumed the linear    *)
(* MemoryCap handed to it.                                                 *)
(***************************************************************************)
EXTENDS Naturals, FiniteSets

CONSTANTS NSlots,      \* length of the slot table
          NObjects,    \* length of the object table and of the Finalized buffers
          GenMod,      \* handle generations are compared modulo this (2^32)
          MaxRelease,  \* bound: a slot is released at most this often
          RightBits,   \* the bits of Rights, "WRITE" among them
          Badges,      \* badges a mint may set, 0 among them
          Kinds,       \* the objects the kernel may install
          TypeOf,      \* the ObjectKind variant of a kind
          RegionOf,    \* the physical region of a Memory or Dma kind
          AddrMax      \* the largest physical address (u64::MAX)

Null == 0
Slots == 1..NSlots
Objects == 1..NObjects
Variants == {"Memory", "Dma", "Reply", "Debuggable", "Plain"}
Region == [base : 0..AddrMax, len : 0..AddrMax]

ASSUME TablesAssumption ==
  /\ NSlots \in Nat \ {0} /\ NObjects \in Nat \ {0}
  /\ GenMod \in Nat \ {0} /\ MaxRelease \in Nat /\ AddrMax \in Nat
  /\ "WRITE" \in RightBits
  /\ Badges \subseteq Nat /\ 0 \in Badges
  /\ TypeOf \in [Kinds -> Variants]
  /\ RegionOf \in [Kinds -> Region]

VARIABLES
  slots,     \* slot table; a slot's gen counts its releases, handles see it modulo GenMod
  objects,   \* object table: used, kind, refcount
  owner,     \* who answers for the region of a Memory or Dma kind
  issued,    \* every CapPtr ever returned (held in cspaces, stale ones included)
  revoking,  \* the slot whose revoke is running, or Null
  fin        \* the Finalized report of the running or last delete/revoke

vars == <<slots, objects, owner, issued, revoking, fin>>

RegionKinds == {k \in Kinds : TypeOf[k] \in {"Memory", "Dma"}}

\* Option<PhysRegion>::None; CSUB never produces the empty window.
NoWindow == [base |-> 0, len |-> 0]

EmptySlot(gen) ==
  [used |-> FALSE, gen |-> gen, object |-> Null, rights |-> {}, badge |-> 0,
   window |-> NoWindow, parent |-> Null, first |-> Null, next |-> Null, prev |-> Null]

Slot == [used : BOOLEAN, gen : Nat, object : Objects \cup {Null}, rights : SUBSET RightBits,
         badge : Badges, window : Region, parent : Slots \cup {Null},
         first : Slots \cup {Null}, next : Slots \cup {Null}, prev : Slots \cup {Null}]

Object == [used : BOOLEAN, kind : Kinds \cup {Null}, refcount : Nat]

FinReport == [reply : SUBSET Kinds, dma : SUBSET Kinds, debug : SUBSET Kinds,
              gn : Nat, overflow : BOOLEAN]

NoReport == [reply |-> {}, dma |-> {}, debug |-> {}, gn |-> 0, overflow |-> FALSE]

-----------------------------------------------------------------------------
(* Handles and free entries                                                *)

CapPtr == [slot : Slots, gen : 0..(GenMod - 1)]

ptr(i, sl) == [slot |-> i, gen |-> sl[i].gen % GenMod]

\* resolve: slot in range, used, generation current.
Resolves(p) == slots[p.slot].used /\ slots[p.slot].gen % GenMod = p.gen

\* The caller presents a handle it was given, and it resolves.
Presents(p) == p \in issued /\ Resolves(p)

\* Mutant of FirstFreeSlot: the scan stops at the first entry without children.
FirstFreeSlotLeaf(d) == slots[d].first = Null /\ \A j \in Slots : j < d => slots[j].first # Null

\* free_slot_index and alloc_object_inner take the lowest free entry.
FirstFreeSlot(d) == ~slots[d].used /\ \A j \in Slots : j < d => slots[j].used

FirstFreeObject(o) == ~objects[o].used /\ \A j \in Objects : j < o => objects[j].used

SlotTableFull == \A i \in Slots : slots[i].used

\* The region a capability authorises: its window, or the object's region.
Effective(i) ==
  IF slots[i].window = NoWindow THEN RegionOf[objects[slots[i].object].kind]
                                ELSE slots[i].window

-----------------------------------------------------------------------------
(* Walks over the tree.  The slots a loop over f visits from x are the     *)
(* least set that holds x and is closed under f.                           *)

Closed(f, T) == \A y \in T : f[y] \in T \cup {Null}

Chain(f, x) ==
  IF x = Null THEN {}
  ELSE {c \in Slots : \A T \in SUBSET Slots : x \in T /\ Closed(f, T) => c \in T}

NextOf(sl) == [i \in Slots |-> sl[i].next]
FirstOf(sl) == [i \in Slots |-> sl[i].first]

\* The child list of slot i, as move_cap and count_children walk it.
ChildList(sl, i) == Chain(NextOf(sl), sl[i].first)

\* descend_to_leaf: the end of the first_child chain, if it has one.
Leaf(sl, x) == {l \in Chain(FirstOf(sl), x) : sl[l].first = Null}

-----------------------------------------------------------------------------
(* Table updates                                                           *)

\* alloc_slot: entry d keeps its generation and holds a capability without links.
AllocSlot(sl, d, o, r, b, w) ==
  [sl EXCEPT ![d] =
     [used |-> TRUE, gen |-> sl[d].gen, object |-> o, rights |-> r, badge |-> b, window |-> w,
      parent |-> Null, first |-> Null, next |-> Null, prev |-> Null]]

\* kind_einhaengen: c becomes the head of p's child list.
LinkChild(sl, p, c) ==
  [i \in Slots |->
    [sl[i] EXCEPT !.parent = IF i = c THEN p ELSE @,
                  !.prev   = IF i = c THEN Null ELSE IF i = sl[p].first THEN c ELSE @,
                  !.next   = IF i = c THEN sl[p].first ELSE @,
                  !.first  = IF i = p THEN c ELSE @]]

\* Mutants of Unlink: the next sibling keeps its old prev; the generation is not bumped.
UnlinkHalf(sl, s) ==
  LET m == sl[s] IN
  [i \in Slots |->
    IF i = s THEN EmptySlot(m.gen + 1)
    ELSE [sl[i] EXCEPT !.next  = IF i = m.prev THEN m.next ELSE @,
                       !.first = IF m.prev = Null /\ i = m.parent THEN m.next ELSE @]]
UnlinkSameGen(sl, s) ==
  LET m == sl[s] IN
  [i \in Slots |->
    IF i = s THEN EmptySlot(m.gen)
    ELSE [sl[i] EXCEPT !.next  = IF i = m.prev THEN m.next ELSE @,
                       !.first = IF m.prev = Null /\ i = m.parent THEN m.next ELSE @,
                       !.prev  = IF i = m.next THEN m.prev ELSE @]]

\* unlink followed by release_slot.
Unlink(sl, s) ==
  LET m == sl[s] IN
  [i \in Slots |->
    IF i = s THEN EmptySlot(m.gen + 1)
    ELSE [sl[i] EXCEPT !.next  = IF i = m.prev THEN m.next ELSE @,
                       !.first = IF m.prev = Null /\ i = m.parent THEN m.next ELSE @,
                       !.prev  = IF i = m.next THEN m.prev ELSE @]]

\* Mutants of MoveSlot: only the first child, or no child, learns of its parent's move.
MoveSlotKids(sl, s, d, kids) ==
  LET m == sl[s] IN
  [i \in Slots |->
    IF i = s THEN EmptySlot(m.gen + 1)
    ELSE IF i = d THEN [m EXCEPT !.gen = sl[d].gen]
    ELSE [sl[i] EXCEPT !.next   = IF i = m.prev THEN d ELSE @,
                       !.first  = IF m.prev = Null /\ i = m.parent THEN d ELSE @,
                       !.prev   = IF i = m.next THEN d ELSE @,
                       !.parent = IF i \in kids THEN d ELSE @]]
MoveSlotFirstChild(sl, s, d) == MoveSlotKids(sl, s, d, {sl[s].first})
MoveSlotNoChild(sl, s, d) == MoveSlotKids(sl, s, d, {})

\* The rewiring of move_cap: d takes over s's content and its place in the tree.
MoveSlot(sl, s, d) ==
  LET m == sl[s] IN
  [i \in Slots |->
    IF i = s THEN EmptySlot(m.gen + 1)
    ELSE IF i = d THEN [m EXCEPT !.gen = sl[d].gen]
    ELSE [sl[i] EXCEPT !.next   = IF i = m.prev THEN d ELSE @,
                       !.first  = IF m.prev = Null /\ i = m.parent THEN d ELSE @,
                       !.prev   = IF i = m.next THEN d ELSE @,
                       !.parent = IF i \in ChildList(sl, s) THEN d ELSE @]]

\* Mutant of WindowGranted: only the lengths are compared.
WindowGrantedLen(whole, offset, len) ==
  /\ len # 0
  /\ whole.base + offset + len <= AddrMax
  /\ len <= whole.len

\* teilfenster_rechnen: TRUE when the window is granted, every sum checked.
WindowGranted(whole, offset, len) ==
  /\ len # 0
  /\ whole.base + offset <= AddrMax
  /\ whole.base + offset + len <= AddrMax
  /\ whole.base + whole.len <= AddrMax
  /\ whole.base + offset + len <= whole.base + whole.len

Teilfenster(whole, offset, len) == [base |-> whole.base + offset, len |-> len]

-----------------------------------------------------------------------------
Init ==
  /\ slots = [i \in Slots |-> EmptySlot(0)]
  /\ objects = [o \in Objects |-> [used |-> FALSE, kind |-> Null, refcount |-> 0]]
  /\ owner = [k \in RegionKinds |-> "alloc"]
  /\ issued = {}
  /\ revoking = Null
  /\ fin = NoReport

\* Mutant of Install: the MemoryCap is not linear, a region may be installed again.
InstallTwice(k, r) ==
  \E d \in Slots, o \in Objects :
    /\ revoking = Null
    /\ FirstFreeSlot(d) /\ FirstFreeObject(o)
    /\ slots' = AllocSlot(slots, d, o, r, 0, NoWindow)
    /\ objects' = [objects EXCEPT ![o] = [used |-> TRUE, kind |-> k, refcount |-> 1]]
    /\ owner' = IF k \in RegionKinds THEN [owner EXCEPT ![k] = "caps"] ELSE owner
    /\ issued' = issued \cup {ptr(d, slots')}
    /\ UNCHANGED <<revoking, fin>>

\* install, with free entries in both tables: a fresh object and a root capability.
Install(k, r) ==
  \E d \in Slots, o \in Objects :
    /\ revoking = Null
    /\ k \in RegionKinds => owner[k] = "alloc"
    /\ FirstFreeSlot(d) /\ FirstFreeObject(o)
    /\ slots' = AllocSlot(slots, d, o, r, 0, NoWindow)
    /\ objects' = [objects EXCEPT ![o] = [used |-> TRUE, kind |-> k, refcount |-> 1]]
    /\ owner' = IF k \in RegionKinds THEN [owner EXCEPT ![k] = "caps"] ELSE owner
    /\ issued' = issued \cup {ptr(d, slots')}
    /\ UNCHANGED <<revoking, fin>>

\* install with a table full: the object is rolled back and the consumed region is lost.
InstallFails(k) ==
  /\ revoking = Null
  /\ owner[k] = "alloc"
  /\ SlotTableFull \/ \A o \in Objects : objects[o].used
  /\ owner' = [owner EXCEPT ![k] = "lost"]
  /\ UNCHANGED <<slots, objects, issued, revoking, fin>>

\* Mutant of Derive: the reference is not counted.
DeriveUncounted(s, r, b, w) ==
  \E d \in Slots :
    /\ FirstFreeSlot(d)
    /\ slots' = LinkChild(AllocSlot(slots, d, slots[s].object, slots[s].rights \cap r, b, w),
                          s, d)
    /\ issued' = issued \cup {ptr(d, slots')}
    /\ UNCHANGED <<objects, owner, revoking, fin>>

\* The common part of copy, mint and subregion: a child of slot s.
Derive(s, r, b, w) ==
  \E d \in Slots :
    /\ FirstFreeSlot(d)
    /\ slots' = LinkChild(AllocSlot(slots, d, slots[s].object, slots[s].rights \cap r, b, w),
                          s, d)
    /\ objects' = [objects EXCEPT ![slots[s].object].refcount = @ + 1]
    /\ issued' = issued \cup {ptr(d, slots')}
    /\ UNCHANGED <<owner, revoking, fin>>

Copy(p, r) ==
  /\ revoking = Null /\ Presents(p)
  /\ Derive(p.slot, r, slots[p.slot].badge, slots[p.slot].window)

Mint(p, r, b) ==
  /\ revoking = Null /\ Presents(p)
  /\ Derive(p.slot, r, b, slots[p.slot].window)

\* subregion (CSUB): only of a Memory capability, only inside its effective window.
Subregion(p, r, offset, len) ==
  /\ revoking = Null /\ Presents(p)
  /\ TypeOf[objects[slots[p.slot].object].kind] = "Memory"
  /\ WindowGranted(Effective(p.slot), offset, len)
  /\ Derive(p.slot, r, slots[p.slot].badge, Teilfenster(Effective(p.slot), offset, len))

MoveCap(p) ==
  \E d \in Slots :
    /\ revoking = Null /\ Presents(p) /\ FirstFreeSlot(d)
    /\ slots[p.slot].gen < MaxRelease
    /\ slots' = MoveSlot(slots, p.slot, d)
    /\ issued' = issued \cup {ptr(d, slots')}
    /\ UNCHANGED <<objects, owner, revoking, fin>>

\* Mutants of Report: buffers of half the length (CAP_OBJECTS = CAP_SLOTS / 2); a debug
\* capability reported only when its object goes.
ReportHalf(f, s, last) ==
  LET k == objects[slots[s].object].kind
      control == /\ TypeOf[k] = "Debuggable"
                 /\ "WRITE" \in slots[s].rights /\ slots[s].parent # Null
      room == f.gn < NObjects \div 2
  IN [reply |-> IF last /\ TypeOf[k] = "Reply" THEN f.reply \cup {k} ELSE f.reply,
      dma   |-> IF last /\ TypeOf[k] = "Dma" THEN f.dma \cup {k} ELSE f.dma,
      debug |-> IF control /\ room THEN f.debug \cup {k} ELSE f.debug,
      gn    |-> IF control /\ room THEN f.gn + 1 ELSE f.gn,
      overflow |-> f.overflow \/ (control /\ ~room)]
ReportLast(f, s, last) ==
  LET k == objects[slots[s].object].kind IN
  IF ~last THEN f
  ELSE [f EXCEPT !.reply = IF TypeOf[k] = "Reply" THEN @ \cup {k} ELSE @,
                 !.dma = IF TypeOf[k] = "Dma" THEN @ \cup {k} ELSE @,
                 !.debug = IF TypeOf[k] = "Debuggable" THEN @ \cup {k} ELSE @]

\* What Finalized collects when leaf s goes: push_debug, then push / push_dma.
Report(f, s, last) ==
  LET k == objects[slots[s].object].kind
      control == /\ TypeOf[k] = "Debuggable"
                 /\ "WRITE" \in slots[s].rights /\ slots[s].parent # Null
      room == f.gn < NObjects
  IN [reply |-> IF last /\ TypeOf[k] = "Reply" THEN f.reply \cup {k} ELSE f.reply,
      dma   |-> IF last /\ TypeOf[k] = "Dma" THEN f.dma \cup {k} ELSE f.dma,
      debug |-> IF control /\ room THEN f.debug \cup {k} ELSE f.debug,
      gn    |-> IF control /\ room THEN f.gn + 1 ELSE f.gn,
      overflow |-> f.overflow \/ (control /\ ~room)]

\* delete_leaf: report, unlink, release the slot, drop the reference, finalise the object.
DeleteLeaf(s, f) ==
  LET o == slots[s].object
      k == objects[o].kind
      last == objects[o].refcount = 1
  IN /\ slots' = Unlink(slots, s)
     /\ objects' = IF last
                   THEN [objects EXCEPT ![o] = [used |-> FALSE, kind |-> Null, refcount |-> 0]]
                   ELSE [objects EXCEPT ![o].refcount = @ - 1]
     /\ owner' = IF last /\ k \in RegionKinds
                 THEN [owner EXCEPT ![k] = IF TypeOf[k] = "Dma" THEN "teardown" ELSE "alloc"]
                 ELSE owner
     /\ fin' = Report(f, s, last)

\* delete: HasChildren unless the slot is a leaf.
Delete(p) ==
  /\ revoking = Null /\ Presents(p)
  /\ slots[p.slot].first = Null
  /\ slots[p.slot].gen < MaxRelease
  /\ DeleteLeaf(p.slot, NoReport)
  /\ UNCHANGED <<issued, revoking>>

\* revoke: entry, one iteration of its loop, and its return.
RevokeBegin(p) ==
  /\ revoking = Null /\ Presents(p)
  /\ \A i \in Slots : slots[i].used => slots[i].gen < MaxRelease
  /\ revoking' = p.slot
  /\ fin' = NoReport
  /\ UNCHANGED <<slots, objects, owner, issued>>

RevokeStep ==
  /\ revoking # Null /\ slots[revoking].first # Null
  /\ \E l \in Leaf(slots, slots[revoking].first) : DeleteLeaf(l, fin)
  /\ UNCHANGED <<issued, revoking>>

\* Mutants of RevokeEnd: one pass only; the loop waits for the siblings to be gone as well.
RevokeEndOnce ==
  /\ revoking # Null
  /\ revoking' = Null
  /\ UNCHANGED <<slots, objects, owner, issued, fin>>
RevokeEndSiblings ==
  /\ revoking # Null
  /\ slots[revoking].first = Null /\ slots[revoking].next = Null
  /\ revoking' = Null
  /\ UNCHANGED <<slots, objects, owner, issued, fin>>

\* The loop ends when the child list is empty, or breaks off when the descent
\* finds no leaf (note_overrun).
RevokeEnd ==
  /\ revoking # Null
  /\ slots[revoking].first = Null \/ Leaf(slots, slots[revoking].first) = {}
  /\ revoking' = Null
  /\ UNCHANGED <<slots, objects, owner, issued, fin>>

\* dma_finalize, after CAPS is released: a reported region whose device is confirmed quiet is
\* returned; one that is not stays parked.
DmaReturned(k) ==
  /\ owner[k] = "teardown"
  /\ owner' = [owner EXCEPT ![k] = "alloc"]
  /\ UNCHANGED <<slots, objects, issued, revoking, fin>>

Next ==
  \/ \E k \in Kinds, r \in SUBSET RightBits : Install(k, r)
  \/ \E k \in RegionKinds : InstallFails(k) \/ DmaReturned(k)
  \/ \E p \in CapPtr :
       \/ \E r \in SUBSET RightBits :
            \/ Copy(p, r)
            \/ \E b \in Badges : Mint(p, r, b)
            \/ \E off \in 0..AddrMax, len \in 0..AddrMax : Subregion(p, r, off, len)
       \/ MoveCap(p)
       \/ Delete(p)
       \/ RevokeBegin(p)
  \/ RevokeStep
  \/ RevokeEnd

Fairness == WF_vars(RevokeStep) /\ WF_vars(RevokeEnd)

Spec == Init /\ [][Next]_vars /\ Fairness

-----------------------------------------------------------------------------
(* Properties                                                              *)

Kids(sl, i) == {c \in Slots : sl[c].used /\ sl[c].parent = i}

Refs(sl, o) == {i \in Slots : sl[i].used /\ sl[i].object = o}

\* The state stays within the types of CapSlot, Object and Finalized; a refcount never
\* drops below zero.
TypeOK ==
  /\ slots \in [Slots -> Slot]
  /\ objects \in [Objects -> Object]
  /\ owner \in [RegionKinds -> {"alloc", "caps", "teardown", "lost"}]
  /\ issued \subseteq CapPtr
  /\ revoking \in Slots \cup {Null}
  /\ fin \in FinReport

\* Parent, child and sibling links are reciprocal, inside one object, and a root has no
\* siblings.
LinksOK(sl) ==
  \A i \in Slots : sl[i].used =>
    /\ sl[i].parent # Null => /\ sl[sl[i].parent].used
                              /\ sl[sl[i].parent].object = sl[i].object
    /\ sl[i].parent = Null => sl[i].next = Null /\ sl[i].prev = Null
    /\ sl[i].first # Null => /\ sl[sl[i].first].used
                             /\ sl[sl[i].first].parent = i /\ sl[sl[i].first].prev = Null
    /\ sl[i].next # Null => /\ sl[sl[i].next].used
                            /\ sl[sl[i].next].prev = i
                            /\ sl[sl[i].next].parent = sl[i].parent
    /\ sl[i].prev # Null => sl[sl[i].prev].used /\ sl[sl[i].prev].next = i

ListsOK(sl) == \A i \in Slots : sl[i].used => ChildList(sl, i) = Kids(sl, i)

\* Codes 1, 4, 5 and 6 of audit_cdt never occur: a used slot names a used object, its parent,
\* children and siblings are used, share its object and point back at it.
LinksReciprocal ==
  /\ LinksOK(slots)
  /\ \A i \in Slots : slots[i].used =>
       slots[i].object \in Objects /\ objects[slots[i].object].used

\* Codes 4 and 7 of audit_cdt: walking the child list of a slot finds exactly the
\* capabilities derived from it, so that neither move_cap nor revoke misses one.
ChildListsExact == ListsOK(slots)

\* Code 7 of audit_cdt: parent links form no cycle (every set of capabilities holds one
\* whose parent is outside it).
Acyclic ==
  \A T \in SUBSET {i \in Slots : slots[i].used} : T # {} => \E x \in T : slots[x].parent \notin T

\* Codes 2 and 3 of audit_cdt: a used object counts exactly the capabilities that name it,
\* and at least one does.
RefcountExact ==
  \A o \in Objects :
    IF objects[o].used
    THEN objects[o].refcount = Cardinality(Refs(slots, o)) /\ Refs(slots, o) # {}
    ELSE Refs(slots, o) = {}

Within(v, w) == w.base <= v.base /\ v.base + v.len <= w.base + w.len

\* A derived capability never carries a right or authorises an address that its parent
\* does not ("keine Eskalation" of copy, mint, subregion, kept through move_cap).
Attenuation ==
  \A i \in Slots : slots[i].used /\ slots[i].parent # Null =>
    /\ slots[i].rights \subseteq slots[slots[i].parent].rights
    /\ Within(Effective(i), Effective(slots[i].parent))

\* A region is the capability system's exactly while one object stands for it: it goes back
\* to the allocator once, with the last capability, and a DMA region not before the teardown.
RegionOwnership ==
  \A k \in RegionKinds :
    Cardinality({o \in Objects : objects[o].used /\ objects[o].kind = k})
      = IF owner[k] = "caps" THEN 1 ELSE 0

\* Finalized::overflowed "muss immer false sein": the buffers of CAP_OBJECTS entries hold
\* every report of one delete or revoke.
NoReportLost == ~fin.overflow

\* The capability a revoke starts from survives it, however many iterations it takes.
RootStays == revoking # Null => slots[revoking].used

\* A handle that has stopped resolving stays dead, whatever is installed in its slot.
StaleStaysDead == [][\A p \in issued : ~Resolves(p) => ~Resolves(p)']_vars

\* A handle that keeps resolving keeps denoting the same capability: same object, rights,
\* badge and window, whatever is copied, moved or deleted around it.
HandleStable ==
  [][\A p \in issued : Resolves(p) /\ Resolves(p)' =>
       /\ slots'[p.slot].object = slots[p.slot].object
       /\ slots'[p.slot].rights = slots[p.slot].rights
       /\ slots'[p.slot].badge = slots[p.slot].badge
       /\ slots'[p.slot].window = slots[p.slot].window]_vars

\* When revoke returns, nothing derived from the revoked capability is left.
RevokeComplete == [][revoking # Null /\ revoking' = Null => Kids(slots, revoking) = {}]_vars

\* any_debug_control_over
DebugControlOver(k) ==
  \E i \in Slots : /\ slots[i].used /\ "WRITE" \in slots[i].rights /\ slots[i].parent # Null
                   /\ objects[slots[i].object].kind = k

\* The step that removes the last control right over a PD has reported that PD, so that the
\* kernel learns whose halted threads to release.
DebugLossReported ==
  [][\A k \in Kinds :
       TypeOf[k] = "Debuggable" /\ DebugControlOver(k) /\ ~DebugControlOver(k)'
         => k \in fin'.debug]_vars

\* What revoke relies on: the links it walks form no cycle, its reports fit the buffers, and the
\* capability it started from stays.
RevokeGrounded == Acyclic /\ NoReportLost /\ RootStays

\* When revoke returns nothing derived is left, and the loss of the last control right over a
\* debugged PD has been reported.
RevokeSound == RevokeComplete /\ DebugLossReported

\* A dead handle stays dead; a live one keeps denoting the same capability.
HandlesSound == StaleStaysDead /\ HandleStable

\* revoke returns: each iteration shrinks the tree.
RevokeReturns == revoking # Null ~> revoking = Null
=============================================================================
