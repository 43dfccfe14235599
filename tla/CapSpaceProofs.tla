--------------------------- MODULE CapSpaceProofs ---------------------------
(***************************************************************************)
(* Proofs about the capability space of CapSpace.tla, for every size of    *)
(* the tables and every set of kinds, rights and badges.                   *)
(***************************************************************************)
EXTENDS CapSpace, FiniteSetTheorems, TLAPS

Table == [Slots -> Slot]

\* A free slot carries no links (release_slot resets it to CapSlot::EMPTY).
FreeBlank(sl) ==
  \A i \in Slots : ~sl[i].used =>
    /\ sl[i].parent = Null /\ sl[i].first = Null
    /\ sl[i].next = Null /\ sl[i].prev = Null

NoSelf(sl) == \A i \in Slots : sl[i].parent # i

TreeOK(sl) == sl \in Table /\ FreeBlank(sl) /\ NoSelf(sl) /\ LinksOK(sl) /\ ListsOK(sl)

\* The null link is no slot.
LEMMA SlotFacts == Null \notin Slots
BY TablesAssumption DEF Slots, Null

\* The type of one entry, field by field.
LEMMA SlotFields ==
  ASSUME NEW sl \in Table, NEW i \in Slots
  PROVE  /\ sl[i] \in Slot
         /\ sl[i].used \in BOOLEAN /\ sl[i].gen \in Nat
         /\ sl[i].object \in Objects \cup {Null}
         /\ sl[i].rights \in SUBSET RightBits
         /\ sl[i].badge \in Badges /\ sl[i].window \in Region
         /\ sl[i].parent \in Slots \cup {Null} /\ sl[i].first \in Slots \cup {Null}
         /\ sl[i].next \in Slots \cup {Null} /\ sl[i].prev \in Slots \cup {Null}
BY DEF Table, Slot

\* Every link of a slot is null or a slot.
LEMMA LinkFields ==
  ASSUME NEW sl \in Table
  PROVE  \A i \in Slots :
           /\ sl[i].used \in BOOLEAN
           /\ sl[i].parent \in Slots \cup {Null} /\ sl[i].first \in Slots \cup {Null}
           /\ sl[i].next \in Slots \cup {Null} /\ sl[i].prev \in Slots \cup {Null}
BY SlotFields

\* The value of a free slot has the type of a slot.
LEMMA EmptySlotType ==
  ASSUME NEW g \in Nat
  PROVE  /\ EmptySlot(g) \in Slot
         /\ ~EmptySlot(g).used /\ EmptySlot(g).gen = g /\ EmptySlot(g).parent = Null
         /\ EmptySlot(g).first = Null /\ EmptySlot(g).next = Null
         /\ EmptySlot(g).prev = Null
BY TablesAssumption DEF EmptySlot, Slot, Region, NoWindow, Null

\* What kind_einhaengen leaves in every field.
Linked(sl, p, c, t) ==
  /\ t \in Table
  /\ \A i \in Slots :
       /\ t[i].used = sl[i].used /\ t[i].gen = sl[i].gen
       /\ t[i].object = sl[i].object /\ t[i].rights = sl[i].rights
       /\ t[i].badge = sl[i].badge /\ t[i].window = sl[i].window
       /\ t[i].parent = IF i = c THEN p ELSE sl[i].parent
       /\ t[i].prev = IF i = c THEN Null
                      ELSE IF i = sl[p].first THEN c ELSE sl[i].prev
       /\ t[i].next = IF i = c THEN sl[p].first ELSE sl[i].next
       /\ t[i].first = IF i = p THEN c ELSE sl[i].first

\* What link_child leaves in every slot, field by field.
LEMMA LinkChildFields ==
  ASSUME NEW sl \in Table, NEW p \in Slots, NEW c \in Slots, p # c
  PROVE  Linked(sl, p, c, LinkChild(sl, p, c))
<1> DEFINE t == LinkChild(sl, p, c)
<1>1. sl[p].first \in Slots \cup {Null} /\ Null \notin Slots
  BY SlotFields, SlotFacts
<1>2. ASSUME NEW i \in Slots
      PROVE  /\ t[i] \in Slot
             /\ t[i].used = sl[i].used /\ t[i].gen = sl[i].gen
             /\ t[i].object = sl[i].object /\ t[i].rights = sl[i].rights
             /\ t[i].badge = sl[i].badge /\ t[i].window = sl[i].window
             /\ t[i].parent = IF i = c THEN p ELSE sl[i].parent
             /\ t[i].prev = IF i = c THEN Null
                            ELSE IF i = sl[p].first THEN c ELSE sl[i].prev
             /\ t[i].next = IF i = c THEN sl[p].first ELSE sl[i].next
             /\ t[i].first = IF i = p THEN c ELSE sl[i].first
  <2>1. sl[i] \in Slot
    BY SlotFields
  <2>2. t[i] = [sl[i] EXCEPT !.parent = IF i = c THEN p ELSE @,
                  !.prev   = IF i = c THEN Null ELSE IF i = sl[p].first THEN c ELSE @,
                  !.next   = IF i = c THEN sl[p].first ELSE @,
                  !.first  = IF i = p THEN c ELSE @]
    BY DEF LinkChild
  <2> QED BY <2>1, <2>2, <1>1, ZenonT(40) DEF Slot
<1>3. t \in [Slots -> Slot]
  BY <1>2 DEF LinkChild
<1> QED BY <1>2, <1>3 DEF Table, Linked

\* What unlink and release_slot leave in every field.
Unlinked(sl, s, t) ==
  /\ t \in Table
  /\ t[s] = EmptySlot(sl[s].gen + 1)
  /\ ~t[s].used /\ t[s].parent = Null /\ t[s].first = Null
  /\ t[s].next = Null /\ t[s].prev = Null
  /\ \A i \in Slots \ {s} :
       /\ t[i].used = sl[i].used /\ t[i].gen = sl[i].gen
       /\ t[i].object = sl[i].object /\ t[i].rights = sl[i].rights
       /\ t[i].badge = sl[i].badge /\ t[i].window = sl[i].window
       /\ t[i].parent = sl[i].parent
       /\ t[i].prev = IF i = sl[s].next THEN sl[s].prev ELSE sl[i].prev
       /\ t[i].next = IF i = sl[s].prev THEN sl[s].next ELSE sl[i].next
       /\ t[i].first = IF sl[s].prev = Null /\ i = sl[s].parent THEN sl[s].next
                       ELSE sl[i].first

\* What unlink leaves in every slot, field by field.
LEMMA UnlinkFields ==
  ASSUME NEW sl \in Table, NEW s \in Slots
  PROVE  Unlinked(sl, s, Unlink(sl, s))
<1> DEFINE t == Unlink(sl, s)
<1>1. /\ sl[s].prev \in Slots \cup {Null} /\ sl[s].next \in Slots \cup {Null}
      /\ sl[s].gen + 1 \in Nat
  BY SlotFields
<1>2. /\ EmptySlot(sl[s].gen + 1) \in Slot /\ ~EmptySlot(sl[s].gen + 1).used
      /\ EmptySlot(sl[s].gen + 1).parent = Null /\ EmptySlot(sl[s].gen + 1).first = Null
      /\ EmptySlot(sl[s].gen + 1).next = Null /\ EmptySlot(sl[s].gen + 1).prev = Null
  BY <1>1, EmptySlotType
<1>3. t[s] = EmptySlot(sl[s].gen + 1)
  BY DEF Unlink
<1>4. ASSUME NEW i \in Slots \ {s}
      PROVE  /\ t[i] \in Slot
             /\ t[i].used = sl[i].used /\ t[i].gen = sl[i].gen
             /\ t[i].object = sl[i].object /\ t[i].rights = sl[i].rights
             /\ t[i].badge = sl[i].badge /\ t[i].window = sl[i].window
             /\ t[i].parent = sl[i].parent
             /\ t[i].prev = IF i = sl[s].next THEN sl[s].prev ELSE sl[i].prev
             /\ t[i].next = IF i = sl[s].prev THEN sl[s].next ELSE sl[i].next
             /\ t[i].first = IF sl[s].prev = Null /\ i = sl[s].parent THEN sl[s].next
                             ELSE sl[i].first
  <2>1. sl[i] \in Slot
    BY SlotFields
  <2>2. t[i] = [sl[i] EXCEPT
                  !.next  = IF i = sl[s].prev THEN sl[s].next ELSE @,
                  !.first = IF sl[s].prev = Null /\ i = sl[s].parent THEN sl[s].next ELSE @,
                  !.prev  = IF i = sl[s].next THEN sl[s].prev ELSE @]
    BY DEF Unlink
  <2> QED BY <2>1, <2>2, <1>1, ZenonT(40) DEF Slot
<1>5. t \in [Slots -> Slot]
  BY <1>2, <1>3, <1>4 DEF Unlink
<1> QED BY <1>2, <1>3, <1>4, <1>5 DEF Table, Unlinked

\* What move_cap leaves in every field.
Moved(sl, s, d, t) ==
  /\ t \in Table
  /\ t[s] = EmptySlot(sl[s].gen + 1)
  /\ ~t[s].used /\ t[s].parent = Null /\ t[s].first = Null
  /\ t[s].next = Null /\ t[s].prev = Null
  /\ t[d].gen = sl[d].gen
  /\ t[d].used = sl[s].used /\ t[d].object = sl[s].object
  /\ t[d].rights = sl[s].rights
  /\ t[d].badge = sl[s].badge /\ t[d].window = sl[s].window
  /\ t[d].parent = sl[s].parent /\ t[d].first = sl[s].first
  /\ t[d].next = sl[s].next /\ t[d].prev = sl[s].prev
  /\ \A i \in Slots \ {s, d} :
       /\ t[i].used = sl[i].used /\ t[i].gen = sl[i].gen
       /\ t[i].object = sl[i].object /\ t[i].rights = sl[i].rights
       /\ t[i].badge = sl[i].badge /\ t[i].window = sl[i].window
       /\ t[i].parent = IF i \in ChildList(sl, s) THEN d ELSE sl[i].parent
       /\ t[i].prev = IF i = sl[s].next THEN d ELSE sl[i].prev
       /\ t[i].next = IF i = sl[s].prev THEN d ELSE sl[i].next
       /\ t[i].first = IF sl[s].prev = Null /\ i = sl[s].parent THEN d
                       ELSE sl[i].first

\* What the rewiring of move leaves in every slot, field by field.
LEMMA MoveSlotFields ==
  ASSUME NEW sl \in Table, NEW s \in Slots, NEW d \in Slots, s # d
  PROVE  Moved(sl, s, d, MoveSlot(sl, s, d))
<1> DEFINE t == MoveSlot(sl, s, d)
<1> DEFINE kids == ChildList(sl, s)
<1>1. sl[s] \in Slot /\ sl[d] \in Slot /\ sl[s].gen + 1 \in Nat /\ sl[d].gen \in Nat
  BY SlotFields
<1>2. /\ EmptySlot(sl[s].gen + 1) \in Slot /\ ~EmptySlot(sl[s].gen + 1).used
      /\ EmptySlot(sl[s].gen + 1).parent = Null /\ EmptySlot(sl[s].gen + 1).first = Null
      /\ EmptySlot(sl[s].gen + 1).next = Null /\ EmptySlot(sl[s].gen + 1).prev = Null
  BY <1>1, EmptySlotType
<1>3. t[s] = EmptySlot(sl[s].gen + 1) /\ t[d] = [sl[s] EXCEPT !.gen = sl[d].gen]
  BY DEF MoveSlot
<1>4. /\ t[d] \in Slot /\ t[d].gen = sl[d].gen
      /\ t[d].used = sl[s].used /\ t[d].object = sl[s].object
      /\ t[d].rights = sl[s].rights
      /\ t[d].badge = sl[s].badge /\ t[d].window = sl[s].window
      /\ t[d].parent = sl[s].parent /\ t[d].first = sl[s].first
      /\ t[d].next = sl[s].next /\ t[d].prev = sl[s].prev
  BY <1>1, <1>3 DEF Slot
<1>5. ASSUME NEW i \in Slots \ {s, d}
      PROVE  /\ t[i] \in Slot
             /\ t[i].used = sl[i].used /\ t[i].gen = sl[i].gen
             /\ t[i].object = sl[i].object /\ t[i].rights = sl[i].rights
             /\ t[i].badge = sl[i].badge /\ t[i].window = sl[i].window
             /\ t[i].parent = IF i \in ChildList(sl, s) THEN d ELSE sl[i].parent
             /\ t[i].prev = IF i = sl[s].next THEN d ELSE sl[i].prev
             /\ t[i].next = IF i = sl[s].prev THEN d ELSE sl[i].next
             /\ t[i].first = IF sl[s].prev = Null /\ i = sl[s].parent THEN d
                             ELSE sl[i].first
  <2>1. sl[i] \in Slot
    BY SlotFields
  <2>2. t[i] = [sl[i] EXCEPT
                  !.next   = IF i = sl[s].prev THEN d ELSE @,
                  !.first  = IF sl[s].prev = Null /\ i = sl[s].parent THEN d ELSE @,
                  !.prev   = IF i = sl[s].next THEN d ELSE @,
                  !.parent = IF i \in kids THEN d ELSE @]
    BY DEF MoveSlot
  <2> HIDE DEF kids
  <2>3. /\ t[i] \in Slot
        /\ t[i].used = sl[i].used /\ t[i].gen = sl[i].gen
        /\ t[i].object = sl[i].object /\ t[i].rights = sl[i].rights
        /\ t[i].badge = sl[i].badge /\ t[i].window = sl[i].window
        /\ t[i].parent = IF i \in kids THEN d ELSE sl[i].parent
        /\ t[i].prev = IF i = sl[s].next THEN d ELSE sl[i].prev
        /\ t[i].next = IF i = sl[s].prev THEN d ELSE sl[i].next
        /\ t[i].first = IF sl[s].prev = Null /\ i = sl[s].parent THEN d ELSE sl[i].first
    BY <2>1, <2>2 DEF Slot
  <2> QED BY <2>3 DEF kids
<1>6. t \in [Slots -> Slot]
  BY <1>2, <1>3, <1>4, <1>5 DEF MoveSlot
<1> QED BY <1>2, <1>3, <1>4, <1>5, <1>6 DEF Table, Moved

-----------------------------------------------------------------------------
(* Child lists.  Reach says of a list what Chain says with the least       *)
(* closed set: whatever holds the head and is closed under next holds      *)
(* every child.                                                            *)

NextClosed(sl, T) == \A y \in T : sl[y].next \in T \cup {Null}

Reach(sl) ==
  \A i \in Slots : sl[i].used =>
    /\ sl[i].first = Null => Kids(sl, i) = {}
    /\ \A T \in SUBSET Slots : sl[i].first \in T /\ NextClosed(sl, T) => Kids(sl, i) \subseteq T

\* In a well-linked table the child lists are exact iff every closed set contains the children.
LEMMA ListsReach ==
  ASSUME NEW sl \in Table, LinksOK(sl)
  PROVE  ListsOK(sl) <=> Reach(sl)
<1>1. ASSUME NEW T \in SUBSET Slots
      PROVE  Closed(NextOf(sl), T) <=> NextClosed(sl, T)
  BY DEF Closed, NextClosed, NextOf
<1>2. ASSUME NEW i \in Slots, sl[i].used, sl[i].first # Null
      PROVE  ChildList(sl, i) \subseteq Kids(sl, i)
  <2>1. sl[i].first \in Kids(sl, i) /\ NextClosed(sl, Kids(sl, i))
    BY <1>2, SlotFields DEF LinksOK, Kids, NextClosed
  <2>2. Kids(sl, i) \in SUBSET Slots
    BY DEF Kids
  <2> QED BY <1>1, <1>2, <2>1, <2>2 DEF ChildList, Chain
<1>3. ASSUME NEW i \in Slots, sl[i].used, sl[i].first # Null
      PROVE  ChildList(sl, i) = Kids(sl, i) <=>
               \A T \in SUBSET Slots :
                 sl[i].first \in T /\ NextClosed(sl, T) => Kids(sl, i) \subseteq T
  <2>1. ChildList(sl, i) = {c \in Slots : \A T \in SUBSET Slots :
                              sl[i].first \in T /\ NextClosed(sl, T) => c \in T}
    BY <1>1, <1>3 DEF ChildList, Chain
  <2>2. Kids(sl, i) \subseteq Slots
    BY DEF Kids
  <2> QED BY <1>2, <1>3, <2>1, <2>2
<1>4. ASSUME NEW i \in Slots, sl[i].used, sl[i].first = Null
      PROVE  ChildList(sl, i) = {}
  BY <1>4 DEF ChildList, Chain
<1>5. ASSUME NEW i \in Slots, sl[i].used, sl[i].first = Null, NEW T \in SUBSET Slots
      PROVE  sl[i].first \notin T
  BY <1>5, SlotFacts
<1> QED BY <1>3, <1>4, <1>5 DEF ListsOK, Reach

\* Facts about the place of a used slot in its list.
LEMMA ListPlace ==
  ASSUME NEW sl, TreeOK(sl), NEW s \in Slots, sl[s].used
  PROVE  /\ sl[s].parent # Null /\ sl[s].prev = Null => sl[sl[s].parent].first = s
         /\ sl[s].next # s /\ sl[s].prev # s
         /\ sl[s].next # Null => sl[s].next # sl[s].prev
<1> USE SlotFacts
<1>1. sl \in Table /\ LinksOK(sl) /\ FreeBlank(sl) /\ Reach(sl)
  BY ListsReach DEF TreeOK
<1>2. ASSUME sl[s].parent # Null
      PROVE  /\ sl[s].parent \in Slots /\ sl[sl[s].parent].used
             /\ s \in Kids(sl, sl[s].parent)
             /\ sl[sl[s].parent].first \in Slots
             /\ sl[sl[sl[s].parent].first].prev = Null
  <2>1. sl[s].parent \in Slots /\ sl[sl[s].parent].used /\ s \in Kids(sl, sl[s].parent)
    BY <1>1, <1>2, SlotFields DEF LinksOK, Kids
  <2>2. sl[sl[s].parent].first # Null
    BY <1>1, <2>1 DEF Reach
  <2>3. sl[sl[s].parent].first \in Slots
    BY <1>1, <2>1, <2>2, SlotFields
  <2> QED BY <1>1, <2>1, <2>2, <2>3 DEF LinksOK
<1>3. ASSUME sl[s].parent # Null, NEW X \in SUBSET Slots, s \in X,
             sl[sl[s].parent].first \notin X,
             \A y \in Slots \ X : sl[y].next \notin X
      PROVE  FALSE
  <2> DEFINE T == Slots \ X
  <2>1. NextClosed(sl, T)
    BY <1>1, <1>3, SlotFields DEF NextClosed
  <2>2. sl[sl[s].parent].first \in T
    BY <1>2, <1>3
  <2>3. Kids(sl, sl[s].parent) \subseteq T
    BY <1>1, <1>2, <1>3, <2>1, <2>2 DEF Reach
  <2> QED BY <1>2, <1>3, <2>3
<1>4. sl[s].parent # Null /\ sl[s].prev = Null => sl[sl[s].parent].first = s
  <2> SUFFICES ASSUME sl[s].parent # Null, sl[s].prev = Null, sl[sl[s].parent].first # s
               PROVE  FALSE
    OBVIOUS
  <2>1. \A y \in Slots \ {s} : sl[y].next \notin {s}
    BY <1>1, SlotFields DEF LinksOK, FreeBlank
  <2> QED BY <2>1, <1>3, <1>2
<1>5. ASSUME sl[s].next = s \/ sl[s].prev = s
      PROVE  FALSE
  <2>1. sl[s].next = s /\ sl[s].prev = s /\ sl[s].parent # Null
    BY <1>1, <1>5, SlotFields DEF LinksOK
  <2>2. \A y \in Slots \ {s} : sl[y].next \notin {s}
    BY <1>1, <2>1, SlotFields DEF LinksOK, FreeBlank
  <2> QED BY <2>1, <2>2, <1>3, <1>2
<1>6. ASSUME sl[s].next # Null, sl[s].next = sl[s].prev
      PROVE  FALSE
  <2> DEFINE x == sl[s].next
  <2>1. /\ x \in Slots /\ sl[x].used /\ sl[x].next = s /\ sl[x].prev = s
        /\ sl[s].parent # Null
    BY <1>1, <1>6, SlotFields DEF LinksOK
  <2>2. \A y \in Slots \ {s, x} : sl[y].next \notin {s, x}
    BY <1>1, <1>6, <2>1, SlotFields DEF LinksOK, FreeBlank
  <2>3. sl[sl[s].parent].first \notin {s, x}
    BY <1>2, <1>6, <2>1
  <2> QED BY <2>1, <2>2, <2>3, <1>3
<1> QED BY <1>4, <1>5, <1>6

-----------------------------------------------------------------------------
(* Each table update keeps the tree well formed.                           *)

\* copy, mint and subregion: d is a used slot without links, not yet in the tree.
LEMMA LinkChildTree ==
  ASSUME NEW sl, TreeOK(sl), NEW p \in Slots, NEW d \in Slots, p # d,
         sl[p].used, sl[d].used, sl[d].object = sl[p].object,
         sl[d].parent = Null, sl[d].first = Null,
         NEW t, Linked(sl, p, d, t)
  PROVE  TreeOK(t)
<1> USE SlotFacts
<1>1. sl \in Table /\ LinksOK(sl) /\ FreeBlank(sl) /\ NoSelf(sl) /\ Reach(sl)
  BY ListsReach DEF TreeOK
<1>0. \A i \in Slots :
        /\ sl[i].parent \in Slots \cup {Null} /\ sl[i].first \in Slots \cup {Null}
        /\ sl[i].next \in Slots \cup {Null} /\ sl[i].prev \in Slots \cup {Null}
  BY <1>1, LinkFields
<1>2. /\ t \in Table
      /\ \A i \in Slots :
              /\ t[i].used = sl[i].used /\ t[i].object = sl[i].object
              /\ t[i].parent = IF i = d THEN p ELSE sl[i].parent
              /\ t[i].prev = IF i = d THEN Null
                             ELSE IF i = sl[p].first THEN d ELSE sl[i].prev
              /\ t[i].next = IF i = d THEN sl[p].first ELSE sl[i].next
              /\ t[i].first = IF i = p THEN d ELSE sl[i].first
  BY DEF Linked
<1>3. Kids(sl, d) = {}
  BY <1>1 DEF Reach
<1>4. \A i \in Slots : /\ sl[i].first # d /\ sl[i].next # d /\ sl[i].prev # d
                       /\ sl[i].parent # d
  BY <1>1, <1>3 DEF LinksOK, Kids, FreeBlank
<1>5. FreeBlank(t)
  BY <1>1, <1>2, <1>4, <1>0 DEF FreeBlank, LinksOK
<1>6. LinksOK(t)
  <2> SUFFICES ASSUME NEW i \in Slots, t[i].used
               PROVE  /\ t[i].parent # Null => /\ t[t[i].parent].used
                                               /\ t[t[i].parent].object = t[i].object
                      /\ t[i].parent = Null => t[i].next = Null /\ t[i].prev = Null
                      /\ t[i].first # Null => /\ t[t[i].first].used
                                              /\ t[t[i].first].parent = i
                                              /\ t[t[i].first].prev = Null
                      /\ t[i].next # Null => /\ t[t[i].next].used
                                             /\ t[t[i].next].prev = i
                                             /\ t[t[i].next].parent = t[i].parent
                      /\ t[i].prev # Null => t[t[i].prev].used /\ t[t[i].prev].next = i
    BY DEF LinksOK
  <2>1. t[i].parent # Null => t[t[i].parent].used /\ t[t[i].parent].object = t[i].object
    BY <1>1, <1>2, <1>0 DEF LinksOK
  <2>2. t[i].parent = Null => t[i].next = Null /\ t[i].prev = Null
    BY <1>1, <1>2, <1>0 DEF LinksOK
  <2>3. t[i].first # Null => /\ t[t[i].first].used
                             /\ t[t[i].first].parent = i /\ t[t[i].first].prev = Null
    BY <1>1, <1>2, <1>4, <1>0 DEF LinksOK
  <2>4. t[i].next # Null => /\ t[t[i].next].used
                            /\ t[t[i].next].prev = i /\ t[t[i].next].parent = t[i].parent
    BY <1>1, <1>2, <1>4, <1>0 DEF LinksOK
  <2>5. t[i].prev # Null => t[t[i].prev].used /\ t[t[i].prev].next = i
    BY <1>1, <1>2, <1>4, <1>0 DEF LinksOK
  <2> QED BY <2>1, <2>2, <2>3, <2>4, <2>5
<1>7. Reach(t)
  <2>1. ASSUME NEW i \in Slots, t[i].used, t[i].first = Null
        PROVE  Kids(t, i) = {}
    BY <1>1, <1>2, <1>3, <2>1 DEF Reach, Kids
  <2>2. ASSUME NEW i \in Slots, t[i].used, NEW T \in SUBSET Slots,
               t[i].first \in T, NextClosed(t, T)
        PROVE  Kids(t, i) \subseteq T
    <3>1. NextClosed(sl, T \ {d})
      BY <1>1, <1>2, <1>4, <2>2, <1>0 DEF NextClosed
    <3>2. CASE i = p
      <4>1. d \in T /\ sl[p].first \in (T \ {d}) \cup {Null}
        BY <1>2, <1>4, <2>2, <3>2 DEF NextClosed
      <4>2. Kids(sl, p) \subseteq T
        BY <1>1, <3>1, <4>1 DEF Reach
      <4> QED BY <1>2, <3>2, <4>1, <4>2 DEF Kids
    <3>3. CASE i # p
      <4>1. sl[i].first \in T \ {d} /\ sl[i].used
        BY <1>2, <1>4, <2>2, <3>3
      <4>2. Kids(sl, i) \subseteq T
        BY <1>1, <3>1, <4>1 DEF Reach
      <4> QED BY <1>2, <3>3, <4>2 DEF Kids
    <3> QED BY <3>2, <3>3
  <2> QED BY <2>1, <2>2 DEF Reach
<1>8. NoSelf(t)
  BY <1>1, <1>2 DEF NoSelf
<1> QED BY <1>2, <1>5, <1>6, <1>7, <1>8, ListsReach DEF TreeOK

\* delete_leaf: s is a leaf, so nobody names it as parent.
LEMMA UnlinkTree ==
  ASSUME NEW sl, TreeOK(sl), NEW s \in Slots, sl[s].used, sl[s].first = Null,
         NEW t, Unlinked(sl, s, t)
  PROVE  TreeOK(t)
<1> DEFINE nx == sl[s].next
           pv == sl[s].prev
           p  == sl[s].parent
<1> USE SlotFacts
<1>1. sl \in Table /\ LinksOK(sl) /\ FreeBlank(sl) /\ NoSelf(sl) /\ Reach(sl)
  BY ListsReach DEF TreeOK
<1>0. \A i \in Slots :
        /\ sl[i].parent \in Slots \cup {Null} /\ sl[i].first \in Slots \cup {Null}
        /\ sl[i].next \in Slots \cup {Null} /\ sl[i].prev \in Slots \cup {Null}
  BY <1>1, LinkFields
<1>2. /\ t \in Table
      /\ ~t[s].used /\ t[s].parent = Null /\ t[s].first = Null
      /\ t[s].next = Null /\ t[s].prev = Null
      /\ \A i \in Slots \ {s} :
           /\ t[i].used = sl[i].used /\ t[i].object = sl[i].object
           /\ t[i].parent = sl[i].parent
           /\ t[i].prev = IF i = nx THEN pv ELSE sl[i].prev
           /\ t[i].next = IF i = pv THEN nx ELSE sl[i].next
           /\ t[i].first = IF pv = Null /\ i = p THEN nx ELSE sl[i].first
  BY DEF Unlinked
<1>3. /\ p # Null /\ pv = Null => sl[p].first = s
      /\ nx # s /\ pv # s /\ nx # Null => nx # pv
  BY ListPlace
<1>4. \A i \in Slots : sl[i].parent # s
  BY <1>1 DEF Reach, Kids, FreeBlank
<1>5. \A i \in Slots : /\ sl[i].next = s => i = pv
                       /\ sl[i].prev = s => i = nx
                       /\ sl[i].first = s => pv = Null /\ i = p
  BY <1>1 DEF LinksOK, FreeBlank
<1>6. /\ pv # Null => sl[pv].used /\ sl[pv].next = s /\ sl[pv].parent = p /\ p # Null
      /\ nx # Null => sl[nx].used /\ sl[nx].prev = s /\ sl[nx].parent = p /\ p # Null
  BY <1>0, <1>1 DEF LinksOK
<1>7. nx \in Slots \cup {Null} /\ pv \in Slots \cup {Null} /\ p \in Slots \cup {Null}
  BY <1>0
<1>8. nx # s /\ pv # s
  BY ListPlace
<1> HIDE DEF nx, pv, p
<1>9. FreeBlank(t)
  BY <1>1, <1>2, <1>6, <1>5, <1>7, <1>0 DEF FreeBlank, LinksOK
<1>10. LinksOK(t)
  <2> SUFFICES ASSUME NEW i \in Slots, t[i].used
               PROVE  /\ t[i].parent # Null => /\ t[t[i].parent].used
                                               /\ t[t[i].parent].object = t[i].object
                      /\ t[i].parent = Null => t[i].next = Null /\ t[i].prev = Null
                      /\ t[i].first # Null => /\ t[t[i].first].used
                                              /\ t[t[i].first].parent = i
                                              /\ t[t[i].first].prev = Null
                      /\ t[i].next # Null => /\ t[t[i].next].used
                                             /\ t[t[i].next].prev = i
                                             /\ t[t[i].next].parent = t[i].parent
                      /\ t[i].prev # Null => t[t[i].prev].used /\ t[t[i].prev].next = i
    BY DEF LinksOK
  <2>0. i # s /\ sl[i].used
    BY <1>2
  <2>1. t[i].parent # Null => t[t[i].parent].used /\ t[t[i].parent].object = t[i].object
    BY <1>0, <1>1, <1>2, <1>4, <2>0 DEF LinksOK
  <2>2. t[i].parent = Null => t[i].next = Null /\ t[i].prev = Null
    BY <1>0, <1>1, <1>2, <1>6, <1>7, <2>0 DEF LinksOK
  <2>3. t[i].first # Null => /\ t[t[i].first].used
                             /\ t[t[i].first].parent = i /\ t[t[i].first].prev = Null
    BY <1>0, <1>1, <1>2, <1>3, <1>5, <1>6, <1>7, <1>8, <2>0 DEF LinksOK
  <2>4. t[i].next # Null => /\ t[t[i].next].used
                            /\ t[t[i].next].prev = i /\ t[t[i].next].parent = t[i].parent
    BY <1>0, <1>1, <1>2, <1>3, <1>5, <1>6, <1>7, <1>8, <2>0 DEF LinksOK
  <2>5. t[i].prev # Null => t[t[i].prev].used /\ t[t[i].prev].next = i
    BY <1>0, <1>1, <1>2, <1>3, <1>5, <1>6, <1>7, <1>8, <2>0 DEF LinksOK
  <2> QED BY <2>1, <2>2, <2>3, <2>4, <2>5
<1>11. Reach(t)
  <2>1. ASSUME NEW i \in Slots, t[i].used, t[i].first = Null
        PROVE  Kids(t, i) = {}
    <3>1. CASE sl[i].first = Null
      BY <1>1, <1>2, <2>1, <3>1 DEF Reach, Kids
    <3>2. CASE sl[i].first # Null
      <4>1. pv = Null /\ i = p /\ nx = Null /\ sl[i].first = s
        BY <1>2, <1>3, <2>1, <3>2
      <4>2. NextClosed(sl, {s})
        BY <4>1 DEF NextClosed, nx
      <4>3. Kids(sl, i) \subseteq {s}
        BY <1>1, <1>2, <2>1, <4>1, <4>2 DEF Reach
      <4> QED BY <1>2, <4>3 DEF Kids
    <3> QED BY <3>1, <3>2
  <2>2. ASSUME NEW i \in Slots, t[i].used, NEW T \in SUBSET Slots,
               t[i].first \in T, NextClosed(t, T)
        PROVE  Kids(t, i) \subseteq T
    <3>0. i # s /\ sl[i].used
      BY <1>2, <2>2
    <3>1. CASE i = p
      <4> DEFINE U == IF pv = Null \/ pv \in T THEN T \cup {s} ELSE T \ {s}
      <4>1. nx \in U \cup {Null} \/ s \notin U
        BY <1>2, <1>3, <1>8, <2>2, <3>1, <3>0, <1>7 DEF NextClosed
      <4>2. \A y \in U : sl[y].next \in U \cup {Null}
        BY <1>0, <1>2, <1>5, <1>6, <2>2, <4>1 DEF NextClosed, nx
      <4>3. sl[i].first \in U
        BY <1>2, <1>3, <1>5, <2>2, <3>0, <3>1, <1>7
      <4>4. Kids(sl, i) \subseteq U
        BY <1>1, <3>0, <4>2, <4>3 DEF Reach, NextClosed
      <4> QED BY <1>2, <4>4 DEF Kids
    <3>2. CASE i # p
      <4> DEFINE U == T \cap Kids(sl, i)
      <4>1. sl[i].first = t[i].first /\ sl[i].first \in Kids(sl, i)
        BY <1>0, <1>1, <1>2, <2>2, <3>0, <3>2 DEF LinksOK, Kids
      <4>2. \A y \in U : sl[y].next = t[y].next
        BY <1>2, <1>6, <3>2 DEF Kids, p
      <4>3. \A y \in U : sl[y].next \in Kids(sl, i) \cup {Null}
        BY <1>0, <1>1 DEF LinksOK, Kids
      <4>4. NextClosed(sl, U)
        BY <2>2, <4>2, <4>3 DEF NextClosed
      <4>5. Kids(sl, i) \subseteq U
        BY <1>1, <2>2, <3>0, <4>1, <4>4 DEF Reach
      <4> QED BY <1>2, <4>5 DEF Kids
    <3> QED BY <3>1, <3>2
  <2> QED BY <2>1, <2>2 DEF Reach
<1>12. NoSelf(t)
  BY <1>1, <1>2 DEF NoSelf
<1> QED BY <1>2, <1>9, <1>10, <1>11, <1>12, ListsReach DEF TreeOK

\* move_cap: d is free, and takes the place of s.
LEMMA MoveSlotTree ==
  ASSUME NEW sl, TreeOK(sl), NEW s \in Slots, NEW d \in Slots,
         sl[s].used, ~sl[d].used, NEW t, Moved(sl, s, d, t)
  PROVE  TreeOK(t)
<1> DEFINE nx == sl[s].next
           pv == sl[s].prev
           p  == sl[s].parent
<1> USE SlotFacts
<1>1. sl \in Table /\ LinksOK(sl) /\ FreeBlank(sl) /\ NoSelf(sl) /\ Reach(sl)
  BY ListsReach DEF TreeOK
<1>0. \A i \in Slots :
        /\ sl[i].parent \in Slots \cup {Null} /\ sl[i].first \in Slots \cup {Null}
        /\ sl[i].next \in Slots \cup {Null} /\ sl[i].prev \in Slots \cup {Null}
  BY <1>1, LinkFields
<1>2. ChildList(sl, s) = {c \in Slots : sl[c].used /\ sl[c].parent = s}
  BY DEF TreeOK, ListsOK, Kids
<1>3. \A i \in Slots : sl[i].parent = s => sl[i].used
  BY <1>1 DEF FreeBlank
<1>4. /\ t \in Table /\ s # d
      /\ ~t[s].used /\ t[s].parent = Null /\ t[s].first = Null
      /\ t[s].next = Null /\ t[s].prev = Null
      /\ t[d].used /\ t[d].object = sl[s].object
      /\ t[d].parent = p /\ t[d].first = sl[s].first
      /\ t[d].next = nx /\ t[d].prev = pv
      /\ \A i \in Slots \ {s, d} :
           /\ t[i].used = sl[i].used /\ t[i].object = sl[i].object
           /\ t[i].parent = IF sl[i].parent = s THEN d ELSE sl[i].parent
           /\ t[i].prev = IF i = nx THEN d ELSE sl[i].prev
           /\ t[i].next = IF i = pv THEN d ELSE sl[i].next
           /\ t[i].first = IF pv = Null /\ i = p THEN d ELSE sl[i].first
  BY <1>2, <1>3 DEF Moved
<1>5. /\ p # Null /\ pv = Null => sl[p].first = s
      /\ nx # s /\ pv # s /\ (nx # Null => nx # pv)
  BY ListPlace
<1>6. \A i \in Slots : /\ sl[i].next = s => i = pv
                       /\ sl[i].prev = s => i = nx
                       /\ sl[i].first = s => pv = Null /\ i = p
  BY <1>1 DEF LinksOK, FreeBlank
<1>7. /\ pv # Null => sl[pv].used /\ sl[pv].next = s /\ sl[pv].parent = p /\ p # Null
      /\ nx # Null => sl[nx].used /\ sl[nx].prev = s /\ sl[nx].parent = p /\ p # Null
      /\ p # Null => sl[p].used
  BY <1>0, <1>1 DEF LinksOK
<1>8. nx \in Slots \cup {Null} /\ pv \in Slots \cup {Null} /\ p \in Slots \cup {Null} /\ p # s
  BY <1>0, <1>1 DEF NoSelf
<1>9. \A i \in Slots : /\ sl[i].first # d /\ sl[i].next # d /\ sl[i].prev # d
                       /\ sl[i].parent # d
  BY <1>1 DEF LinksOK, FreeBlank
<1>10. p # d /\ nx # d /\ pv # d
  BY <1>9
<1> HIDE DEF nx, pv, p
<1>11. FreeBlank(t)
  BY <1>0, <1>1, <1>4, <1>6, <1>7, <1>8 DEF FreeBlank
<1>12. LinksOK(t)
  <2> SUFFICES ASSUME NEW i \in Slots, t[i].used
               PROVE  /\ t[i].parent # Null => /\ t[t[i].parent].used
                                               /\ t[t[i].parent].object = t[i].object
                      /\ t[i].parent = Null => t[i].next = Null /\ t[i].prev = Null
                      /\ t[i].first # Null => /\ t[t[i].first].used
                                              /\ t[t[i].first].parent = i
                                              /\ t[t[i].first].prev = Null
                      /\ t[i].next # Null => /\ t[t[i].next].used
                                             /\ t[t[i].next].prev = i
                                             /\ t[t[i].next].parent = t[i].parent
                      /\ t[i].prev # Null => t[t[i].prev].used /\ t[t[i].prev].next = i
    BY DEF LinksOK
  <2>0. i # s /\ (i # d => sl[i].used)
    BY <1>4
  <2>1. t[i].parent # Null => t[t[i].parent].used /\ t[t[i].parent].object = t[i].object
    <3>1. CASE i = d
      BY <1>1, <1>4, <1>7, <1>8, <1>10, <3>1 DEF LinksOK, p
    <3>2. CASE i # d
      BY <1>0, <1>1, <1>4, <1>9, <2>0, <3>2 DEF LinksOK
    <3> QED BY <3>1, <3>2
  <2>2. t[i].parent = Null => t[i].next = Null /\ t[i].prev = Null
    <3>1. CASE i = d
      BY <1>4, <1>7, <3>1
    <3>2. CASE i # d
      BY <1>0, <1>1, <1>4, <1>7, <1>8, <1>9, <2>0, <3>2 DEF LinksOK
    <3> QED BY <3>1, <3>2
  <2>3. t[i].first # Null => /\ t[t[i].first].used
                             /\ t[t[i].first].parent = i /\ t[t[i].first].prev = Null
    <3>1. CASE i = d
      BY <1>0, <1>1, <1>4, <1>5, <1>6, <1>7, <1>8, <1>9, <1>10, <3>1 DEF LinksOK, NoSelf
    <3>2. CASE i # d
      BY <1>0, <1>1, <1>4, <1>5, <1>6, <1>7, <1>8, <1>9, <1>10, <2>0, <3>2 DEF LinksOK
    <3> QED BY <3>1, <3>2
  <2>4. t[i].next # Null => /\ t[t[i].next].used
                            /\ t[t[i].next].prev = i /\ t[t[i].next].parent = t[i].parent
    <3>1. CASE i = d
      BY <1>0, <1>1, <1>4, <1>5, <1>6, <1>7, <1>8, <1>9, <1>10, <3>1
    <3>2. CASE i # d
      BY <1>0, <1>1, <1>4, <1>5, <1>6, <1>7, <1>8, <1>9, <1>10, <2>0, <3>2 DEF LinksOK
    <3> QED BY <3>1, <3>2
  <2>5. t[i].prev # Null => t[t[i].prev].used /\ t[t[i].prev].next = i
    <3>1. CASE i = d
      BY <1>0, <1>1, <1>4, <1>5, <1>6, <1>7, <1>8, <1>9, <1>10, <3>1
    <3>2. CASE i # d
      BY <1>0, <1>1, <1>4, <1>5, <1>6, <1>7, <1>8, <1>9, <1>10, <2>0, <3>2 DEF LinksOK
    <3> QED BY <3>1, <3>2
  <2> QED BY <2>1, <2>2, <2>3, <2>4, <2>5
<1>13. Reach(t)
  <2>1. ASSUME NEW i \in Slots, t[i].used, NEW j \in Slots \ {d},
               (i = d /\ j = s) \/ (i # d /\ i # s /\ j = i)
        PROVE  /\ sl[j].used
               /\ \A c \in Kids(t, i) : (c = d /\ s \in Kids(sl, j)) \/ c \in Kids(sl, j) \ {s}
               /\ t[i].first = (IF sl[j].first = s THEN d ELSE sl[j].first)
    BY <1>1, <1>3, <1>4, <1>5, <1>6, <1>8, <1>9, <1>10, <2>1 DEF Kids, NoSelf, p
  <2>2. ASSUME NEW i \in Slots, t[i].used, t[i].first = Null
        PROVE  Kids(t, i) = {}
    <3>1. PICK j \in Slots \ {d} : (i = d /\ j = s) \/ (i # d /\ i # s /\ j = i)
      BY <1>4, <2>2
    <3>2. sl[j].first = Null /\ sl[j].used
      BY <2>1, <2>2, <3>1
    <3>3. Kids(sl, j) = {}
      BY <1>1, <3>2 DEF Reach
    <3> QED BY <2>1, <2>2, <3>1, <3>3
  <2>3. ASSUME NEW i \in Slots, t[i].used, NEW T \in SUBSET Slots,
               t[i].first \in T, NextClosed(t, T)
        PROVE  Kids(t, i) \subseteq T
    <3>1. PICK j \in Slots \ {d} : (i = d /\ j = s) \/ (i # d /\ i # s /\ j = i)
      BY <1>4, <2>3
    <3> DEFINE U == {x \in Slots \ {d} : IF x = s THEN d \in T ELSE x \in T}
    <3>2. sl[j].first \in U
      BY <1>0, <1>9, <2>1, <2>3, <3>1
    <3>3. ASSUME NEW y \in U PROVE sl[y].next \in U \cup {Null}
      <4>1. CASE y = s
        BY <1>4, <1>5, <1>8, <1>10, <2>3, <3>3, <4>1 DEF NextClosed, nx
      <4>2. CASE y # s
        BY <1>0, <1>4, <1>6, <1>7, <1>9, <2>3, <3>3, <4>2 DEF NextClosed
      <4> QED BY <4>1, <4>2
    <3>4. Kids(sl, j) \subseteq U
      <4>1. sl[j].used
        BY <2>1, <2>3, <3>1
      <4>2. U \in SUBSET Slots /\ NextClosed(sl, U)
        BY <3>3 DEF NextClosed
      <4> HIDE DEF U
      <4> QED BY <1>1, <3>2, <4>1, <4>2 DEF Reach
    <3> QED BY <2>1, <2>3, <3>1, <3>4
  <2> QED BY <2>2, <2>3 DEF Reach
<1>14. NoSelf(t)
  BY <1>1, <1>4, <1>8, <1>9, <1>10 DEF NoSelf
<1> QED BY <1>4, <1>11, <1>12, <1>13, <1>14, ListsReach DEF TreeOK

-----------------------------------------------------------------------------
(* The inductive invariant.  TypeOK needs the reference counts (delete     *)
(* subtracts one), the counts need every used slot to name a used object,  *)
(* and that needs the tree to be well formed when leaves are deleted and   *)
(* capabilities moved: none of the parts is inductive alone.               *)

IInv ==
  /\ TypeOK
  /\ TreeOK(slots)
  /\ \A i \in Slots : slots[i].used => slots[i].object \in Objects
  /\ \A o \in Objects : objects[o].used => objects[o].kind \in Kinds
  /\ RefcountExact
  /\ revoking # Null => slots[revoking].used

\* The slots that name an object are finitely many, so that they can be counted.
LEMMA RefsFinite ==
  ASSUME NEW sl, NEW o
  PROVE  IsFiniteSet(Refs(sl, o)) /\ Cardinality(Refs(sl, o)) \in Nat
<1>1. IsFiniteSet(Slots)
  BY TablesAssumption, FS_Interval DEF Slots
<1>2. Refs(sl, o) \in SUBSET Slots
  BY DEF Refs
<1>3. IsFiniteSet(Refs(sl, o))
  BY <1>1, <1>2, FS_Subset
<1> QED BY <1>3, FS_CardinalityType

\* The handle an operation returns for a slot is a CapPtr.
LEMMA PtrType ==
  ASSUME NEW sl \in Table, NEW d \in Slots
  PROVE  ptr(d, sl) \in CapPtr
<1>1. sl[d].gen \in Nat /\ GenMod \in Nat \ {0}
  BY SlotFields, TablesAssumption
<1>2. sl[d].gen % GenMod \in 0..(GenMod - 1)
  BY <1>1
<1> QED BY <1>2 DEF ptr, CapPtr

\* A used slot names a used object of a known kind.
LEMMA NamedObject ==
  ASSUME IInv, NEW s \in Slots, slots[s].used
  PROVE  /\ slots[s].object \in Objects /\ objects[slots[s].object].used
         /\ objects[slots[s].object].kind \in Kinds
         /\ objects[slots[s].object] \in Object
         /\ objects[slots[s].object].refcount = Cardinality(Refs(slots, slots[s].object))
         /\ s \in Refs(slots, slots[s].object)
<1>1. slots[s].object \in Objects /\ s \in Refs(slots, slots[s].object)
  BY DEF IInv, Refs
<1>2. objects[slots[s].object].used
  BY <1>1 DEF IInv, RefcountExact
<1> QED BY <1>1, <1>2 DEF IInv, RefcountExact, TypeOK

\* What a used slot authorises is a region of the address space.
LEMMA EffectiveType ==
  ASSUME IInv, NEW s \in Slots, slots[s].used
  PROVE  Effective(s) \in Region
<1>1. slots[s].window \in Region
  BY SlotFields DEF IInv, TypeOK, Table
<1>2. RegionOf[objects[slots[s].object].kind] \in Region
  BY NamedObject, TablesAssumption
<1> QED BY <1>1, <1>2 DEF Effective

\* The empty tables satisfy the inductive invariant.
LEMMA InitIInv == Init => IInv
<1> SUFFICES ASSUME Init PROVE IInv
  OBVIOUS
<1>1. \A i \in Slots : slots[i] = EmptySlot(0)
  BY DEF Init
<1>2. \A i \in Slots : /\ slots[i] \in Slot /\ ~slots[i].used
                       /\ slots[i].parent = Null /\ slots[i].first = Null
                       /\ slots[i].next = Null /\ slots[i].prev = Null
  BY <1>1, EmptySlotType
<1>3. slots \in Table
  BY <1>2 DEF Init, Table
<1>4. TreeOK(slots)
  BY <1>2, <1>3, SlotFacts DEF TreeOK, FreeBlank, NoSelf, LinksOK, ListsOK
<1>5. objects \in [Objects -> Object] /\ \A o \in Objects : ~objects[o].used
  BY DEF Init, Object
<1>6. fin \in FinReport /\ owner \in [RegionKinds -> {"alloc", "caps", "teardown", "lost"}]
  BY DEF Init, NoReport, FinReport
<1>7. TypeOK
  BY <1>3, <1>5, <1>6 DEF Init, TypeOK, Table
<1>8. RefcountExact
  BY <1>2, <1>5 DEF RefcountExact, Refs
<1> QED BY <1>2, <1>4, <1>5, <1>7, <1>8 DEF IInv, Init

-----------------------------------------------------------------------------
(* alloc_slot                                                              *)

Allocated(sl, d, o, r, b, w, t) ==
  /\ t \in Table
  /\ t[d].used /\ t[d].gen = sl[d].gen /\ t[d].object = o /\ t[d].rights = r
  /\ t[d].badge = b /\ t[d].window = w
  /\ t[d].parent = Null /\ t[d].first = Null /\ t[d].next = Null /\ t[d].prev = Null
  /\ \A i \in Slots \ {d} : t[i] = sl[i]

\* What alloc_slot leaves in every slot, field by field.
LEMMA AllocSlotFields ==
  ASSUME NEW sl \in Table, NEW d \in Slots, NEW o \in Objects, NEW r \in SUBSET RightBits,
         NEW b \in Badges, NEW w \in Region
  PROVE  Allocated(sl, d, o, r, b, w, AllocSlot(sl, d, o, r, b, w))
<1> DEFINE t == AllocSlot(sl, d, o, r, b, w)
<1>1. sl[d].gen \in Nat /\ sl \in [Slots -> Slot]
  BY SlotFields DEF Table
<1>2. t = [sl EXCEPT ![d] =
             [used |-> TRUE, gen |-> sl[d].gen, object |-> o, rights |-> r, badge |-> b,
              window |-> w, parent |-> Null, first |-> Null, next |-> Null, prev |-> Null]]
  BY DEF AllocSlot
<1>3. [used |-> TRUE, gen |-> sl[d].gen, object |-> o, rights |-> r, badge |-> b,
       window |-> w, parent |-> Null, first |-> Null, next |-> Null, prev |-> Null] \in Slot
  BY <1>1 DEF Slot
<1>4. t \in [Slots -> Slot]
  BY <1>1, <1>2, <1>3
<1>5. t[d] = [used |-> TRUE, gen |-> sl[d].gen, object |-> o, rights |-> r, badge |-> b,
       window |-> w, parent |-> Null, first |-> Null, next |-> Null, prev |-> Null]
  BY <1>1, <1>2
<1>6. \A i \in Slots \ {d} : t[i] = sl[i]
  BY <1>1, <1>2
<1> QED BY <1>4, <1>5, <1>6 DEF Allocated, Table

\* Filling a free slot that nothing links to keeps the tree.
LEMMA AllocSlotTree ==
  ASSUME NEW sl, TreeOK(sl), NEW d \in Slots, ~sl[d].used,
         NEW o, NEW r, NEW b, NEW w, NEW t, Allocated(sl, d, o, r, b, w, t)
  PROVE  TreeOK(t)
<1> USE SlotFacts
<1>1. sl \in Table /\ LinksOK(sl) /\ FreeBlank(sl) /\ NoSelf(sl) /\ Reach(sl)
  BY ListsReach DEF TreeOK
<1>0. \A i \in Slots :
        /\ sl[i].parent \in Slots \cup {Null} /\ sl[i].first \in Slots \cup {Null}
        /\ sl[i].next \in Slots \cup {Null} /\ sl[i].prev \in Slots \cup {Null}
  BY <1>1, LinkFields
<1>2. /\ t \in Table
      /\ t[d].parent = Null /\ t[d].first = Null /\ t[d].next = Null /\ t[d].prev = Null
      /\ t[d].used
      /\ \A i \in Slots \ {d} : t[i] = sl[i]
  BY DEF Allocated
<1>3. sl[d].parent = Null /\ sl[d].first = Null /\ sl[d].next = Null /\ sl[d].prev = Null
  BY <1>1 DEF FreeBlank
<1>4. \A i \in Slots : /\ sl[i].first # d /\ sl[i].next # d /\ sl[i].prev # d
                       /\ sl[i].parent # d
  BY <1>1 DEF LinksOK, FreeBlank
<1>5. FreeBlank(t) /\ NoSelf(t)
  BY <1>1, <1>2 DEF FreeBlank, NoSelf
<1>6. LinksOK(t)
  BY <1>0, <1>1, <1>2, <1>4 DEF LinksOK
<1>7. \A i \in Slots : Kids(t, i) = Kids(sl, i)
  BY <1>0, <1>2, <1>3, SlotFacts DEF Kids
<1>8. Kids(t, d) = {}
  BY <1>4, <1>7 DEF Kids
<1>9. \A T \in SUBSET Slots : NextClosed(t, T) <=> NextClosed(sl, T)
  BY <1>2, <1>3 DEF NextClosed
<1>10. Reach(t)
  BY <1>1, <1>2, <1>7, <1>8, <1>9 DEF Reach
<1> QED BY <1>2, <1>5, <1>6, <1>10, ListsReach DEF TreeOK

\* install keeps the inductive invariant.
LEMMA InstallIInv ==
  ASSUME IInv, NEW k \in Kinds, NEW r \in SUBSET RightBits, Install(k, r)
  PROVE  IInv'
<1>1. PICK d \in Slots, o \in Objects :
        /\ FirstFreeSlot(d) /\ FirstFreeObject(o)
        /\ slots' = AllocSlot(slots, d, o, r, 0, NoWindow)
        /\ objects' = [objects EXCEPT ![o] = [used |-> TRUE, kind |-> k, refcount |-> 1]]
        /\ owner' = IF k \in RegionKinds THEN [owner EXCEPT ![k] = "caps"] ELSE owner
        /\ issued' = issued \cup {ptr(d, slots')}
        /\ UNCHANGED <<revoking, fin>>
  BY DEF Install
<1>2. slots \in Table /\ objects \in [Objects -> Object] /\ TreeOK(slots)
  BY DEF IInv, TypeOK, Table
<1>3. ~slots[d].used /\ ~objects[o].used
  BY <1>1 DEF FirstFreeSlot, FirstFreeObject
<1>4. 0 \in Badges /\ NoWindow \in Region
  BY TablesAssumption DEF NoWindow, Region
<1>5. Allocated(slots, d, o, r, 0, NoWindow, slots')
  BY <1>1, <1>2, <1>4, AllocSlotFields
<1>6. TreeOK(slots')
  BY <1>2, <1>3, <1>5, AllocSlotTree
<1>7. /\ objects' \in [Objects -> Object]
      /\ objects'[o].used /\ objects'[o].kind = k /\ objects'[o].refcount = 1
      /\ \A x \in Objects \ {o} : objects'[x] = objects[x]
  BY <1>1, <1>2 DEF Object
<1>8. TypeOK'
  <2>1. slots' \in Table
    BY <1>5 DEF Allocated
  <2>2. issued' \subseteq CapPtr
    BY <1>1, <2>1, PtrType DEF IInv, TypeOK
  <2> QED BY <1>1, <1>7, <2>1, <2>2 DEF IInv, TypeOK, Table
<1>9. /\ slots'[d].used /\ slots'[d].object = o
      /\ \A i \in Slots \ {d} : slots'[i] = slots[i]
  BY <1>5 DEF Allocated
<1>10. Refs(slots', o) = {d}
  <2>1. Refs(slots, o) = {}
    BY <1>3 DEF IInv, RefcountExact
  <2> QED BY <1>3, <1>9, <2>1 DEF Refs
<1>11. \A x \in Objects \ {o} : Refs(slots', x) = Refs(slots, x)
  BY <1>3, <1>9 DEF Refs
<1>12. RefcountExact'
  BY <1>7, <1>10, <1>11, FS_Singleton, ZenonT(40) DEF IInv, RefcountExact
<1>13. \A i \in Slots : slots'[i].used => slots'[i].object \in Objects
  BY <1>9 DEF IInv
<1>14. \A x \in Objects : objects'[x].used => objects'[x].kind \in Kinds
  BY <1>7 DEF IInv
<1>15. revoking' # Null => slots'[revoking'].used
  BY <1>1, <1>3, <1>9, SlotFacts DEF IInv, TypeOK
<1> QED BY <1>6, <1>8, <1>12, <1>13, <1>14, <1>15 DEF IInv

\* copy, mint and subregion: the common part.
LEMMA DeriveIInv ==
  ASSUME IInv, NEW s \in Slots, slots[s].used, NEW r \in SUBSET RightBits,
         NEW b \in Badges, NEW w \in Region, Derive(s, r, b, w)
  PROVE  IInv'
<1> DEFINE o == slots[s].object
           rr == slots[s].rights \cap r
<1>1. PICK d \in Slots :
        /\ FirstFreeSlot(d)
        /\ slots' = LinkChild(AllocSlot(slots, d, o, rr, b, w), s, d)
        /\ objects' = [objects EXCEPT ![o].refcount = @ + 1]
        /\ issued' = issued \cup {ptr(d, slots')}
        /\ UNCHANGED <<owner, revoking, fin>>
  BY DEF Derive
<1>2. slots \in Table /\ objects \in [Objects -> Object] /\ TreeOK(slots)
  BY DEF IInv, TypeOK, Table
<1>3. ~slots[d].used /\ s # d
  BY <1>1 DEF FirstFreeSlot
<1>4. /\ o \in Objects /\ objects[o].used /\ objects[o] \in Object /\ objects[o].kind \in Kinds
      /\ objects[o].refcount = Cardinality(Refs(slots, o)) /\ rr \in SUBSET RightBits
  BY <1>2, NamedObject, SlotFields
<1> DEFINE m == AllocSlot(slots, d, o, rr, b, w)
<1>5. Allocated(slots, d, o, rr, b, w, m)
  BY <1>2, <1>4, AllocSlotFields
<1> HIDE DEF o, rr, m
<1>6. TreeOK(m) /\ m \in Table
  BY <1>2, <1>3, <1>5, AllocSlotTree DEF TreeOK
<1>7. /\ m[d].used /\ m[d].object = o /\ m[d].parent = Null /\ m[d].first = Null
      /\ m[s] = slots[s]
      /\ \A i \in Slots \ {d} : m[i] = slots[i]
  BY <1>3, <1>5 DEF Allocated
<1>8. Linked(m, s, d, slots')
  BY <1>1, <1>3, <1>6, LinkChildFields DEF m
<1>9. TreeOK(slots')
  BY <1>3, <1>6, <1>7, <1>8, LinkChildTree DEF o
<1>10. /\ slots' \in Table
       /\ \A i \in Slots : slots'[i].used = m[i].used /\ slots'[i].object = m[i].object
  BY <1>8 DEF Linked
<1>11. /\ objects' \in [Objects -> Object]
       /\ objects'[o].used /\ objects'[o].kind = objects[o].kind
       /\ objects'[o].refcount = objects[o].refcount + 1
       /\ \A x \in Objects \ {o} : objects'[x] = objects[x]
  BY <1>1, <1>2, <1>4 DEF Object, o
<1>12. Refs(slots', o) = Refs(slots, o) \cup {d} /\ d \notin Refs(slots, o)
  BY <1>3, <1>7, <1>10 DEF Refs
<1>13. \A x \in Objects \ {o} : Refs(slots', x) = Refs(slots, x)
  BY <1>3, <1>7, <1>10 DEF Refs
<1>14. RefcountExact'
  <2>1. Cardinality(Refs(slots', o)) = Cardinality(Refs(slots, o)) + 1
    BY <1>12, RefsFinite, FS_AddElement
  <2> QED BY <1>4, <1>11, <1>12, <1>13, <2>1 DEF IInv, RefcountExact
<1>15. issued' \subseteq CapPtr
  BY <1>1, <1>10, PtrType DEF IInv, TypeOK
<1>16. TypeOK'
  BY <1>1, <1>10, <1>11, <1>15 DEF IInv, TypeOK, Table
<1>17. \A i \in Slots : slots'[i].used => slots'[i].object \in Objects
  BY <1>4, <1>7, <1>10 DEF IInv
<1>18. \A x \in Objects : objects'[x].used => objects'[x].kind \in Kinds
  BY <1>4, <1>11 DEF IInv
<1>19. revoking' # Null => slots'[revoking'].used
  BY <1>1, <1>3, <1>7, <1>10 DEF IInv, TypeOK
<1> QED BY <1>9, <1>14, <1>16, <1>17, <1>18, <1>19 DEF IInv

\* move keeps the inductive invariant.
LEMMA MoveCapIInv ==
  ASSUME IInv, NEW p \in CapPtr, MoveCap(p)
  PROVE  IInv'
<1> DEFINE s == p.slot
<1>1. PICK d \in Slots :
        /\ revoking = Null /\ slots[s].used /\ FirstFreeSlot(d)
        /\ slots' = MoveSlot(slots, s, d)
        /\ issued' = issued \cup {ptr(d, slots')}
        /\ UNCHANGED <<objects, owner, revoking, fin>>
  BY DEF MoveCap, Presents, Resolves
<1>2. slots \in Table /\ TreeOK(slots) /\ s \in Slots
  BY DEF IInv, TypeOK, Table, CapPtr
<1> HIDE DEF s
<1>3. ~slots[d].used /\ s # d
  BY <1>1 DEF FirstFreeSlot
<1>4. Moved(slots, s, d, slots')
  BY <1>1, <1>2, <1>3, MoveSlotFields
<1>5. TreeOK(slots')
  BY <1>1, <1>2, <1>3, <1>4, MoveSlotTree
<1>6. /\ slots' \in Table /\ ~slots'[s].used
      /\ slots'[d].used = slots[s].used /\ slots'[d].object = slots[s].object
      /\ \A i \in Slots \ {s, d} : /\ slots'[i].used = slots[i].used
                                   /\ slots'[i].object = slots[i].object
  BY <1>4 DEF Moved
<1>7. issued' \subseteq CapPtr
  BY <1>1, <1>6, PtrType DEF IInv, TypeOK
<1>8. TypeOK'
  BY <1>1, <1>6, <1>7 DEF IInv, TypeOK, Table
<1>9. ASSUME NEW o \in Objects
      PROVE  /\ Cardinality(Refs(slots', o)) = Cardinality(Refs(slots, o))
             /\ Refs(slots', o) = {} <=> Refs(slots, o) = {}
  <2>1. CASE slots[s].object = o
    <3> DEFINE R == Refs(slots, o) \ {s}
    <3>1. Refs(slots', o) = R \cup {d} /\ d \notin R /\ s \in Refs(slots, o)
      BY <1>1, <1>2, <1>3, <1>6, <2>1 DEF Refs
    <3>2. IsFiniteSet(R) /\ Cardinality(R) = Cardinality(Refs(slots, o)) - 1
      BY <3>1, RefsFinite, FS_RemoveElement
    <3>3. Cardinality(R \cup {d}) = Cardinality(R) + 1
      BY <3>1, <3>2, FS_AddElement
    <3>4. Cardinality(Refs(slots, o)) \in Nat
      BY RefsFinite
    <3> QED BY <3>1, <3>2, <3>3, <3>4
  <2>2. CASE slots[s].object # o
    <3>1. Refs(slots', o) = Refs(slots, o)
      BY <1>1, <1>3, <1>6, <2>2 DEF Refs
    <3> QED BY <3>1
  <2> QED BY <2>1, <2>2
<1>10. RefcountExact'
  BY <1>1, <1>9 DEF IInv, RefcountExact
<1>11. \A i \in Slots : slots'[i].used => slots'[i].object \in Objects
  BY <1>1, <1>2, <1>6 DEF IInv
<1> QED BY <1>1, <1>5, <1>8, <1>10, <1>11 DEF IInv

\* The report of a deletion has the type of a Finalized.
LEMMA ReportType ==
  ASSUME IInv, NEW s \in Slots, slots[s].used, NEW f \in FinReport, NEW last \in BOOLEAN
  PROVE  Report(f, s, last) \in FinReport
<1>1. objects[slots[s].object].kind \in Kinds
  BY NamedObject
<1> DEFINE k == objects[slots[s].object].kind
<1> HIDE DEF k
<1>2. /\ f.reply \in SUBSET Kinds /\ f.dma \in SUBSET Kinds /\ f.debug \in SUBSET Kinds
      /\ f.gn \in Nat /\ f.overflow \in BOOLEAN
  BY DEF FinReport
<1>3. NObjects \in Nat
  BY TablesAssumption
<1> QED BY <1>1, <1>2, <1>3 DEF Report, FinReport

\* Deleting a leaf, by delete or in an iteration of revoke, keeps the inductive invariant.
LEMMA DeleteLeafIInv ==
  ASSUME IInv, NEW s \in Slots, slots[s].used, slots[s].first = Null,
         NEW f \in FinReport, DeleteLeaf(s, f),
         UNCHANGED <<issued, revoking>>, s # revoking
  PROVE  IInv'
<1> DEFINE o == slots[s].object
           k == objects[o].kind
           last == objects[o].refcount = 1
<1>1. /\ slots' = Unlink(slots, s)
      /\ objects' = IF last
                    THEN [objects EXCEPT ![o] = [used |-> FALSE, kind |-> Null, refcount |-> 0]]
                    ELSE [objects EXCEPT ![o].refcount = @ - 1]
      /\ owner' = IF last /\ k \in RegionKinds
                  THEN [owner EXCEPT ![k] = IF TypeOf[k] = "Dma" THEN "teardown" ELSE "alloc"]
                  ELSE owner
      /\ fin' = Report(f, s, last)
  BY DEF DeleteLeaf
<1>2. slots \in Table /\ objects \in [Objects -> Object] /\ TreeOK(slots)
  BY DEF IInv, TypeOK, Table
<1>3. /\ o \in Objects /\ objects[o].used /\ k \in Kinds /\ objects[o] \in Object
      /\ objects[o].refcount = Cardinality(Refs(slots, o)) /\ s \in Refs(slots, o)
  BY NamedObject
<1>4. Unlinked(slots, s, slots')
  BY <1>1, <1>2, UnlinkFields
<1>5. TreeOK(slots')
  BY <1>2, <1>4, UnlinkTree
<1>6. /\ slots' \in Table /\ ~slots'[s].used
      /\ \A i \in Slots \ {s} : /\ slots'[i].used = slots[i].used
                                /\ slots'[i].object = slots[i].object
  BY <1>4 DEF Unlinked
<1>7. fin' \in FinReport
  BY <1>1, ReportType
<1> HIDE DEF o, k
<1>8. /\ Refs(slots', o) = Refs(slots, o) \ {s}
      /\ \A x \in Objects \ {o} : Refs(slots', x) = Refs(slots, x)
  BY <1>6 DEF Refs, o
<1>9. /\ Cardinality(Refs(slots', o)) = Cardinality(Refs(slots, o)) - 1
      /\ Cardinality(Refs(slots', o)) \in Nat
      /\ Cardinality(Refs(slots', o)) = 0 <=> Refs(slots', o) = {}
  <2>1. IsFiniteSet(Refs(slots, o)) /\ IsFiniteSet(Refs(slots', o))
        /\ Cardinality(Refs(slots', o)) \in Nat
    BY RefsFinite
  <2>2. Cardinality(Refs(slots', o)) = Cardinality(Refs(slots, o)) - 1
    BY <1>3, <1>8, <2>1, FS_RemoveElement
  <2> QED BY <2>1, <2>2, FS_EmptySet
<1>10. /\ objects' \in [Objects -> Object]
       /\ objects'[o].used <=> ~last
       /\ ~last => /\ objects'[o].kind = objects[o].kind
                   /\ objects'[o].refcount = objects[o].refcount - 1
       /\ \A x \in Objects \ {o} : objects'[x] = objects[x]
  <2>1. objects[o].refcount - 1 \in Nat
    BY <1>3, <1>9
  <2>2. CASE last
    <3>1. objects' = [objects EXCEPT ![o] = [used |-> FALSE, kind |-> Null, refcount |-> 0]]
      BY <1>1, <2>2
    <3> QED BY <1>2, <1>3, <2>2, <3>1 DEF Object
  <2>3. CASE ~last
    <3>1. objects' = [objects EXCEPT ![o].refcount = @ - 1]
      BY <1>1, <2>3
    <3> QED BY <1>2, <1>3, <2>1, <2>3, <3>1 DEF Object, o
  <2> QED BY <2>2, <2>3
<1>11. RefcountExact'
  <2>1. IF objects'[o].used
        THEN objects'[o].refcount = Cardinality(Refs(slots', o)) /\ Refs(slots', o) # {}
        ELSE Refs(slots', o) = {}
    BY <1>3, <1>9, <1>10
  <2> QED BY <1>8, <1>10, <2>1 DEF IInv, RefcountExact
<1>12. owner' \in [RegionKinds -> {"alloc", "caps", "teardown", "lost"}]
  BY <1>1 DEF IInv, TypeOK
<1>13. TypeOK'
  BY <1>6, <1>7, <1>10, <1>12 DEF IInv, TypeOK, Table
<1>14. \A i \in Slots : slots'[i].used => slots'[i].object \in Objects
  BY <1>6 DEF IInv
<1>15. \A x \in Objects : objects'[x].used => objects'[x].kind \in Kinds
  BY <1>3, <1>10 DEF IInv, k
<1>16. revoking' # Null => slots'[revoking'].used
  BY <1>6 DEF IInv, TypeOK
<1> QED BY <1>5, <1>11, <1>13, <1>14, <1>15, <1>16 DEF IInv

\* The leaf that descend_to_leaf finds is a used slot below the revoked one.
LEMMA LeafUsed ==
  ASSUME IInv, revoking # Null, slots[revoking].first # Null,
         NEW l \in Leaf(slots, slots[revoking].first)
  PROVE  l \in Slots /\ slots[l].used /\ slots[l].first = Null /\ l # revoking
<1> DEFINE T == {i \in Slots : slots[i].used}
           c == slots[revoking].first
<1>1. /\ slots \in Table /\ LinksOK(slots) /\ revoking \in Slots /\ slots[revoking].used
      /\ \A i \in Slots : slots[i].first \in Slots \cup {Null}
  BY LinkFields DEF IInv, TypeOK, TreeOK
<1>2. c \in T /\ c \in Slots
  BY <1>1 DEF LinksOK
<1>3. Closed(FirstOf(slots), T)
  BY <1>1 DEF Closed, FirstOf, LinksOK
<1>4. l \in Slots /\ slots[l].first = Null /\ l \in Chain(FirstOf(slots), c)
  BY DEF Leaf, Chain
<1>5. l \in T
  BY <1>2, <1>3, <1>4, SlotFacts DEF Chain
<1> QED BY <1>4, <1>5

\* Every operation keeps the inductive invariant.
LEMMA NextIInv == IInv /\ [Next]_vars => IInv'
<1> SUFFICES ASSUME IInv, [Next]_vars PROVE IInv'
  OBVIOUS
<1>1. slots \in Table /\ \A p \in CapPtr : p.slot \in Slots
  BY DEF IInv, TypeOK, Table, CapPtr
<1>2. \A i \in Slots : slots[i].badge \in Badges /\ slots[i].window \in Region
  BY <1>1, SlotFields
<1>3. NoReport \in FinReport /\ fin \in FinReport
  BY DEF NoReport, FinReport, IInv, TypeOK
<1>4. ASSUME UNCHANGED <<slots, objects>>,
             owner' \in [RegionKinds -> {"alloc", "caps", "teardown", "lost"}],
             issued' = issued, fin' \in FinReport,
             revoking' \in Slots \cup {Null}, revoking' # Null => slots[revoking'].used
      PROVE  IInv'
  <2>1. TypeOK'
    BY <1>4 DEF IInv, TypeOK
  <2>2. RefcountExact'
    BY <1>4 DEF IInv, RefcountExact
  <2> QED BY <1>4, <2>1, <2>2 DEF IInv
<1>5. ASSUME NEW k \in Kinds, NEW r \in SUBSET RightBits, Install(k, r) PROVE IInv'
  BY <1>5, InstallIInv
<1>6. ASSUME NEW k \in RegionKinds, InstallFails(k) \/ DmaReturned(k) PROVE IInv'
  BY <1>4, <1>6 DEF InstallFails, DmaReturned, IInv, TypeOK
<1>7. ASSUME NEW p \in CapPtr, NEW r \in SUBSET RightBits, Copy(p, r) PROVE IInv'
  BY <1>1, <1>2, <1>7, DeriveIInv DEF Copy, Presents, Resolves
<1>8. ASSUME NEW p \in CapPtr, NEW r \in SUBSET RightBits, NEW b \in Badges, Mint(p, r, b)
      PROVE  IInv'
  BY <1>1, <1>2, <1>8, DeriveIInv DEF Mint, Presents, Resolves
<1>9. ASSUME NEW p \in CapPtr, NEW r \in SUBSET RightBits,
             NEW off \in 0..AddrMax, NEW len \in 0..AddrMax, Subregion(p, r, off, len)
      PROVE  IInv'
  <2>1. slots[p.slot].used /\ p.slot \in Slots
    BY <1>1, <1>9 DEF Subregion, Presents, Resolves
  <2> DEFINE w == Effective(p.slot)
  <2>2. w \in Region /\ WindowGranted(w, off, len)
    BY <1>9, <2>1, EffectiveType DEF Subregion
  <2> HIDE DEF w
  <2>3. w.base \in 0..AddrMax /\ w.base + off <= AddrMax /\ AddrMax \in Nat
    BY <2>2, TablesAssumption DEF Region, WindowGranted
  <2>4. Teilfenster(w, off, len) \in Region
    BY <2>3 DEF Teilfenster, Region
  <2>5. Derive(p.slot, r, slots[p.slot].badge, Teilfenster(w, off, len))
    BY <1>9 DEF Subregion, w
  <2> QED BY <1>2, <2>1, <2>4, <2>5, DeriveIInv
<1>10. ASSUME NEW p \in CapPtr, MoveCap(p) PROVE IInv'
  BY <1>10, MoveCapIInv
<1>11. ASSUME NEW p \in CapPtr, Delete(p) PROVE IInv'
  <2>1. /\ slots[p.slot].used /\ p.slot \in Slots /\ slots[p.slot].first = Null
        /\ revoking = Null /\ DeleteLeaf(p.slot, NoReport) /\ UNCHANGED <<issued, revoking>>
    BY <1>1, <1>11 DEF Delete, Presents, Resolves
  <2> QED BY <1>3, <2>1, SlotFacts, DeleteLeafIInv
<1>12. ASSUME NEW p \in CapPtr, RevokeBegin(p) PROVE IInv'
  BY <1>1, <1>3, <1>4, <1>12 DEF RevokeBegin, Presents, Resolves, IInv, TypeOK
<1>13. ASSUME RevokeStep PROVE IInv'
  <2>1. PICK l \in Leaf(slots, slots[revoking].first) : DeleteLeaf(l, fin)
    BY <1>13 DEF RevokeStep
  <2>2. l \in Slots /\ slots[l].used /\ slots[l].first = Null /\ l # revoking
    BY <1>13, LeafUsed DEF RevokeStep
  <2>3. UNCHANGED <<issued, revoking>>
    BY <1>13 DEF RevokeStep
  <2> QED BY <1>3, <2>1, <2>2, <2>3, DeleteLeafIInv
<1>14. ASSUME RevokeEnd PROVE IInv'
  BY <1>3, <1>4, <1>14 DEF RevokeEnd, IInv, TypeOK
<1>15. ASSUME UNCHANGED vars PROVE IInv'
  BY <1>4, <1>15 DEF vars, IInv, TypeOK
<1> QED
  BY <1>5, <1>6, <1>7, <1>8, <1>9, <1>10, <1>11, <1>12, <1>13, <1>14, <1>15 DEF Next

\* Every reachable state satisfies the inductive invariant.
THEOREM Inductive == Spec => []IInv
BY InitIInv, NextIInv, PTL DEF Spec

\* The state keeps its types; in particular no refcount drops below zero and no link leaves
\* the table, for every size of the tables and every wrap of the generations.
THEOREM TypeCorrect == Spec => []TypeOK
<1>1. IInv => TypeOK
  BY DEF IInv
<1> QED BY <1>1, Inductive, PTL

\* Parent, child and sibling links stay reciprocal (audit_cdt codes 1, 4, 5, 6).
THEOREM LinksCorrect == Spec => []LinksReciprocal
<1>1. IInv => LinksReciprocal
  BY NamedObject DEF IInv, TreeOK, LinksReciprocal
<1> QED BY <1>1, Inductive, PTL

\* A walk over a child list finds exactly the capabilities derived from its owner.
THEOREM ListsCorrect == Spec => []ChildListsExact
<1>1. IInv => ChildListsExact
  BY DEF IInv, TreeOK, ChildListsExact
<1> QED BY <1>1, Inductive, PTL

\* An object counts exactly the capabilities that name it (audit_cdt codes 2 and 3), so it is
\* finalised with its last capability and no sooner.
THEOREM RefcountsCorrect == Spec => []RefcountExact
<1>1. IInv => RefcountExact
  BY DEF IInv
<1> QED BY <1>1, Inductive, PTL

-----------------------------------------------------------------------------
(* Authority only shrinks along the derivation tree, handles stay sound    *)
(* until their generation wraps, and revoke takes back what it must.       *)

\* Effective and Attenuation with the tables as arguments, to speak of the next state.
Authorises(sl, ob, i) ==
  IF sl[i].window = NoWindow THEN RegionOf[ob[sl[i].object].kind] ELSE sl[i].window

Attenuates(sl, ob) ==
  \A i \in Slots : sl[i].used /\ sl[i].parent # Null =>
    /\ sl[i].rights \subseteq sl[sl[i].parent].rights
    /\ Within(Authorises(sl, ob, i), Authorises(sl, ob, sl[i].parent))

\* Both forms of the property agree, in this state and in the next.
LEMMA AttenuationForms ==
  /\ Attenuation <=> Attenuates(slots, objects)
  /\ Attenuation' <=> Attenuates(slots', objects')
  /\ \A i \in Slots : Effective(i) = Authorises(slots, objects, i)
BY DEF Attenuation, Attenuates, Effective, Authorises

\* An object that stays in use stays the same object.
KindStable ==
  \A x \in Objects : objects[x].used /\ objects'[x].used => objects'[x].kind = objects[x].kind

\* A slot i that holds, after the step, the capability that slot j held before it.
Carries(i, j) ==
  /\ slots'[i].used /\ slots[j].used
  /\ slots'[i].object = slots[j].object
  /\ slots'[i].rights = slots[j].rights
  /\ slots'[i].window = slots[j].window

\* A carried capability authorises what it authorised before.
LEMMA EffectiveKept ==
  ASSUME IInv, IInv', KindStable, NEW i \in Slots, NEW j \in Slots, Carries(i, j)
  PROVE  Authorises(slots', objects', i) = Authorises(slots, objects, j)
<1>1. slots[j].object \in Objects /\ objects[slots[j].object].used
  BY NamedObject DEF Carries
<1>2. objects'[slots'[i].object].used
  BY <1>1 DEF IInv, RefcountExact, Refs, Carries
<1> QED BY <1>1, <1>2 DEF KindStable, Carries, Authorises

\* A derivation between two carried capabilities is attenuating after the step, too.
LEMMA AttenuationKept ==
  ASSUME IInv, IInv', KindStable, Attenuation,
         NEW i \in Slots, NEW p \in Slots, NEW j \in Slots,
         Carries(i, j), Carries(p, slots[j].parent), slots[j].parent \in Slots
  PROVE  /\ slots'[i].rights \subseteq slots'[p].rights
         /\ Within(Authorises(slots', objects', i), Authorises(slots', objects', p))
<1>1. /\ slots[j].rights \subseteq slots[slots[j].parent].rights
      /\ Within(Authorises(slots, objects, j), Authorises(slots, objects, slots[j].parent))
  BY SlotFacts, AttenuationForms DEF Attenuates, Carries
<1>2. /\ Authorises(slots', objects', i) = Authorises(slots, objects, j)
      /\ Authorises(slots', objects', p) = Authorises(slots, objects, slots[j].parent)
  BY EffectiveKept
<1> QED BY <1>1, <1>2 DEF Carries

\* A window is within itself.
LEMMA WithinReflexive ==
  ASSUME NEW w \in Region
  PROVE  Within(w, w)
<1>1. w.base \in Nat /\ w.len \in Nat
  BY TablesAssumption DEF Region
<1> QED BY <1>1 DEF Within

\* The parent of a used slot is a used slot.
LEMMA ParentUsed ==
  ASSUME IInv, NEW i \in Slots, slots[i].used, slots[i].parent # Null
  PROVE  slots[i].parent \in Slots /\ slots[slots[i].parent].used
BY LinkFields DEF IInv, TypeOK, TreeOK, LinksOK

\* install makes a root, and disturbs no derivation.
LEMMA InstallAttenuates ==
  ASSUME IInv, IInv', Attenuation, NEW k \in Kinds, NEW r \in SUBSET RightBits, Install(k, r)
  PROVE  Attenuation'
<1>1. PICK d \in Slots, o \in Objects :
        /\ ~slots[d].used /\ ~objects[o].used
        /\ slots' = AllocSlot(slots, d, o, r, 0, NoWindow)
        /\ objects' = [objects EXCEPT ![o] = [used |-> TRUE, kind |-> k, refcount |-> 1]]
  BY DEF Install, FirstFreeSlot, FirstFreeObject
<1>2. slots \in Table /\ 0 \in Badges /\ NoWindow \in Region
  BY TablesAssumption DEF IInv, TypeOK, Table, NoWindow, Region
<1>3. slots'[d].parent = Null /\ \A i \in Slots \ {d} : slots'[i] = slots[i]
  BY <1>1, <1>2, AllocSlotFields DEF Allocated
<1>4. KindStable
  BY <1>1 DEF KindStable, IInv, TypeOK
<1>5. ASSUME NEW i \in Slots, slots'[i].used, slots'[i].parent # Null
      PROVE  /\ slots'[i].rights \subseteq slots'[slots'[i].parent].rights
             /\ Within(Authorises(slots', objects', i),
                       Authorises(slots', objects', slots'[i].parent))
  <2>1. i # d /\ slots'[i] = slots[i]
    BY <1>3, <1>5
  <2>2. slots[i].parent \in Slots /\ slots[slots[i].parent].used
    BY <1>5, <2>1, ParentUsed
  <2>3. Carries(i, i) /\ Carries(slots[i].parent, slots[i].parent)
    BY <1>1, <1>3, <1>5, <2>1, <2>2 DEF Carries
  <2> QED BY <1>4, <2>1, <2>2, <2>3, AttenuationKept
<1> QED BY <1>5, AttenuationForms DEF Attenuates

\* copy, mint and subregion: the new window is the source's, or a part of what it authorises.
LEMMA DeriveAttenuates ==
  ASSUME IInv, IInv', Attenuation, NEW s \in Slots, slots[s].used, NEW r \in SUBSET RightBits,
         NEW b \in Badges, NEW w \in Region, Derive(s, r, b, w),
         w = slots[s].window \/ (w # NoWindow /\ Within(w, Effective(s)))
  PROVE  Attenuation'
<1> DEFINE o == slots[s].object
           rr == slots[s].rights \cap r
           m(d) == AllocSlot(slots, d, o, rr, b, w)
<1>1. PICK d \in Slots :
        /\ ~slots[d].used
        /\ slots' = LinkChild(m(d), s, d)
        /\ objects' = [objects EXCEPT ![o].refcount = @ + 1]
  BY DEF Derive, FirstFreeSlot
<1>2. /\ slots \in Table /\ o \in Objects /\ rr \in SUBSET RightBits
      /\ objects \in [Objects -> Object]
  BY NamedObject, SlotFields DEF IInv, TypeOK, Table
<1>3. Allocated(slots, d, o, rr, b, w, m(d))
  BY <1>2, AllocSlotFields
<1>4. Linked(m(d), s, d, slots')
  BY <1>1, <1>3, LinkChildFields DEF Allocated
<1> HIDE DEF m
<1>5. /\ slots'[d].used /\ slots'[d].object = o /\ slots'[d].rights = rr
      /\ slots'[d].window = w /\ slots'[d].parent = s
  BY <1>3, <1>4 DEF Allocated, Linked
<1>6. \A i \in Slots \ {d} :
        /\ slots'[i].used = slots[i].used /\ slots'[i].object = slots[i].object
        /\ slots'[i].rights = slots[i].rights /\ slots'[i].window = slots[i].window
        /\ slots'[i].parent = slots[i].parent
  BY <1>3, <1>4 DEF Allocated, Linked
<1>7. KindStable
  BY <1>1, <1>2 DEF KindStable, Object
<1>8. Carries(s, s)
  BY <1>1, <1>6 DEF Carries
<1> DEFINE after(i) == Authorises(slots', objects', i)
<1>9. after(s) = Effective(s) /\ Effective(s) \in Region
  BY <1>7, <1>8, EffectiveKept, EffectiveType, AttenuationForms
<1>10. Within(after(d), after(s))
  <2>1. CASE w = slots[s].window
    <3>1. after(d) = after(s)
      BY <1>1, <1>5, <1>6, <2>1 DEF Authorises
    <3> QED BY <1>9, <3>1, WithinReflexive
  <2>2. CASE w # NoWindow /\ Within(w, Effective(s))
    <3>1. after(d) = w
      BY <1>5, <2>2 DEF Authorises
    <3> QED BY <1>9, <2>2, <3>1
  <2> QED BY <2>1, <2>2
<1>11. ASSUME NEW i \in Slots, slots'[i].used, slots'[i].parent # Null
       PROVE  /\ slots'[i].rights \subseteq slots'[slots'[i].parent].rights
              /\ Within(Authorises(slots', objects', i),
                        Authorises(slots', objects', slots'[i].parent))
  <2>1. CASE i = d
    <3>1. slots'[s].rights = slots[s].rights
      BY <1>8 DEF Carries
    <3> QED BY <1>5, <1>10, <2>1, <3>1
  <2>2. CASE i # d
    <3>1. slots[i].used /\ slots'[i].parent = slots[i].parent
      BY <1>6, <1>11, <2>2
    <3>2. slots[i].parent \in Slots /\ slots[slots[i].parent].used
      BY <1>11, <3>1, ParentUsed
    <3>3. Carries(i, i) /\ Carries(slots[i].parent, slots[i].parent)
      BY <1>1, <1>6, <2>2, <3>1, <3>2 DEF Carries
    <3> QED BY <1>7, <3>1, <3>2, <3>3, AttenuationKept
  <2> QED BY <2>1, <2>2
<1> QED BY <1>11, AttenuationForms DEF Attenuates

\* move carries the capability, with its parent and its children, to another slot.
LEMMA MoveAttenuates ==
  ASSUME IInv, IInv', Attenuation, NEW p \in CapPtr, MoveCap(p)
  PROVE  Attenuation'
<1> DEFINE s == p.slot
<1>1. PICK d \in Slots :
        /\ slots[s].used /\ ~slots[d].used
        /\ slots' = MoveSlot(slots, s, d) /\ objects' = objects
  BY DEF MoveCap, Presents, Resolves, FirstFreeSlot
<1>2. slots \in Table /\ s \in Slots /\ s # d /\ ListsOK(slots)
  BY <1>1 DEF IInv, TypeOK, TreeOK, Table, CapPtr
<1> HIDE DEF s
<1>3. Moved(slots, s, d, slots')
  BY <1>1, <1>2, MoveSlotFields
<1>4. KindStable
  BY <1>1 DEF KindStable
<1> DEFINE From(i) == IF i = d THEN s ELSE i
<1>5. \A i \in Slots : slots'[i].used => i # s /\ From(i) \in Slots /\ Carries(i, From(i))
  BY <1>1, <1>2, <1>3 DEF Moved, Carries
<1>6. \A i \in Slots : slots'[i].used /\ slots'[i].parent # Null =>
        slots'[i].parent \in Slots /\ slots'[slots'[i].parent].used
  <2>1. slots' \in Table /\ LinksOK(slots')
    BY <1>3 DEF IInv, TreeOK, Moved
  <2> QED BY <2>1, LinkFields DEF LinksOK
<1>7. ASSUME NEW i \in Slots, slots'[i].used, slots'[i].parent # Null
      PROVE  slots[From(i)].parent = From(slots'[i].parent)
  <2>0. NoSelf(slots) /\ \A x \in Slots : slots[x].parent # d
    BY <1>1, <1>2, LinkFields, ParentUsed, SlotFacts DEF IInv, TreeOK, FreeBlank
  <2>1. CASE i = d
    BY <1>2, <1>3, <2>0, <2>1 DEF Moved
  <2>2. CASE i # d
    <3>1. i \in Slots \ {s, d} /\ slots[i].used
      BY <1>5, <1>7, <2>2 DEF Carries
    <3>2. slots'[i].parent = IF i \in ChildList(slots, s) THEN d ELSE slots[i].parent
      BY <1>3, <3>1 DEF Moved
    <3>3. i \in ChildList(slots, s) <=> slots[i].parent = s
      BY <1>1, <1>2, <3>1 DEF ListsOK, Kids
    <3> QED BY <2>0, <2>2, <3>2, <3>3
  <2> QED BY <2>1, <2>2
<1>8. ASSUME NEW i \in Slots, slots'[i].used, slots'[i].parent # Null
      PROVE  /\ slots'[i].rights \subseteq slots'[slots'[i].parent].rights
             /\ Within(Authorises(slots', objects', i),
                       Authorises(slots', objects', slots'[i].parent))
  <2>1. slots'[i].parent \in Slots /\ slots'[slots'[i].parent].used
    BY <1>6, <1>8
  <2>2. /\ Carries(i, From(i)) /\ Carries(slots'[i].parent, slots[From(i)].parent)
        /\ From(i) \in Slots /\ slots[From(i)].parent \in Slots
    BY <1>5, <1>7, <1>8, <2>1
  <2> QED BY <1>4, <2>1, <2>2, AttenuationKept
<1> QED BY <1>8, AttenuationForms DEF Attenuates

\* Deleting a leaf carries every other capability in place.
LEMMA DeleteAttenuates ==
  ASSUME IInv, IInv', Attenuation, NEW s \in Slots, slots[s].used, slots[s].first = Null,
         NEW f, DeleteLeaf(s, f)
  PROVE  Attenuation'
<1>1. /\ slots' = Unlink(slots, s) /\ slots \in Table /\ ListsOK(slots)
      /\ objects \in [Objects -> Object] /\ slots[s].object \in Objects
  BY NamedObject DEF DeleteLeaf, IInv, TypeOK, TreeOK
<1>2. Unlinked(slots, s, slots')
  BY <1>1, UnlinkFields
<1>3. KindStable
  BY <1>1 DEF KindStable, DeleteLeaf, Object
<1>4. \A i \in Slots : slots[i].used => slots[i].parent # s
  BY <1>1 DEF ListsOK, ChildList, Chain, Kids
<1>5. ASSUME NEW i \in Slots, slots'[i].used, slots'[i].parent # Null
      PROVE  /\ slots'[i].rights \subseteq slots'[slots'[i].parent].rights
             /\ Within(Authorises(slots', objects', i),
                       Authorises(slots', objects', slots'[i].parent))
  <2>1. i # s /\ slots[i].used /\ slots'[i].parent = slots[i].parent
    BY <1>2, <1>5 DEF Unlinked
  <2>2. slots[i].parent \in Slots \ {s} /\ slots[slots[i].parent].used
    BY <1>4, <1>5, <2>1, ParentUsed
  <2>3. Carries(i, i) /\ Carries(slots[i].parent, slots[i].parent)
    BY <1>2, <1>5, <2>1, <2>2 DEF Carries, Unlinked
  <2> QED BY <1>3, <2>1, <2>2, <2>3, AttenuationKept
<1> QED BY <1>5, AttenuationForms DEF Attenuates

\* Every operation keeps attenuation.
LEMMA NextAttenuates == IInv /\ IInv' /\ Attenuation /\ [Next]_vars => Attenuation'
<1> SUFFICES ASSUME IInv, IInv', Attenuation, [Next]_vars PROVE Attenuation'
  OBVIOUS
<1>1. slots \in Table /\ \A p \in CapPtr : p.slot \in Slots
  BY DEF IInv, TypeOK, Table, CapPtr
<1>2. \A i \in Slots : slots[i].badge \in Badges /\ slots[i].window \in Region
  BY <1>1, SlotFields
<1>3. ASSUME UNCHANGED <<slots, objects>> PROVE Attenuation'
  BY <1>3 DEF Attenuation, Effective
<1>4. ASSUME NEW k \in Kinds, NEW r \in SUBSET RightBits, Install(k, r) PROVE Attenuation'
  BY <1>4, InstallAttenuates
<1>5. ASSUME NEW k \in RegionKinds, InstallFails(k) \/ DmaReturned(k) PROVE Attenuation'
  BY <1>3, <1>5 DEF InstallFails, DmaReturned
<1>6. ASSUME NEW p \in CapPtr, NEW r \in SUBSET RightBits, Copy(p, r) PROVE Attenuation'
  BY <1>1, <1>2, <1>6, DeriveAttenuates DEF Copy, Presents, Resolves
<1>7. ASSUME NEW p \in CapPtr, NEW r \in SUBSET RightBits, NEW b \in Badges, Mint(p, r, b)
      PROVE  Attenuation'
  BY <1>1, <1>2, <1>7, DeriveAttenuates DEF Mint, Presents, Resolves
<1>8. ASSUME NEW p \in CapPtr, NEW r \in SUBSET RightBits,
             NEW off \in 0..AddrMax, NEW len \in 0..AddrMax, Subregion(p, r, off, len)
      PROVE  Attenuation'
  <2>1. slots[p.slot].used /\ p.slot \in Slots
    BY <1>1, <1>8 DEF Subregion, Presents, Resolves
  <2> DEFINE e == Effective(p.slot)
             w == Teilfenster(e, off, len)
  <2>2. e \in Region /\ WindowGranted(e, off, len)
    BY <1>8, <2>1, EffectiveType DEF Subregion
  <2>3. Derive(p.slot, r, slots[p.slot].badge, w)
    BY <1>8 DEF Subregion
  <2> HIDE DEF e
  <2>4. /\ e.base \in Nat /\ e.len \in Nat /\ AddrMax \in Nat
        /\ off \in Nat /\ len \in Nat /\ len # 0
        /\ e.base + off <= AddrMax /\ len <= AddrMax
        /\ e.base + off + len <= e.base + e.len
    BY <2>2, TablesAssumption DEF Region, WindowGranted
  <2>5. w = [base |-> e.base + off, len |-> len]
    BY DEF Teilfenster
  <2>6. w \in Region /\ w # NoWindow /\ Within(w, e)
    BY <2>4, <2>5 DEF Region, NoWindow, Within
  <2> HIDE DEF w
  <2> QED BY <1>2, <2>1, <2>3, <2>6, DeriveAttenuates DEF e
<1>9. ASSUME NEW p \in CapPtr, MoveCap(p) PROVE Attenuation'
  BY <1>9, MoveAttenuates
<1>10. ASSUME NEW p \in CapPtr, Delete(p) PROVE Attenuation'
  BY <1>1, <1>10, DeleteAttenuates DEF Delete, Presents, Resolves
<1>11. ASSUME NEW p \in CapPtr, RevokeBegin(p) PROVE Attenuation'
  BY <1>3, <1>11 DEF RevokeBegin
<1>12. ASSUME RevokeStep PROVE Attenuation'
  <2>1. PICK l \in Leaf(slots, slots[revoking].first) : DeleteLeaf(l, fin)
    BY <1>12 DEF RevokeStep
  <2>2. l \in Slots /\ slots[l].used /\ slots[l].first = Null
    BY <1>12, LeafUsed DEF RevokeStep
  <2> QED BY <2>1, <2>2, DeleteAttenuates
<1>13. ASSUME RevokeEnd PROVE Attenuation'
  BY <1>3, <1>13 DEF RevokeEnd
<1>14. ASSUME UNCHANGED vars PROVE Attenuation'
  BY <1>3, <1>14 DEF vars
<1> QED
  BY <1>4, <1>5, <1>6, <1>7, <1>8, <1>9, <1>10, <1>11, <1>12, <1>13, <1>14 DEF Next

\* No copy, mint, subregion or move ever yields a capability with a right or an address that
\* its parent in the derivation tree does not have ("keine Eskalation").
THEOREM AuthorityShrinks == Spec => []Attenuation
<1>1. Init => Attenuation
  BY DEF Init, Attenuation, EmptySlot
<1>2. IInv /\ IInv' /\ Attenuation /\ [Next]_vars => Attenuation'
  BY NextAttenuates
<1> QED BY <1>1, <1>2, Inductive, PTL DEF Spec

-----------------------------------------------------------------------------
(* The shapes of a step.  Every step of the capability space leaves the    *)
(* tables alone, or makes, derives, moves or drops one capability; the     *)
(* properties below are proved by these five cases.                        *)

\* Slot i holds the same capability before and after the step, under the same generation.
Keeps(i) ==
  /\ slots'[i].used = slots[i].used /\ slots'[i].gen = slots[i].gen
  /\ slots'[i].object = slots[i].object /\ slots'[i].rights = slots[i].rights
  /\ slots'[i].badge = slots[i].badge /\ slots'[i].window = slots[i].window

KindsKept ==
  \A x \in Objects : objects'[x].used = objects[x].used /\ objects'[x].kind = objects[x].kind

\* Lookups, the failing install, the return of a DMA region, and the two ends of revoke.
Quiet ==
  /\ slots' = slots /\ objects' = objects /\ issued' = issued
  /\ \A k \in RegionKinds : owner'[k] = "caps" <=> owner[k] = "caps"
  /\ \/ revoking' = revoking /\ fin' = fin
     \/ /\ revoking = Null /\ revoking' \in Slots /\ slots[revoking'].used /\ fin' = NoReport
        /\ \A i \in Slots : slots[i].used => slots[i].gen < MaxRelease
     \/ /\ revoking # Null /\ revoking' = Null /\ fin' = fin
        /\ slots[revoking].first = Null \/ Leaf(slots, slots[revoking].first) = {}

Makes(d, o, k) ==
  /\ ~slots[d].used /\ slots'[d].used /\ slots'[d].gen = slots[d].gen
  /\ slots'[d].parent = Null
  /\ \A i \in Slots \ {d} : Keeps(i) /\ slots'[i].parent = slots[i].parent
  /\ ~objects[o].used /\ objects'[o].used /\ objects'[o].kind = k
  /\ \A x \in Objects \ {o} : objects'[x] = objects[x]
  /\ k \in RegionKinds => owner[k] = "alloc"
  /\ \A h \in RegionKinds : owner'[h] = IF h = k THEN "caps" ELSE owner[h]
  /\ issued' = issued \cup {ptr(d, slots')}
  /\ revoking = Null /\ revoking' = Null /\ fin' = fin

Derives(s, d) ==
  /\ s # d /\ slots[s].used /\ ~slots[d].used
  /\ slots'[d].used /\ slots'[d].gen = slots[d].gen /\ slots'[d].parent = s
  /\ \A i \in Slots \ {d} : Keeps(i) /\ slots'[i].parent = slots[i].parent
  /\ KindsKept /\ owner' = owner
  /\ issued' = issued \cup {ptr(d, slots')}
  /\ revoking = Null /\ revoking' = Null /\ fin' = fin

Moves(s, d) ==
  /\ s # d /\ slots[s].used /\ ~slots[d].used /\ slots[s].gen < MaxRelease
  /\ ~slots'[s].used /\ slots'[s].gen = slots[s].gen + 1
  /\ Carries(d, s) /\ slots'[d].gen = slots[d].gen /\ slots'[d].parent = slots[s].parent
  /\ \A i \in Slots \ {s, d} :
       /\ Keeps(i)
       /\ slots[i].used =>
            slots'[i].parent = IF slots[i].parent = s THEN d ELSE slots[i].parent
  /\ KindsKept /\ owner' = owner
  /\ issued' = issued \cup {ptr(d, slots')}
  /\ revoking = Null /\ revoking' = Null /\ fin' = fin

\* The effect of delete_leaf on everything but the links.
Drops(s, f) ==
  LET o == slots[s].object
      k == objects[o].kind
      last == objects[o].refcount = 1
  IN /\ slots[s].used /\ slots[s].first = Null
     /\ ~slots'[s].used /\ slots'[s].gen = slots[s].gen + 1
     /\ \A i \in Slots \ {s} : Keeps(i) /\ slots'[i].parent = slots[i].parent
     /\ objects'[o].used <=> ~last
     /\ ~last => objects'[o].kind = objects[o].kind
     /\ \A x \in Objects \ {o} : objects'[x] = objects[x]
     /\ \A h \in RegionKinds :
          owner'[h] = IF last /\ h = k THEN (IF TypeOf[h] = "Dma" THEN "teardown" ELSE "alloc")
                      ELSE owner[h]
     /\ fin' = Report(f, s, last)
     /\ issued' = issued /\ revoking' = revoking
     /\ \/ revoking = Null /\ f = NoReport /\ slots[s].gen < MaxRelease
        \/ revoking # Null /\ f = fin /\ slots[revoking].first # Null
           /\ s \in Leaf(slots, slots[revoking].first)

\* install makes a capability.
LEMMA InstallMakes ==
  ASSUME IInv, NEW k \in Kinds, NEW r \in SUBSET RightBits, Install(k, r)
  PROVE  \E d \in Slots, o \in Objects : Makes(d, o, k)
<1>1. PICK d \in Slots, o \in Objects :
        /\ revoking = Null /\ (k \in RegionKinds => owner[k] = "alloc")
        /\ ~slots[d].used /\ ~objects[o].used
        /\ slots' = AllocSlot(slots, d, o, r, 0, NoWindow)
        /\ objects' = [objects EXCEPT ![o] = [used |-> TRUE, kind |-> k, refcount |-> 1]]
        /\ owner' = IF k \in RegionKinds THEN [owner EXCEPT ![k] = "caps"] ELSE owner
        /\ issued' = issued \cup {ptr(d, slots')}
        /\ UNCHANGED <<revoking, fin>>
  BY DEF Install, FirstFreeSlot, FirstFreeObject
<1>2. slots \in Table /\ 0 \in Badges /\ NoWindow \in Region
  BY TablesAssumption DEF IInv, TypeOK, Table, NoWindow, Region
<1>3. /\ slots'[d].used /\ slots'[d].gen = slots[d].gen /\ slots'[d].parent = Null
      /\ \A i \in Slots \ {d} : slots'[i] = slots[i]
  BY <1>1, <1>2, AllocSlotFields DEF Allocated
<1>4. /\ objects'[o].used /\ objects'[o].kind = k
      /\ \A x \in Objects \ {o} : objects'[x] = objects[x]
  BY <1>1 DEF IInv, TypeOK
<1>5. \A h \in RegionKinds : owner'[h] = IF h = k THEN "caps" ELSE owner[h]
  BY <1>1 DEF IInv, TypeOK
<1> QED BY <1>1, <1>3, <1>4, <1>5 DEF Makes, Keeps

\* copy, mint and subregion derive one.
LEMMA DeriveDerives ==
  ASSUME IInv, NEW s \in Slots, slots[s].used, NEW r \in SUBSET RightBits, revoking = Null,
         NEW b \in Badges, NEW w \in Region, Derive(s, r, b, w)
  PROVE  \E d \in Slots : Derives(s, d)
<1> DEFINE o == slots[s].object
           rr == slots[s].rights \cap r
           m(d) == AllocSlot(slots, d, o, rr, b, w)
<1>1. PICK d \in Slots :
        /\ ~slots[d].used
        /\ slots' = LinkChild(m(d), s, d)
        /\ objects' = [objects EXCEPT ![o].refcount = @ + 1]
        /\ issued' = issued \cup {ptr(d, slots')}
        /\ UNCHANGED <<owner, revoking, fin>>
  BY DEF Derive, FirstFreeSlot
<1>2. /\ slots \in Table /\ o \in Objects /\ rr \in SUBSET RightBits
      /\ objects \in [Objects -> Object]
  BY NamedObject, SlotFields DEF IInv, TypeOK, Table
<1>3. Allocated(slots, d, o, rr, b, w, m(d))
  BY <1>2, AllocSlotFields
<1>4. Linked(m(d), s, d, slots')
  BY <1>1, <1>3, LinkChildFields DEF Allocated
<1> HIDE DEF m
<1>5. slots'[d].used /\ slots'[d].gen = slots[d].gen /\ slots'[d].parent = s
  BY <1>3, <1>4 DEF Allocated, Linked
<1>6. \A i \in Slots \ {d} : Keeps(i) /\ slots'[i].parent = slots[i].parent
  BY <1>3, <1>4 DEF Allocated, Linked, Keeps
<1>7. KindsKept
  BY <1>1, <1>2 DEF KindsKept, Object
<1> QED BY <1>1, <1>5, <1>6, <1>7 DEF Derives

\* move_cap moves one.
LEMMA MoveMoves ==
  ASSUME IInv, NEW p \in CapPtr, MoveCap(p)
  PROVE  \E d \in Slots : Moves(p.slot, d)
<1> DEFINE s == p.slot
<1>1. PICK d \in Slots :
        /\ slots[s].used /\ ~slots[d].used /\ slots[s].gen < MaxRelease
        /\ slots' = MoveSlot(slots, s, d) /\ revoking = Null
        /\ issued' = issued \cup {ptr(d, slots')}
        /\ UNCHANGED <<objects, owner, revoking, fin>>
  BY DEF MoveCap, Presents, Resolves, FirstFreeSlot
<1>2. slots \in Table /\ s \in Slots /\ s # d /\ ListsOK(slots)
  BY <1>1 DEF IInv, TypeOK, TreeOK, Table, CapPtr
<1> HIDE DEF s
<1>3. Moved(slots, s, d, slots')
  BY <1>1, <1>2, MoveSlotFields
<1>4. ~slots'[s].used /\ slots'[s].gen = slots[s].gen + 1
  BY <1>3 DEF Moved, EmptySlot
<1>5. Carries(d, s) /\ slots'[d].gen = slots[d].gen /\ slots'[d].parent = slots[s].parent
  BY <1>1, <1>3 DEF Moved, Carries
<1>6. ASSUME NEW i \in Slots \ {s, d}
      PROVE  /\ Keeps(i)
             /\ slots[i].used =>
                  slots'[i].parent = IF slots[i].parent = s THEN d ELSE slots[i].parent
  <2>1. slots[i].used => (i \in ChildList(slots, s) <=> slots[i].parent = s)
    BY <1>1, <1>2 DEF ListsOK, Kids
  <2> QED BY <1>3, <2>1 DEF Moved, Keeps
<1> QED BY <1>1, <1>2, <1>4, <1>5, <1>6 DEF Moves, KindsKept, s

\* delete, and an iteration of revoke, drop one.
LEMMA DeleteDrops ==
  ASSUME IInv, NEW s \in Slots, slots[s].used, slots[s].first = Null,
         NEW f, DeleteLeaf(s, f), UNCHANGED <<issued, revoking>>,
         \/ revoking = Null /\ f = NoReport /\ slots[s].gen < MaxRelease
         \/ revoking # Null /\ f = fin /\ slots[revoking].first # Null
            /\ s \in Leaf(slots, slots[revoking].first)
  PROVE  Drops(s, f)
<1> DEFINE o == slots[s].object
           k == objects[o].kind
           last == objects[o].refcount = 1
<1>1. /\ slots' = Unlink(slots, s)
      /\ objects' = IF last
                    THEN [objects EXCEPT ![o] = [used |-> FALSE, kind |-> Null, refcount |-> 0]]
                    ELSE [objects EXCEPT ![o].refcount = @ - 1]
      /\ owner' = IF last /\ k \in RegionKinds
                  THEN [owner EXCEPT ![k] = IF TypeOf[k] = "Dma" THEN "teardown" ELSE "alloc"]
                  ELSE owner
      /\ fin' = Report(f, s, last)
  BY DEF DeleteLeaf
<1>2. slots \in Table /\ objects \in [Objects -> Object] /\ o \in Objects /\ objects[o].used
  BY NamedObject DEF IInv, TypeOK, Table
<1>3. Unlinked(slots, s, slots')
  BY <1>1, <1>2, UnlinkFields
<1>4. ~slots'[s].used /\ slots'[s].gen = slots[s].gen + 1
  BY <1>3 DEF Unlinked, EmptySlot
<1>5. \A i \in Slots \ {s} : Keeps(i) /\ slots'[i].parent = slots[i].parent
  BY <1>3 DEF Unlinked, Keeps
<1> HIDE DEF o
<1>6. /\ objects'[o].used <=> ~last
      /\ ~last => objects'[o].kind = objects[o].kind
      /\ \A x \in Objects \ {o} : objects'[x] = objects[x]
  <2>1. CASE last
    BY <1>1, <1>2, <2>1
  <2>2. CASE ~last
    BY <1>1, <1>2, <2>2 DEF Object
  <2> QED BY <2>1, <2>2
<1>7. \A h \in RegionKinds :
        owner'[h] = IF last /\ h = k THEN (IF TypeOf[h] = "Dma" THEN "teardown" ELSE "alloc")
                    ELSE owner[h]
  BY <1>1 DEF IInv, TypeOK
<1> QED BY <1>1, <1>4, <1>5, <1>6, <1>7 DEF Drops, o

\* Every step has one of the five shapes.
LEMMA StepShape ==
  ASSUME IInv, [Next]_vars
  PROVE  \/ Quiet
         \/ \E d \in Slots, o \in Objects, k \in Kinds : Makes(d, o, k)
         \/ \E s \in Slots, d \in Slots : Derives(s, d)
         \/ \E s \in Slots, d \in Slots : Moves(s, d)
         \/ \E s \in Slots, f \in FinReport : Drops(s, f)
<1> DEFINE Shape == \/ Quiet
                    \/ \E d \in Slots, o \in Objects, k \in Kinds : Makes(d, o, k)
                    \/ \E s \in Slots, d \in Slots : Derives(s, d)
                    \/ \E s \in Slots, d \in Slots : Moves(s, d)
                    \/ \E s \in Slots, f \in FinReport : Drops(s, f)
<1>1. slots \in Table /\ \A p \in CapPtr : p.slot \in Slots
  BY DEF IInv, TypeOK, Table, CapPtr
<1>2. \A i \in Slots : slots[i].badge \in Badges /\ slots[i].window \in Region
  BY <1>1, SlotFields
<1>3. NoReport \in FinReport /\ fin \in FinReport
  BY DEF NoReport, FinReport, IInv, TypeOK
<1>4. ASSUME NEW k \in Kinds, NEW r \in SUBSET RightBits, Install(k, r) PROVE Shape
  BY <1>4, InstallMakes
<1>5. ASSUME NEW k \in RegionKinds, InstallFails(k) \/ DmaReturned(k) PROVE Shape
  <2>1. \A h \in RegionKinds : owner'[h] = "caps" <=> owner[h] = "caps"
    BY <1>5 DEF InstallFails, DmaReturned, IInv, TypeOK
  <2> QED BY <1>5, <2>1 DEF InstallFails, DmaReturned, Quiet
<1>6. ASSUME NEW p \in CapPtr, NEW r \in SUBSET RightBits, Copy(p, r) PROVE Shape
  BY <1>1, <1>2, <1>6, DeriveDerives DEF Copy, Presents, Resolves
<1>7. ASSUME NEW p \in CapPtr, NEW r \in SUBSET RightBits, NEW b \in Badges, Mint(p, r, b)
      PROVE  Shape
  BY <1>1, <1>2, <1>7, DeriveDerives DEF Mint, Presents, Resolves
<1>8. ASSUME NEW p \in CapPtr, NEW r \in SUBSET RightBits,
             NEW off \in 0..AddrMax, NEW len \in 0..AddrMax, Subregion(p, r, off, len)
      PROVE  Shape
  <2>1. slots[p.slot].used /\ p.slot \in Slots /\ revoking = Null
    BY <1>1, <1>8 DEF Subregion, Presents, Resolves
  <2> DEFINE e == Effective(p.slot)
             w == Teilfenster(e, off, len)
  <2>2. e \in Region /\ WindowGranted(e, off, len)
    BY <1>8, <2>1, EffectiveType DEF Subregion
  <2>3. Derive(p.slot, r, slots[p.slot].badge, w)
    BY <1>8 DEF Subregion
  <2> HIDE DEF e
  <2>4. e.base \in Nat /\ e.base + off <= AddrMax /\ AddrMax \in Nat /\ off \in Nat
    BY <2>2, TablesAssumption DEF Region, WindowGranted
  <2>5. w \in Region
    BY <2>4 DEF Teilfenster, Region
  <2> HIDE DEF w
  <2> QED BY <1>2, <2>1, <2>3, <2>5, DeriveDerives
<1>9. ASSUME NEW p \in CapPtr, MoveCap(p) PROVE Shape
  BY <1>1, <1>9, MoveMoves
<1>10. ASSUME NEW p \in CapPtr, Delete(p) PROVE Shape
  <2>1. Drops(p.slot, NoReport)
    BY <1>1, <1>3, <1>10, DeleteDrops DEF Delete, Presents, Resolves
  <2> QED BY <1>1, <1>3, <2>1
<1>11. ASSUME NEW p \in CapPtr, RevokeBegin(p) PROVE Shape
  BY <1>1, <1>11 DEF RevokeBegin, Presents, Resolves, Quiet
<1>12. ASSUME RevokeStep PROVE Shape
  <2>1. PICK l \in Leaf(slots, slots[revoking].first) :
          DeleteLeaf(l, fin) /\ UNCHANGED <<issued, revoking>>
    BY <1>12 DEF RevokeStep
  <2>2. l \in Slots /\ slots[l].used /\ slots[l].first = Null
    BY <1>12, LeafUsed DEF RevokeStep
  <2>3. Drops(l, fin)
    BY <1>12, <2>1, <2>2, DeleteDrops DEF RevokeStep
  <2> QED BY <1>3, <2>2, <2>3
<1>13. ASSUME RevokeEnd PROVE Shape
  BY <1>13 DEF RevokeEnd, Quiet
<1>14. ASSUME UNCHANGED vars PROVE Shape
  BY <1>14 DEF vars, Quiet
<1>15. Shape
  BY <1>4, <1>5, <1>6, <1>7, <1>8, <1>9, <1>10, <1>11, <1>12, <1>13, <1>14 DEF Next
<1> QED BY <1>15

-----------------------------------------------------------------------------
(* Region ownership, without cardinalities: the objects of a kind are none *)
(* or one, as the owner of its region says.                                *)

Holders(k) == {o \in Objects : objects[o].used /\ objects[o].kind = k}

OwnersTrue ==
  \A k \in RegionKinds :
    IF owner[k] = "caps" THEN \E o \in Objects : Holders(k) = {o} ELSE Holders(k) = {}

\* The two forms say the same of a state.
LEMMA OwnersCounted == OwnersTrue => RegionOwnership
<1> SUFFICES ASSUME OwnersTrue, NEW k \in RegionKinds
             PROVE  Cardinality(Holders(k)) = IF owner[k] = "caps" THEN 1 ELSE 0
  BY DEF RegionOwnership, Holders
<1>1. CASE owner[k] = "caps"
  <2>1. PICK o \in Objects : Holders(k) = {o}
    BY <1>1 DEF OwnersTrue
  <2> QED BY <1>1, <2>1, FS_Singleton
<1>2. CASE owner[k] # "caps"
  BY <1>2, FS_EmptySet DEF OwnersTrue
<1> QED BY <1>1, <1>2

\* Every step keeps it.
LEMMA NextOwners == IInv /\ OwnersTrue /\ [Next]_vars => OwnersTrue'
<1> SUFFICES ASSUME IInv, OwnersTrue, [Next]_vars, NEW k \in RegionKinds
             PROVE  IF owner'[k] = "caps" THEN \E o \in Objects : Holders(k)' = {o}
                    ELSE Holders(k)' = {}
  BY DEF OwnersTrue, Holders
<1>1. CASE Quiet
  BY <1>1 DEF Quiet, OwnersTrue, Holders
<1>2. ASSUME NEW d \in Slots, NEW o \in Objects, NEW h \in Kinds, Makes(d, o, h)
      PROVE  IF owner'[k] = "caps" THEN \E x \in Objects : Holders(k)' = {x}
             ELSE Holders(k)' = {}
  <2>1. CASE h = k
    <3>1. Holders(k) = {} /\ owner'[k] = "caps"
      BY <1>2, <2>1 DEF Makes, OwnersTrue
    <3>2. Holders(k)' = {o}
      BY <1>2, <2>1, <3>1 DEF Makes, Holders
    <3> QED BY <3>1, <3>2
  <2>2. CASE h # k
    <3>1. Holders(k)' = Holders(k) /\ owner'[k] = owner[k]
      BY <1>2, <2>2 DEF Makes, Holders
    <3> QED BY <3>1 DEF OwnersTrue
  <2> QED BY <2>1, <2>2
<1>3. ASSUME KindsKept, owner' = owner
      PROVE  IF owner'[k] = "caps" THEN \E x \in Objects : Holders(k)' = {x}
             ELSE Holders(k)' = {}
  <2>1. Holders(k)' = Holders(k)
    BY <1>3 DEF KindsKept, Holders
  <2> QED BY <1>3, <2>1 DEF OwnersTrue
<1>4. ASSUME NEW s \in Slots, NEW f \in FinReport, Drops(s, f)
      PROVE  IF owner'[k] = "caps" THEN \E x \in Objects : Holders(k)' = {x}
             ELSE Holders(k)' = {}
  <2> DEFINE o == slots[s].object
             last == objects[o].refcount = 1
  <2>1. /\ slots[s].used
        /\ objects'[o].used <=> ~last
        /\ ~last => objects'[o].kind = objects[o].kind
        /\ \A x \in Objects \ {o} : objects'[x] = objects[x]
        /\ owner'[k] = IF last /\ k = objects[o].kind
                       THEN (IF TypeOf[k] = "Dma" THEN "teardown" ELSE "alloc") ELSE owner[k]
    BY <1>4 DEF Drops
  <2>2. o \in Objects /\ objects[o].used
    BY <2>1, NamedObject
  <2> HIDE DEF o, last
  <2>3. CASE last /\ k = objects[o].kind
    <3>1. o \in Holders(k)
      BY <2>2, <2>3 DEF Holders
    <3>2. Holders(k) = {o}
      BY <3>1 DEF OwnersTrue
    <3>3. Holders(k)' = {}
      BY <2>1, <2>3, <3>2 DEF Holders
    <3>4. owner'[k] # "caps"
      BY <2>1, <2>3
    <3> QED BY <3>3, <3>4
  <2>4. CASE ~(last /\ k = objects[o].kind)
    <3>1. Holders(k)' = Holders(k)
      BY <2>1, <2>2, <2>4 DEF Holders
    <3>2. owner'[k] = owner[k]
      BY <2>1, <2>4
    <3> QED BY <3>1, <3>2 DEF OwnersTrue
  <2> QED BY <2>3, <2>4
<1>5. ASSUME NEW s \in Slots, NEW d \in Slots, Derives(s, d) \/ Moves(s, d)
      PROVE  KindsKept /\ owner' = owner
  BY <1>5 DEF Derives, Moves
<1> QED BY <1>1, <1>2, <1>3, <1>4, <1>5, StepShape

\* For tables of any size: a region belongs to the capability system exactly while one object
\* stands for it.  It goes back to the allocator (a DMA region to the teardown) with the last
\* capability, never while a second object still names it.
THEOREM RegionsOwned == Spec => []RegionOwnership
<1>1. Init => OwnersTrue
  BY DEF Init, OwnersTrue, Holders
<1> QED BY <1>1, NextOwners, OwnersCounted, Inductive, PTL DEF Spec

-----------------------------------------------------------------------------
(* Handles.  Until the generation of some slot has wrapped, a handle in    *)
(* circulation never has a generation its slot has yet to reach, nor that  *)
(* of a free slot: release_slot bumps it.                                  *)

GensBound ==
  /\ \A i \in Slots : slots[i].gen <= MaxRelease
  /\ revoking # Null => \A i \in Slots : slots[i].used => slots[i].gen < MaxRelease

HandlesPast ==
  \A p \in issued : /\ p.gen <= slots[p.slot].gen
                    /\ p.gen = slots[p.slot].gen => slots[p.slot].used

\* What a step may do to a slot: its generation moves only forward, and while it stands still
\* a capability in it stays, unchanged.
SlotStep(i) ==
  /\ slots'[i].gen = slots[i].gen \/ (slots[i].used /\ slots'[i].gen = slots[i].gen + 1)
  /\ slots'[i].gen = slots[i].gen /\ slots[i].used => Keeps(i)

\* Every step of the space is such a step in every slot, and returns only live handles.
LEMMA StepForward ==
  ASSUME IInv, [Next]_vars
  PROVE  /\ \A i \in Slots : SlotStep(i)
         /\ \A p \in issued' \ issued : \E d \in Slots : slots'[d].used /\ p = ptr(d, slots')
<1>0. \A i \in Slots : slots[i].gen \in Nat
  BY SlotFields DEF IInv, TypeOK, Table
<1>1. CASE Quiet
  BY <1>1 DEF Quiet, SlotStep, Keeps
<1>2. ASSUME NEW d \in Slots, NEW o \in Objects, NEW h \in Kinds, Makes(d, o, h)
      PROVE  /\ \A i \in Slots : SlotStep(i)
             /\ \A p \in issued' \ issued : \E x \in Slots : slots'[x].used /\ p = ptr(x, slots')
  BY <1>2 DEF Makes, SlotStep, Keeps
<1>3. ASSUME NEW s \in Slots, NEW d \in Slots, Derives(s, d)
      PROVE  /\ \A i \in Slots : SlotStep(i)
             /\ \A p \in issued' \ issued : \E x \in Slots : slots'[x].used /\ p = ptr(x, slots')
  BY <1>3 DEF Derives, SlotStep, Keeps
<1>4. ASSUME NEW s \in Slots, NEW d \in Slots, Moves(s, d)
      PROVE  /\ \A i \in Slots : SlotStep(i)
             /\ \A p \in issued' \ issued : \E x \in Slots : slots'[x].used /\ p = ptr(x, slots')
  BY <1>0, <1>4 DEF Moves, SlotStep, Keeps, Carries
<1>5. ASSUME NEW s \in Slots, NEW f \in FinReport, Drops(s, f)
      PROVE  /\ \A i \in Slots : SlotStep(i)
             /\ \A p \in issued' \ issued : \E x \in Slots : slots'[x].used /\ p = ptr(x, slots')
  BY <1>0, <1>5 DEF Drops, SlotStep, Keeps
<1> QED BY <1>1, <1>2, <1>3, <1>4, <1>5, StepShape

\* No slot is released more often than the bound allows.
LEMMA NextGens == IInv /\ IInv' /\ GensBound /\ [Next]_vars => GensBound'
<1> SUFFICES ASSUME IInv, IInv', GensBound, [Next]_vars PROVE GensBound'
  OBVIOUS
<1>0. /\ \A i \in Slots : slots[i].gen \in Nat /\ slots'[i].gen \in Nat
      /\ MaxRelease \in Nat
  BY SlotFields, TablesAssumption DEF IInv, TypeOK, Table
<1>1. CASE Quiet
  BY <1>1, SlotFacts DEF Quiet, GensBound
<1>2. ASSUME NEW d \in Slots, NEW o \in Objects, NEW h \in Kinds, Makes(d, o, h)
      PROVE  GensBound'
  BY <1>2 DEF Makes, GensBound, Keeps
<1>3. ASSUME NEW s \in Slots, NEW d \in Slots, Derives(s, d)
      PROVE  GensBound'
  BY <1>3 DEF Derives, GensBound, Keeps
<1>4. ASSUME NEW s \in Slots, NEW d \in Slots, Moves(s, d)
      PROVE  GensBound'
  BY <1>0, <1>4 DEF Moves, GensBound, Keeps, Carries
<1>5. ASSUME NEW s \in Slots, NEW f \in FinReport, Drops(s, f)
      PROVE  GensBound'
  <2>1. /\ slots[s].used /\ slots'[s].gen = slots[s].gen + 1 /\ ~slots'[s].used
        /\ revoking' = revoking /\ (revoking = Null => slots[s].gen < MaxRelease)
        /\ \A i \in Slots \ {s} : Keeps(i)
    BY <1>5 DEF Drops
  <2> QED BY <1>0, <2>1 DEF GensBound, Keeps
<1> QED BY <1>1, <1>2, <1>3, <1>4, <1>5, StepShape

\* Below the wrap a generation is its own remainder.
LEMMA BelowWrap ==
  ASSUME MaxRelease < GenMod, IInv, GensBound, NEW i \in Slots
  PROVE  slots[i].gen % GenMod = slots[i].gen
<1>1. slots[i].gen \in Nat /\ GenMod \in Nat \ {0} /\ MaxRelease \in Nat
  BY SlotFields, TablesAssumption DEF IInv, TypeOK, Table
<1>2. slots[i].gen < GenMod
  BY <1>1 DEF GensBound
<1> QED BY <1>1, <1>2

\* The same, of the next state.
LEMMA BelowWrapNext ==
  ASSUME MaxRelease < GenMod, IInv', GensBound', NEW i \in Slots
  PROVE  slots'[i].gen % GenMod = slots'[i].gen
<1>1. slots'[i].gen \in Nat /\ GenMod \in Nat \ {0} /\ MaxRelease \in Nat
  BY SlotFields, TablesAssumption DEF IInv, TypeOK, Table
<1>2. slots'[i].gen < GenMod
  BY <1>1 DEF GensBound
<1> QED BY <1>1, <1>2

\* A handle in circulation stays behind its slot.
LEMMA NextHandles ==
  ASSUME MaxRelease < GenMod, IInv, IInv', GensBound, GensBound', HandlesPast, [Next]_vars
  PROVE  HandlesPast'
<1> SUFFICES ASSUME NEW p \in issued'
             PROVE  /\ p.gen <= slots'[p.slot].gen
                    /\ p.gen = slots'[p.slot].gen => slots'[p.slot].used
  BY DEF HandlesPast
<1>0. p \in CapPtr /\ p.slot \in Slots /\ p.gen \in Nat
  BY TablesAssumption DEF IInv, TypeOK, CapPtr
<1>1. slots[p.slot].gen \in Nat /\ slots'[p.slot].gen \in Nat
  BY <1>0, SlotFields DEF IInv, TypeOK, Table
<1>2. CASE p \in issued
  BY <1>0, <1>1, <1>2, StepForward DEF HandlesPast, SlotStep, Keeps
<1>3. CASE p \notin issued
  <2>1. PICK d \in Slots : slots'[d].used /\ p = ptr(d, slots')
    BY <1>3, StepForward
  <2>2. slots'[d].gen % GenMod = slots'[d].gen
    BY BelowWrapNext
  <2> QED BY <1>1, <2>1, <2>2 DEF ptr
<1> QED BY <1>2, <1>3

\* For tables of any size, as long as no slot's 32-bit generation has wrapped: a handle that
\* stopped resolving never resolves again, and one that keeps resolving keeps denoting the
\* same capability, whatever is installed, moved, deleted or revoked meanwhile.
THEOREM HandlesStaySound ==
  ASSUME MaxRelease < GenMod
  PROVE  Spec => HandlesSound
<1>1. Init => GensBound /\ HandlesPast
  BY TablesAssumption, SlotFacts DEF Init, GensBound, HandlesPast, EmptySlot
<1>2. IInv /\ IInv' /\ GensBound /\ HandlesPast /\ [Next]_vars => GensBound' /\ HandlesPast'
  BY NextGens, NextHandles
<1>3. ASSUME IInv, IInv', GensBound, GensBound', HandlesPast, [Next]_vars
      PROVE  /\ [\A p \in issued : ~Resolves(p) => ~Resolves(p)']_vars
             /\ [\A p \in issued : Resolves(p) /\ Resolves(p)' =>
                   /\ slots'[p.slot].object = slots[p.slot].object
                   /\ slots'[p.slot].rights = slots[p.slot].rights
                   /\ slots'[p.slot].badge = slots[p.slot].badge
                   /\ slots'[p.slot].window = slots[p.slot].window]_vars
  <2> SUFFICES ASSUME NEW p \in issued
               PROVE  /\ ~Resolves(p) => ~Resolves(p)'
                      /\ Resolves(p) /\ Resolves(p)' => Keeps(p.slot)
    BY DEF Keeps
  <2>1. p.slot \in Slots /\ p.gen \in Nat
    BY <1>3, TablesAssumption DEF IInv, TypeOK, CapPtr
  <2>2. slots[p.slot].gen \in Nat /\ slots'[p.slot].gen \in Nat
    BY <1>3, <2>1, SlotFields DEF IInv, TypeOK, Table
  <2>3. Resolves(p) <=> slots[p.slot].used /\ slots[p.slot].gen = p.gen
    BY <1>3, <2>1, BelowWrap DEF Resolves
  <2>4. Resolves(p)' <=> slots'[p.slot].used /\ slots'[p.slot].gen = p.gen
    BY <1>3, <2>1, BelowWrapNext DEF Resolves
  <2>5. SlotStep(p.slot)
    BY <1>3, <2>1, StepForward
  <2>6. p.gen <= slots[p.slot].gen /\ (p.gen = slots[p.slot].gen => slots[p.slot].used)
    BY <1>3 DEF HandlesPast
  <2> QED BY <2>2, <2>3, <2>4, <2>5, <2>6 DEF SlotStep
<1> QED BY <1>1, <1>2, <1>3, Inductive, PTL DEF Spec, HandlesSound, StaleStaysDead, HandleStable

-----------------------------------------------------------------------------
(* The derivation tree has no cycle.  A set of capabilities without a root *)
(* in it, or without a leaf in it, would be one; both directions are       *)
(* needed, the first for audit_cdt, the second for descend_to_leaf.        *)

InUse == {i \in Slots : slots[i].used}

\* Every set of capabilities holds one from which no other of the set is derived.
Bottomed ==
  \A T \in SUBSET InUse : T # {} => \E x \in T : \A y \in T : slots[y].parent # x

\* A parent is in use, or there is none.
LEMMA ParentInUse ==
  ASSUME IInv, NEW i \in InUse
  PROVE  slots[i].parent \in InUse \cup {Null}
BY ParentUsed DEF InUse

\* Every step keeps a root in every set of capabilities.
LEMMA NextAcyclic == IInv /\ Acyclic /\ [Next]_vars => Acyclic'
<1> SUFFICES ASSUME IInv, Acyclic, [Next]_vars,
                    NEW T \in SUBSET Slots, T # {}, \A i \in T : slots'[i].used
             PROVE  \E x \in T : slots'[x].parent \notin T
  BY DEF Acyclic
<1>0. /\ \A U \in SUBSET InUse : U # {} => \E x \in U : slots[x].parent \notin U
      /\ \A i \in InUse : slots[i].parent \in InUse \cup {Null}
      /\ Null \notin Slots
  BY ParentInUse, SlotFacts DEF Acyclic, InUse
<1>1. CASE Quiet
  BY <1>0, <1>1 DEF Quiet, InUse
<1>2. ASSUME NEW d \in Slots, NEW o \in Objects, NEW h \in Kinds, Makes(d, o, h)
      PROVE  \E x \in T : slots'[x].parent \notin T
  <2>1. CASE d \in T
    BY <1>0, <1>2, <2>1 DEF Makes
  <2>2. CASE d \notin T
    BY <1>0, <1>2, <2>2 DEF Makes, Keeps, InUse
  <2> QED BY <2>1, <2>2
<1>3. ASSUME NEW s \in Slots, NEW d \in Slots, Derives(s, d)
      PROVE  \E x \in T : slots'[x].parent \notin T
  <2> DEFINE U == T \ {d}
  <2>1. U \in SUBSET InUse /\ \A i \in U : slots'[i].parent = slots[i].parent
    BY <1>3 DEF Derives, Keeps, InUse
  <2>2. s # d /\ slots'[d].parent = s /\ d \notin InUse /\ d # Null
    BY <1>0, <1>3 DEF Derives, InUse
  <2>3. CASE U = {}
    BY <2>2, <2>3
  <2>4. CASE U # {}
    <3>1. PICK x \in U : slots[x].parent \notin U
      BY <1>0, <2>1, <2>4
    <3> QED BY <1>0, <2>1, <2>2, <3>1
  <2> QED BY <2>3, <2>4
<1>4. ASSUME NEW s \in Slots, NEW d \in Slots, Moves(s, d)
      PROVE  \E x \in T : slots'[x].parent \notin T
  <2>1. /\ s # d /\ s \notin T /\ s \in InUse /\ d \notin InUse /\ d # Null
        /\ slots'[d].parent = slots[s].parent
        /\ \A i \in T \ {d} :
             /\ i \in InUse
             /\ slots'[i].parent = IF slots[i].parent = s THEN d ELSE slots[i].parent
    BY <1>0, <1>4 DEF Moves, Keeps, InUse
  <2>2. CASE d \notin T
    <3>1. PICK x \in T : slots[x].parent \notin T
      BY <1>0, <2>1, <2>2
    <3> QED BY <2>1, <2>2, <3>1
  <2>3. CASE d \in T
    <3> DEFINE U == (T \ {d}) \cup {s}
    <3>1. PICK x \in U : slots[x].parent \notin U
      BY <1>0, <2>1, ZenonT(40)
    <3>2. CASE x = s
      BY <1>0, <2>1, <2>3, <3>1, <3>2
    <3>3. CASE x # s
      BY <1>0, <2>1, <2>3, <3>1, <3>3
    <3> QED BY <3>2, <3>3
  <2> QED BY <2>2, <2>3
<1>5. ASSUME NEW s \in Slots, NEW f \in FinReport, Drops(s, f)
      PROVE  \E x \in T : slots'[x].parent \notin T
  <2>1. \A i \in T : i \in InUse /\ slots'[i].parent = slots[i].parent
    BY <1>5 DEF Drops, Keeps, InUse
  <2> QED BY <1>0, <2>1
<1> QED BY <1>1, <1>2, <1>3, <1>4, <1>5, StepShape

\* Every step keeps a leaf in every set of capabilities.
LEMMA NextBottomed == IInv /\ Bottomed /\ [Next]_vars => Bottomed'
<1> SUFFICES ASSUME IInv, Bottomed, [Next]_vars,
                    NEW T \in SUBSET Slots, T # {}, \A i \in T : slots'[i].used
             PROVE  \E x \in T : \A y \in T : slots'[y].parent # x
  BY DEF Bottomed, InUse
<1>0. /\ \A U \in SUBSET InUse : U # {} => \E x \in U : \A y \in U : slots[y].parent # x
      /\ \A i \in InUse : slots[i].parent \in InUse \cup {Null}
      /\ Null \notin Slots
  BY ParentInUse, SlotFacts DEF Bottomed
<1>1. CASE Quiet
  BY <1>0, <1>1 DEF Quiet, InUse
<1>2. ASSUME NEW d \in Slots, NEW o \in Objects, NEW h \in Kinds, Makes(d, o, h)
      PROVE  \E x \in T : \A y \in T : slots'[y].parent # x
  <2> DEFINE U == T \ {d}
  <2>1. /\ U \in SUBSET InUse /\ \A i \in U : slots'[i].parent = slots[i].parent
        /\ slots'[d].parent = Null
    BY <1>2 DEF Makes, Keeps, InUse
  <2>2. CASE U = {}
    BY <1>0, <2>1, <2>2
  <2>3. CASE U # {}
    <3>1. PICK x \in U : \A y \in U : slots[y].parent # x
      BY <1>0, <2>1, <2>3
    <3> QED BY <1>0, <2>1, <3>1
  <2> QED BY <2>2, <2>3
<1>3. ASSUME NEW s \in Slots, NEW d \in Slots, Derives(s, d)
      PROVE  \E x \in T : \A y \in T : slots'[y].parent # x
  <2>1. \A i \in T \ {d} : i \in InUse /\ slots'[i].parent = slots[i].parent
    BY <1>3 DEF Derives, Keeps, InUse
  <2>2. s # d /\ slots'[d].parent = s /\ d \notin InUse /\ d # Null
    BY <1>0, <1>3 DEF Derives, InUse
  <2>3. CASE d \in T
    BY <1>0, <2>1, <2>2, <2>3
  <2>4. CASE d \notin T
    <3>1. PICK x \in T : \A y \in T : slots[y].parent # x
      BY <1>0, <2>1, <2>4
    <3> QED BY <2>1, <2>4, <3>1
  <2> QED BY <2>3, <2>4
<1>4. ASSUME NEW s \in Slots, NEW d \in Slots, Moves(s, d)
      PROVE  \E x \in T : \A y \in T : slots'[y].parent # x
  <2>1. /\ s # d /\ s \notin T /\ s \in InUse /\ d \notin InUse /\ d # Null
        /\ slots'[d].parent = slots[s].parent
        /\ \A i \in T \ {d} :
             /\ i \in InUse
             /\ slots'[i].parent = IF slots[i].parent = s THEN d ELSE slots[i].parent
    BY <1>0, <1>4 DEF Moves, Keeps, InUse
  <2>2. CASE d \notin T
    <3>1. PICK x \in T : \A y \in T : slots[y].parent # x
      BY <1>0, <2>1, <2>2
    <3> QED BY <2>1, <2>2, <3>1
  <2>3. CASE d \in T
    <3> DEFINE U == (T \ {d}) \cup {s}
    <3>0. U \in SUBSET InUse /\ U # {}
      BY <2>1
    <3>1. PICK x \in U : \A y \in U : slots[y].parent # x
      BY <1>0, <3>0
    <3>2. CASE x = s
      BY <1>0, <2>1, <2>3, <3>1, <3>2
    <3>3. CASE x # s
      BY <1>0, <2>1, <2>3, <3>1, <3>3
    <3> QED BY <3>2, <3>3
  <2> QED BY <2>2, <2>3
<1>5. ASSUME NEW s \in Slots, NEW f \in FinReport, Drops(s, f)
      PROVE  \E x \in T : \A y \in T : slots'[y].parent # x
  <2>1. \A i \in T : i \in InUse /\ slots'[i].parent = slots[i].parent
    BY <1>5 DEF Drops, Keeps, InUse
  <2> QED BY <1>0, <2>1
<1> QED BY <1>1, <1>2, <1>3, <1>4, <1>5, StepShape

\* descend_to_leaf always arrives: below a capability with children there is a leaf.
LEMMA LeafExists ==
  ASSUME IInv, Bottomed, NEW c \in InUse
  PROVE  Leaf(slots, c) # {}
<1> DEFINE f == FirstOf(slots)
           C == Chain(f, c)
<1>1. /\ slots \in Table /\ LinksOK(slots)
      /\ \A i \in Slots : slots[i].first \in Slots \cup {Null}
      /\ Null \notin Slots /\ c \in Slots
  BY LinkFields, SlotFacts DEF IInv, TypeOK, TreeOK, InUse
<1>2. \A i \in Slots : f[i] = slots[i].first
  BY DEF FirstOf
<1>3. C = {x \in Slots : \A T \in SUBSET Slots : c \in T /\ Closed(f, T) => x \in T}
  BY <1>1 DEF Chain
<1>4. C \subseteq InUse
  <2>1. Closed(f, InUse)
    BY <1>1, <1>2 DEF Closed, InUse, LinksOK
  <2> QED BY <1>3, <2>1 DEF InUse
<1>5. c \in C
  BY <1>1, <1>3
<1>6. ASSUME NEW y \in C PROVE f[y] \in C \cup {Null}
  <2>1. y \in Slots /\ f[y] \in Slots \cup {Null}
    BY <1>1, <1>2, <1>3
  <2>2. \A T \in SUBSET Slots : c \in T /\ Closed(f, T) => f[y] \in T \cup {Null}
    BY <1>3 DEF Closed
  <2> HIDE DEF f
  <2> QED BY <1>3, <2>1, <2>2
<1>7. PICK x \in C : \A y \in C : slots[y].parent # x
  BY <1>4, <1>5 DEF Bottomed
<1>8. slots[x].first = Null
  <2>1. x \in Slots /\ slots[x].used
    BY <1>4 DEF InUse
  <2>2. slots[x].first # Null => slots[slots[x].first].parent = x
    BY <1>1, <2>1 DEF LinksOK
  <2> QED BY <1>2, <1>6, <1>7, <2>1, <2>2
<1> QED BY <1>8 DEF Leaf

-----------------------------------------------------------------------------
(* The report of a revoke.  Every capability it deletes leaves one slot    *)
(* less in use, and the revoked one stays: the debug entries fit buffers   *)
(* of CAP_OBJECTS = CAP_SLOTS entries.                                     *)

ReportFits ==
  /\ fin.overflow = FALSE
  /\ revoking # Null => /\ fin.gn + Cardinality(InUse) <= NSlots
                        /\ fin.reply = {} /\ fin.dma = {}

\* The slots in use can be counted.
LEMMA InUseFinite ==
  IsFiniteSet(InUse) /\ Cardinality(InUse) \in Nat /\ Cardinality(InUse) <= NSlots
<1>1. IsFiniteSet(Slots) /\ Cardinality(Slots) = NSlots
  BY TablesAssumption, FS_Interval DEF Slots
<1>2. InUse \in SUBSET Slots
  BY DEF InUse
<1> HIDE DEF InUse
<1>3. IsFiniteSet(InUse) /\ Cardinality(InUse) <= Cardinality(Slots)
  BY <1>1, <1>2, FS_Subset
<1> QED BY <1>1, <1>3, FS_CardinalityType

\* The leaf a revoke deletes names the object of the revoked capability.
LEMMA LeafShares ==
  ASSUME IInv, revoking # Null, slots[revoking].first # Null,
         NEW l \in Leaf(slots, slots[revoking].first)
  PROVE  slots[l].object = slots[revoking].object
<1> DEFINE T == {i \in Slots : slots[i].used /\ slots[i].object = slots[revoking].object}
           c == slots[revoking].first
<1>1. /\ slots \in Table /\ LinksOK(slots) /\ revoking \in Slots /\ slots[revoking].used
      /\ \A i \in Slots : slots[i].first \in Slots \cup {Null}
      /\ Null \notin Slots
  BY LinkFields, SlotFacts DEF IInv, TypeOK, TreeOK
<1>2. \A i \in T : slots[i].first \in T \cup {Null}
  BY <1>1 DEF LinksOK
<1>3. c \in T
  BY <1>1, <1>2
<1>4. Closed(FirstOf(slots), T)
  BY <1>2 DEF Closed, FirstOf
<1>5. l \in Chain(FirstOf(slots), c)
  BY DEF Leaf
<1> HIDE DEF c
<1>6. l \in T
  BY <1>1, <1>3, <1>4, <1>5 DEF Chain
<1> QED BY <1>6

\* Hence that deletion is never the object's last, and the debug buffer has room.
LEMMA DropInRevoke ==
  ASSUME IInv, ReportFits, revoking # Null, NEW s \in Slots, NEW f \in FinReport, Drops(s, f)
  PROVE  /\ f = fin /\ objects[slots[s].object].refcount # 1
         /\ fin.gn + 2 <= NSlots
         /\ Cardinality(InUse') = Cardinality(InUse) - 1
<1>1. /\ f = fin /\ slots[s].used /\ slots[revoking].first # Null
      /\ s \in Leaf(slots, slots[revoking].first)
      /\ InUse' = InUse \ {s}
  BY DEF Drops, Keeps, InUse
<1>2. s # revoking /\ slots[s].object = slots[revoking].object
  BY <1>1, LeafUsed, LeafShares
<1>3. revoking \in Slots /\ slots[revoking].used
  BY DEF IInv, TypeOK
<1>4. objects[slots[s].object].refcount # 1
  <2> DEFINE R == Refs(slots, slots[s].object)
  <2>1. s \in R /\ revoking \in R
    BY <1>1, <1>2, <1>3 DEF Refs
  <2>2. objects[slots[s].object].refcount = Cardinality(R) /\ IsFiniteSet(R)
    BY <1>1, NamedObject, RefsFinite
  <2> HIDE DEF R
  <2> QED BY <1>2, <2>1, <2>2, FS_Singleton
<1>5. /\ Cardinality(InUse \ {s}) = Cardinality(InUse) - 1
      /\ IsFiniteSet(InUse \ {s}) /\ Cardinality(InUse \ {s}) \in Nat
      /\ Cardinality(InUse) \in Nat
  <2>1. s \in InUse
    BY <1>1 DEF InUse
  <2>2. IsFiniteSet(InUse \ {s}) /\ Cardinality(InUse \ {s}) = Cardinality(InUse) - 1
    BY <2>1, InUseFinite, FS_RemoveElement
  <2> QED BY <2>2, InUseFinite, FS_CardinalityType
<1>6. Cardinality(InUse \ {s}) # 0
  <2>1. revoking \in InUse \ {s}
    BY <1>2, <1>3 DEF InUse
  <2> QED BY <1>5, <2>1, FS_EmptySet
<1>7. fin.gn \in Nat /\ NSlots \in Nat
  BY TablesAssumption DEF IInv, TypeOK, FinReport
<1>8. fin.gn + 2 <= NSlots
  BY <1>5, <1>6, <1>7 DEF ReportFits
<1> QED BY <1>1, <1>4, <1>5, <1>8

\* What one deletion adds to the report.
LEMMA ReportGrows ==
  ASSUME NEW f \in FinReport, NEW s \in Slots, NEW last \in BOOLEAN, f.gn < NObjects
  PROVE  /\ Report(f, s, last).overflow = f.overflow
         /\ Report(f, s, last).gn \in {f.gn, f.gn + 1}
         /\ ~last => Report(f, s, last).reply = f.reply /\ Report(f, s, last).dma = f.dma
         /\ LET k == objects[slots[s].object].kind IN
            TypeOf[k] = "Debuggable" /\ "WRITE" \in slots[s].rights /\ slots[s].parent # Null
              => k \in Report(f, s, last).debug
<1>1. f.overflow \in BOOLEAN /\ f.gn \in Nat
  BY DEF FinReport
<1> QED BY <1>1 DEF Report

\* The buffers have room for whatever a step reports.
LEMMA RoomLeft ==
  ASSUME NSlots <= NObjects + 1, IInv, ReportFits, NEW s \in Slots, NEW f \in FinReport,
         Drops(s, f)
  PROVE  f.gn < NObjects /\ f.gn \in Nat /\ f.overflow = FALSE
<1>1. NObjects \in Nat \ {0} /\ NSlots \in Nat
  BY TablesAssumption
<1>2. CASE revoking = Null
  BY <1>1, <1>2 DEF Drops, NoReport
<1>3. CASE revoking # Null
  <2>1. f = fin /\ fin.gn + 2 <= NSlots
    BY <1>3, DropInRevoke
  <2> QED BY <1>1, <2>1 DEF ReportFits, FinReport
<1> QED BY <1>2, <1>3

\* Every step keeps the report within its bounds.
LEMMA NextReport ==
  ASSUME NSlots <= NObjects + 1, IInv, IInv', ReportFits, [Next]_vars
  PROVE  ReportFits'
<1>0. fin.gn \in Nat /\ fin'.gn \in Nat /\ NSlots \in Nat /\ fin \in FinReport
  BY TablesAssumption DEF IInv, TypeOK, FinReport
<1>1. CASE Quiet
  <2>1. InUse' = InUse
    BY <1>1 DEF Quiet, InUse
  <2>2. CASE revoking' = revoking /\ fin' = fin
    BY <2>1, <2>2 DEF ReportFits
  <2>3. CASE fin' = NoReport
    BY <2>1, <2>3, InUseFinite DEF ReportFits, NoReport
  <2>4. CASE revoking' = Null /\ fin' = fin
    BY <2>4 DEF ReportFits
  <2> QED BY <1>1, <2>2, <2>3, <2>4 DEF Quiet
<1>2. ASSUME revoking' = Null, fin' = fin
      PROVE  ReportFits'
  BY <1>2 DEF ReportFits
<1>3. ASSUME NEW s \in Slots, NEW f \in FinReport, Drops(s, f)
      PROVE  ReportFits'
  <2> DEFINE last == objects[slots[s].object].refcount = 1
  <2>1. fin' = Report(f, s, last) /\ revoking' = revoking
    BY <1>3 DEF Drops
  <2>2. f.gn < NObjects /\ f.gn \in Nat /\ f.overflow = FALSE
    BY <1>3, RoomLeft
  <2>3. /\ fin'.overflow = FALSE /\ fin'.gn \in {f.gn, f.gn + 1}
        /\ ~last => fin'.reply = f.reply /\ fin'.dma = f.dma
    BY <2>1, <2>2, ReportGrows
  <2>4. CASE revoking = Null
    BY <2>1, <2>3, <2>4 DEF ReportFits
  <2>5. CASE revoking # Null
    <3>1. f = fin /\ ~last /\ Cardinality(InUse') = Cardinality(InUse) - 1
      BY <1>3, <2>5, DropInRevoke
    <3>2. Cardinality(InUse) \in Nat
      BY InUseFinite
    <3> HIDE DEF last
    <3>3. fin'.gn + Cardinality(InUse') <= NSlots
      BY <1>0, <2>3, <2>5, <3>1, <3>2 DEF ReportFits
    <3>4. fin'.reply = {} /\ fin'.dma = {}
      BY <2>3, <2>5, <3>1 DEF ReportFits
    <3> QED BY <2>3, <3>3, <3>4 DEF ReportFits
  <2> QED BY <2>4, <2>5
<1>4. \A s, d, o, k : Makes(d, o, k) \/ Derives(s, d) \/ Moves(s, d)
                        => revoking' = Null /\ fin' = fin
  BY DEF Makes, Derives, Moves
<1> QED BY <1>1, <1>2, <1>3, <1>4, StepShape

\* The revoke parts of the invariant, together.
RevokeInv == Acyclic /\ Bottomed /\ ReportFits

\* The empty tables satisfy them, and every step keeps them.
LEMMA RevokeInvHolds ==
  ASSUME NSlots <= NObjects + 1
  PROVE  /\ Init => RevokeInv
         /\ IInv /\ IInv' /\ RevokeInv /\ [Next]_vars => RevokeInv'
<1>1. ASSUME Init PROVE RevokeInv
  <2>1. InUse = {} /\ fin.overflow = FALSE /\ revoking = Null
    BY <1>1 DEF Init, InUse, EmptySlot, NoReport
  <2> QED BY <2>1 DEF RevokeInv, Acyclic, Bottomed, ReportFits, InUse
<1>2. IInv /\ IInv' /\ RevokeInv /\ [Next]_vars => RevokeInv'
  BY NextAcyclic, NextBottomed, NextReport DEF RevokeInv
<1> QED BY <1>1, <1>2

\* For tables of any size, with report buffers as long as the slot table less one (the kernel
\* makes them as long): the derivation tree never has a cycle, the reports of one revoke fit
\* their buffers, and the capability it starts from stays.
THEOREM RevokeIsGrounded ==
  ASSUME NSlots <= NObjects + 1
  PROVE  Spec => []RevokeGrounded
<1>1. IInv /\ RevokeInv => RevokeGrounded
  BY DEF IInv, RevokeInv, ReportFits, RevokeGrounded, NoReportLost, RootStays
<1> QED BY <1>1, RevokeInvHolds, Inductive, PTL DEF Spec

\* A revoke returns only when the child list is empty.
LEMMA EndsEmpty ==
  ASSUME IInv, Bottomed, [Next]_vars, revoking # Null, revoking' = Null
  PROVE  Kids(slots, revoking) = {}
<1>1. Quiet
  BY StepShape DEF Makes, Derives, Moves, Drops
<1>2. /\ revoking \in Slots /\ slots[revoking].used /\ ListsOK(slots) /\ LinksOK(slots)
      /\ slots[revoking].first \in Slots \cup {Null}
  BY LinkFields DEF IInv, TypeOK, TreeOK
<1>3. slots[revoking].first = Null
  <2>1. slots[revoking].first # Null => slots[revoking].first \in InUse
    BY <1>2 DEF LinksOK, InUse
  <2>2. slots[revoking].first = Null \/ Leaf(slots, slots[revoking].first) = {}
    BY <1>1 DEF Quiet
  <2> QED BY <2>1, <2>2, LeafExists
<1> QED BY <1>2, <1>3 DEF ListsOK, ChildList, Chain

\* A capability that stays in use keeps its object's kind.
LEMMA KindFollows ==
  ASSUME IInv, IInv', [Next]_vars, NEW i \in Slots, NEW j \in Slots,
         slots[i].used, slots'[j].used, slots'[j].object = slots[i].object
  PROVE  objects'[slots'[j].object].kind = objects[slots[i].object].kind
<1> DEFINE o == slots[i].object
<1>1. o \in Objects /\ objects[o].used
  BY NamedObject
<1>2. objects'[o].used
  BY <1>1 DEF IInv, RefcountExact, Refs
<1> HIDE DEF o
<1>3. CASE Quiet
  BY <1>3 DEF Quiet, o
<1>4. ASSUME NEW d \in Slots, NEW x \in Objects, NEW h \in Kinds, Makes(d, x, h)
      PROVE  objects'[o].kind = objects[o].kind
  BY <1>1, <1>4 DEF Makes
<1>5. ASSUME KindsKept PROVE objects'[o].kind = objects[o].kind
  BY <1>1, <1>5 DEF KindsKept
<1>6. ASSUME NEW s \in Slots, NEW f \in FinReport, Drops(s, f)
      PROVE  objects'[o].kind = objects[o].kind
  BY <1>1, <1>2, <1>6 DEF Drops
<1>7. \A s, d : Derives(s, d) \/ Moves(s, d) => KindsKept
  BY DEF Derives, Moves
<1>8. objects'[o].kind = objects[o].kind
  BY <1>3, <1>4, <1>5, <1>6, <1>7, StepShape DEF Quiet
<1> QED BY <1>8 DEF o

\* The slot i holds a control right over the PD of kind k.
Controls(i, k) ==
  /\ slots[i].used /\ "WRITE" \in slots[i].rights /\ slots[i].parent # Null
  /\ objects[slots[i].object].kind = k

\* A control right is lost only to a deletion, which reports it.
LEMMA LossReported ==
  ASSUME NSlots <= NObjects + 1, IInv, IInv', ReportFits, [Next]_vars,
         NEW k \in Kinds, TypeOf[k] = "Debuggable", NEW i \in Slots, Controls(i, k)
  PROVE  (\E j \in Slots : Controls(j, k)') \/ k \in fin'.debug
<1> DEFINE Stays == \E j \in Slots : Controls(j, k)'
<1>1. ASSUME Keeps(i), slots'[i].parent # Null PROVE Stays
  BY <1>1, KindFollows DEF Keeps, Controls
<1>2. ASSUME Quiet PROVE Stays
  BY <1>1, <1>2 DEF Quiet, Keeps, Controls
<1>3. ASSUME NEW d \in Slots, NEW x \in Objects, NEW h \in Kinds, Makes(d, x, h)
      PROVE  Stays
  BY <1>1, <1>3 DEF Makes, Controls
<1>4. ASSUME NEW s \in Slots, NEW d \in Slots, Derives(s, d)
      PROVE  Stays
  BY <1>1, <1>4 DEF Derives, Controls
<1>5. ASSUME NEW s \in Slots, NEW d \in Slots, Moves(s, d)
      PROVE  Stays
  <2>1. CASE i = s
    <3>1. Carries(d, i) /\ slots'[d].parent # Null
      BY <1>5, <2>1 DEF Moves, Controls
    <3> QED BY <3>1, KindFollows DEF Carries, Controls
  <2>2. CASE i # s
    BY <1>1, <1>5, <2>2, SlotFacts DEF Moves, Controls
  <2> QED BY <2>1, <2>2
<1>6. ASSUME NEW s \in Slots, NEW f \in FinReport, Drops(s, f)
      PROVE  Stays \/ k \in fin'.debug
  <2>1. CASE i = s
    <3> DEFINE last == objects[slots[s].object].refcount = 1
    <3>1. fin' = Report(f, s, last) /\ f.gn < NObjects
      BY <1>6, RoomLeft DEF Drops
    <3> HIDE DEF last
    <3>2. last \in BOOLEAN
      BY DEF last
    <3> QED BY <2>1, <3>1, <3>2, ReportGrows DEF Controls
  <2>2. CASE i # s
    BY <1>1, <1>6, <2>2 DEF Drops, Controls
  <2> QED BY <2>1, <2>2
<1> HIDE DEF Stays
<1>7. Stays \/ k \in fin'.debug
  BY <1>2, <1>3, <1>4, <1>5, <1>6, StepShape
<1> QED BY <1>7 DEF Stays

\* For tables of any size, under the same condition on the buffers: when revoke returns,
\* nothing derived from the revoked capability is left, and every step that takes the last
\* control right over a debugged PD away reports that PD.
THEOREM RevokeIsSound ==
  ASSUME NSlots <= NObjects + 1
  PROVE  Spec => RevokeSound
<1>1. ASSUME IInv, IInv', RevokeInv, [Next]_vars
      PROVE  /\ [revoking # Null /\ revoking' = Null => Kids(slots, revoking) = {}]_vars
             /\ [\A k \in Kinds :
                   TypeOf[k] = "Debuggable" /\ DebugControlOver(k) /\ ~DebugControlOver(k)'
                     => k \in fin'.debug]_vars
  <2>1. revoking # Null /\ revoking' = Null => Kids(slots, revoking) = {}
    BY <1>1, EndsEmpty DEF RevokeInv
  <2>2. ASSUME NEW k \in Kinds, TypeOf[k] = "Debuggable", DebugControlOver(k),
               ~DebugControlOver(k)'
        PROVE  k \in fin'.debug
    <3>1. PICK i \in Slots : Controls(i, k)
      BY <2>2 DEF DebugControlOver, Controls
    <3>2. ~\E j \in Slots : Controls(j, k)'
      BY <2>2 DEF DebugControlOver, Controls
    <3> QED BY <1>1, <2>2, <3>1, <3>2, LossReported DEF RevokeInv
  <2> QED BY <2>1, <2>2
<1> QED
  BY <1>1, RevokeInvHolds, Inductive, PTL
  DEF Spec, RevokeSound, RevokeComplete, DebugLossReported
=============================================================================
