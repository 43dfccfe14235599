----------------------------- MODULE PhysAlloc ------------------------------
(***************************************************************************)
(* caprock-mem: the allocator of physical memory.  Free memory is a list   *)
(* of regions, sorted by address, with neighbours merged and a fixed       *)
(* capacity.  An allocation searches the regions of a zone for the best    *)
(* fit, and may ask that every page behind a prefix has a colour of a mask.*)
(*                                                                         *)
(* Addresses are natural numbers far below 2^64: checked_add never fails.  *)
(***************************************************************************)
EXTENDS Naturals, Sequences, FiniteSets, FiniteSetsExt, SequencesExt

CONSTANTS PAGE, MAX_FRAGMENTS, MASK_BITS,
          Ram,        \* the regions registered at boot
          Requests,   \* what callers ask for
          Colors,     \* page colours of the machine
          MaxCaps     \* bound: capabilities alive at a time

ASSUME AllocAssumption ==
  /\ PAGE \in Nat \ {0} /\ MAX_FRAGMENTS \in Nat \ {0} /\ MASK_BITS \in Nat \ {0}
  /\ Colors \in Nat \ {0} /\ MaxCaps \in Nat
  /\ \A r, q \in Ram : r = q \/ r.base + r.len <= q.base \/ q.base + q.len <= r.base

VARIABLES regions,    \* the free list
          found,      \* regions of Ram that have been registered
          live        \* the regions of the MemoryCaps

vars == <<regions, found, live>>

Region(base, len) == [base |-> base, len |-> len]
End(r) == r.base + r.len
Span(r) == r.base .. End(r) - 1
Spans(S) == UNION {Span(r) : r \in S}
Free == Spans(ToSet(regions))

-----------------------------------------------------------------------------
(* Colours                                                                 *)

ALL == 0 .. MASK_BITS - 1
contains(mask, c) == c % MASK_BITS \in mask
color_of(pa, colors) == IF colors <= 1 THEN 0 ELSE (pa \div PAGE) % colors

\* The bits of a mask that stand for a colour at all.
live_bits(colors) == IF colors < MASK_BITS THEN colors ELSE MASK_BITS

\* Stripe i of n, n and colors powers of two: a block of bits, repeated over the mask.
stripe(i, n, colors) ==
  LET per == live_bits(colors) \div n
  IN {b \in ALL : b % live_bits(colors) \in i * per .. (i + 1) * per - 1}

run_is_colored(start, npages, colors, mask) ==
  \A j \in 0 .. npages - 1 : contains(mask, color_of(start + j * PAGE, colors))

-----------------------------------------------------------------------------
(* The free list                                                           *)

align_up(value, align) == ((value + align - 1) \div align) * align

\* Mutant of coalesce: regions stay apart.
KeepApart(list) == list

\* Neighbours become one region.
coalesce(list) ==
  FoldLeft(LAMBDA acc, r : IF acc # <<>> /\ End(Last(acc)) = r.base
                           THEN [acc EXCEPT ![Len(acc)].len = @ + r.len]
                           ELSE Append(acc, r),
           <<>>, list)

\* Mutant of insert: the capacity is checked one too late.
InsertOneMore(list, r) ==
  IF r.len = 0 \/ Len(list) > MAX_FRAGMENTS THEN list
  ELSE coalesce(InsertAt(list, Cardinality({i \in DOMAIN list : list[i].base < r.base}) + 1, r))

\* In the order of addresses.  A full list refuses the region.
insert(list, r) ==
  IF r.len = 0 \/ Len(list) >= MAX_FRAGMENTS THEN list
  ELSE coalesce(InsertAt(list, Cardinality({i \in DOMAIN list : list[i].base < r.base}) + 1, r))

-----------------------------------------------------------------------------
(* The search                                                              *)

Zone(r, q) == [from |-> Max({r.base, q.lo}), to |-> Min({End(r), q.hi})]
Usable(r, q) == LET z == Zone(r, q) IN IF z.to > z.from THEN z.to - z.from ELSE 0

Size(q) == align_up(Max({q.size, 1}), PAGE)
Align(q) == Max({q.align, PAGE})

\* A request with a mask that tells colours apart.
Coloured(q) == Colors > 1 /\ q.mask # ALL

\* Mutant of Tries: fewer steps than the pattern needs.
TriesTooFew(q) == IF Coloured(q) THEN 0 .. (Colors \div 4) ELSE {0}

\* The places that are tried in a region: one, or one for each colour and one more.
Tries(q) == IF Coloured(q) THEN 0 .. Colors ELSE {0}

Fits(q, r, start) ==
  LET z == Zone(r, q) IN
  /\ z.to > z.from /\ start >= r.base /\ start + Size(q) <= z.to
  /\ Coloured(q) => run_is_colored(start + q.vorspann * PAGE, (Size(q) \div PAGE) - q.vorspann,
                                   Colors, q.mask)

\* The first place in region r that fits.
Starts(q, r) ==
  LET first == align_up(Zone(r, q).from, Align(q))
  IN {s \in {first + k * Align(q) : k \in Tries(q)} : Fits(q, r, s)}

\* Mutant of SplitsFit: the capacity of the list is not looked at.
SplitsAnyway(q, r, start) == TRUE

\* A place inside a region makes two of it, and needs room in the list.
SplitsFit(q, r, start) ==
  ~(start > r.base /\ start + Size(q) < End(r) /\ Len(regions) >= MAX_FRAGMENTS)

\* Requests that are refused before any search.
Refused(q) ==
  \/ q.mask = {}
  \/ Coloured(q) /\ (q.vorspann >= Size(q) \div PAGE \/ (Size(q) \div PAGE) - q.vorspann > MASK_BITS)

Candidates(q) ==
  IF Refused(q) THEN {}
  ELSE {i \in DOMAIN regions :
          Starts(q, regions[i]) # {} /\ SplitsFit(q, regions[i], Min(Starts(q, regions[i])))}

\* Best fit in the zone, the lowest address among equals.
Best(q) ==
  LET C == Candidates(q)
      least == Min({Usable(regions[i], q) : i \in C})
  IN Min({i \in C : Usable(regions[i], q) = least})

-----------------------------------------------------------------------------
Init == regions = <<>> /\ found = {} /\ live = {}

\* At boot, before anything is allocated.
add_region(r) ==
  /\ r \notin found /\ live = {}
  /\ regions' = insert(regions, r)
  /\ found' = found \cup {r}
  /\ UNCHANGED live

\* Mutant of alloc: the region stays in the list when nothing is cut from its front.
AllocKeeps(q) ==
  /\ found = Ram /\ Candidates(q) # {} /\ Cardinality(live) < MaxCaps
  /\ LET i == Best(q)
         r == regions[i]
         start == Min(Starts(q, r))
         end == start + Size(q)
     IN /\ regions' = IF start = r.base THEN regions
                     ELSE insert(insert(RemoveAt(regions, i), Region(r.base, start - r.base)),
                                 Region(end, End(r) - end))
        /\ live' = live \cup {Region(start, Size(q))}
  /\ UNCHANGED found

\* alloc_in and alloc_colored_vorspann_in; alloc and the others are calls of these.
alloc(q) ==
  /\ found = Ram /\ Candidates(q) # {} /\ Cardinality(live) < MaxCaps
  /\ LET i == Best(q)
         r == regions[i]
         start == Min(Starts(q, r))
         end == start + Size(q)
     IN /\ regions' = insert(insert(RemoveAt(regions, i), Region(r.base, start - r.base)),
                             Region(end, End(r) - end))
        /\ live' = live \cup {Region(start, Size(q))}
  /\ UNCHANGED found

free_region(cap) ==
  /\ cap \in live
  /\ regions' = insert(regions, cap)
  /\ live' = live \ {cap}
  /\ UNCHANGED found

\* MemoryCap::split
split(cap, first_len) ==
  /\ cap \in live /\ 0 < first_len /\ first_len < cap.len /\ Cardinality(live) < MaxCaps
  /\ live' = (live \ {cap}) \cup {Region(cap.base, first_len),
                                  Region(cap.base + first_len, cap.len - first_len)}
  /\ UNCHANGED <<regions, found>>

Next ==
  \/ \E r \in Ram : add_region(r)
  \/ \E q \in Requests : alloc(q)
  \/ \E cap \in live : free_region(cap) \/ \E n \in 1 .. cap.len : n % PAGE = 0 /\ split(cap, n)

Spec == Init /\ [][Next]_vars

-----------------------------------------------------------------------------
(* Queries of the list                                                     *)

fully_free(base, len) ==
  len = 0 \/ \E i \in DOMAIN regions : regions[i].base <= base /\ base + len <= End(regions[i])

overlaps_free(base, len) ==
  len > 0 /\ \E i \in DOMAIN regions : base < End(regions[i]) /\ regions[i].base < base + len

total_free == FoldLeft(LAMBDA sum, r : sum + r.len, 0, regions)

-----------------------------------------------------------------------------
(* Properties                                                              *)

\* The list keeps its capacity and has no empty region.
TypeOK ==
  /\ Len(regions) <= MAX_FRAGMENTS
  /\ \A i \in DOMAIN regions : regions[i].len > 0
  /\ found \subseteq Ram

\* The list is sorted and has no two regions that overlap or touch.
ListSound == \A i \in 1 .. Len(regions) - 1 : End(regions[i]) < regions[i + 1].base

\* The free list keeps the promise of FrameSpec.
Frames == INSTANCE FrameSpec WITH free <- Free
ImplementsFrames == Frames!FSpec

\* No memory is lost: what has been registered is free or owned.
NothingLost == Spans(found) = Free \cup Spans(live)

\* The queries, which look at one region at a time, say what is true of the free addresses.
QueriesTrue ==
  /\ total_free = Cardinality(Free)
  /\ \A r \in live \cup Ram \cup ToSet(regions) :
       /\ fully_free(r.base, r.len) <=> Span(r) \subseteq Free
       /\ overlaps_free(r.base, r.len) <=> Span(r) \cap Free # {}

\* A place that satisfies a request, found by looking everywhere.
Place(q, start) ==
  /\ start % Align(q) = 0 /\ q.lo <= start /\ start + Size(q) <= q.hi
  /\ start .. start + Size(q) - 1 \subseteq Free
  /\ Coloured(q) => \A p \in start + q.vorspann * PAGE .. start + Size(q) - 1 :
                      contains(q.mask, color_of(p, Colors))

\* The search is right and complete: where it answers, the place is one that was asked for, and
\* while the list has room it refuses only what no place satisfies.
SearchComplete ==
  \A q \in Requests : ~Refused(q) =>
    /\ Candidates(q) # {} => Place(q, Min(Starts(q, regions[Best(q)])))
    /\ Candidates(q) = {} /\ Len(regions) < MAX_FRAGMENTS => ~\E start \in Free : Place(q, start)

\* An allocation takes the lowest address that satisfies it.
FirstFit ==
  \A q \in Requests : Candidates(q) # {} =>
    \A start \in Free : Place(q, start) => Min(Starts(q, regions[Best(q)])) <= start

\* An allocation never loses memory, however full the list is: the rests of a region always
\* have room, and what is no longer free is what was handed out.
AllocLosesNothing ==
  [][live \subseteq live' => Free \ Free' = Spans(live' \ live)]_vars

\* Stripes divide the memory of a machine with any number of colours: every free address belongs
\* to exactly one stripe, and no stripe is without a colour.
StripesPartition ==
  \A n \in {1, 2, 4} : \A colors \in {2, 4, 8} : n <= live_bits(colors) =>
    \A p \in Free :
      /\ Cardinality({i \in 0 .. n - 1 : contains(stripe(i, n, colors), color_of(p, colors))}) = 1
      /\ \A i \in 0 .. n - 1 : \E c \in 0 .. colors - 1 : contains(stripe(i, n, colors), c)
=============================================================================
