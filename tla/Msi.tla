-------------------------------- MODULE Msi --------------------------------
(***************************************************************************)
(* Interrupt grants to devices on x86_64: CPU vectors from a pool of       *)
(* atomics, a block of entries of the interrupt remapping table, the rows  *)
(* of the device (system.rs: msi_block_reservieren, msi_grant, msi_revoke; *)
(* caprock-hal irte.rs: vergib, ruecknahme, zieh_ein).  Devices are        *)
(* assigned on several cores at once.  The remapping unit caches entries   *)
(* and an invalidation may time out; a device may stop answering on its    *)
(* configuration space.                                                    *)
(***************************************************************************)
EXTENDS Naturals, FiniteSets

CONSTANTS Devices,
          MSI_VEKTOR_POOL,  \* CPU vectors in the pool
          IRT_EINTRAEGE,    \* entries of the remapping table
          Rows,             \* vectors per grant
          DeadConfig,       \* TRUE: configuration space may stop answering
          WeakGrant         \* TRUE: an invalidation may fail while granting, too

Nobody == "none"
MsiVectors == 0 .. MSI_VEKTOR_POOL - 1
Indices == 0 .. IRT_EINTRAEGE - 1
RowSet == 0 .. Rows - 1

MsiAssumption ==
  /\ MSI_VEKTOR_POOL \in Nat /\ IRT_EINTRAEGE \in Nat /\ Rows \in Nat \ {0}
  /\ Nobody \notin Devices /\ DeadConfig \in BOOLEAN /\ WeakGrant \in BOOLEAN

VARIABLES
  taken,   \* MSI_VEKTOR_BELEGT
  used,    \* IrteAllocator::belegt
  lock,    \* the holder of the IRTE_ALLOC lock
  table,   \* the remapping table in memory
  cache,   \* the interrupt entry cache of the unit
  dev      \* per device: the grant being built or held, and whether it is armed

msiVars == <<taken, used, lock, table, cache, dev>>

Absent == [d |-> Nobody, v |-> 0]
Nothing == [pc |-> "none", s |-> 0, i |-> 0, h |-> 0, armed |-> FALSE, rows |-> {}]

Entry == [d : Devices \cup {Nobody}, v : Nat]
DevType == [pc : {"none", "look", "take", "reserve", "write", "inval", "arm", "granted",
                  "quiesce", "withdraw", "free"},
            s : Nat, i : Nat, h : Nat, armed : BOOLEAN, rows : SUBSET Indices]

\* Pool, table and cache range over vectors and indices.
MsiTypeOK ==
  /\ taken \subseteq MsiVectors /\ used \subseteq Indices /\ lock \in Devices \cup {Nobody}
  /\ table \in [Indices -> Entry] /\ cache \in [Indices -> Entry]
  /\ dev \in [Devices -> DevType]

MsiInit ==
  /\ taken = {} /\ used = {} /\ lock = Nobody
  /\ table = [i \in Indices |-> Absent]
  /\ cache = [i \in Indices |-> Absent]
  /\ dev = [d \in Devices |-> Nothing]

Block(s) == {s + i : i \in RowSet}
Min0(S) == CHOOSE x \in S : \A y \in S : x <= y
At(d, p) == dev[d].pc = p
Goto(d, p) == dev' = [dev EXCEPT ![d].pc = p, ![d].i = 0]
\* What the device remembers beyond a grant: whether it is armed, and its rows.
Forget(d) == [Nothing EXCEPT !.armed = dev[d].armed, !.rows = dev[d].rows]
Nope(d) == dev' = [dev EXCEPT ![d] = Forget(d)]

-----------------------------------------------------------------------------
(* The vector pool                                                         *)

FreeFrom(s0) == {s \in MsiVectors : s >= s0 /\ Block(s) \subseteq MsiVectors \ taken}

\* msi_block_reservieren, first pass: are all of the block free?
Look(d) ==
  /\ At(d, "none") \/ At(d, "look")
  /\ dev' = IF FreeFrom(dev[d].s) = {} THEN [dev EXCEPT ![d] = Forget(d)]
            ELSE [dev EXCEPT ![d].pc = "take", ![d].i = 0, ![d].s = Min0(FreeFrom(dev[d].s))]
  /\ UNCHANGED <<taken, used, lock, table, cache>>

\* Mutant of TakeVector: the second pass stores instead of comparing.
TakeVectorBlind(d) ==
  /\ At(d, "take")
  /\ taken' = taken \cup {dev[d].s + dev[d].i}
  /\ dev' = IF dev[d].i + 1 = Rows THEN [dev EXCEPT ![d].pc = "reserve", ![d].i = 0]
            ELSE [dev EXCEPT ![d].i = @ + 1]
  /\ UNCHANGED <<used, lock, table, cache>>

\* Second pass: one compare_exchange after the other; a lost one gives the taken ones back and
\* the search goes on behind the gap.
TakeVector(d) ==
  LET v == dev[d].s + dev[d].i IN
  /\ At(d, "take")
  /\ IF v \notin taken
     THEN /\ taken' = taken \cup {v}
          /\ dev' = IF dev[d].i + 1 = Rows THEN [dev EXCEPT ![d].pc = "reserve", ![d].i = 0]
                    ELSE [dev EXCEPT ![d].i = @ + 1]
     ELSE /\ taken' = taken \ {dev[d].s + i : i \in 0 .. dev[d].i - 1}
          /\ dev' = [dev EXCEPT ![d].pc = "look", ![d].i = 0, ![d].s = @ + 1]
  /\ UNCHANGED <<used, lock, table, cache>>

-----------------------------------------------------------------------------
(* vergib: reserve, write, invalidate                                      *)

FreeIndices == {h \in Indices : {h + i : i \in RowSet} \subseteq Indices \ used}

\* reserviere; KeinFreierBlock gives the vectors back.
Reserve(d) ==
  /\ At(d, "reserve") /\ lock = Nobody
  /\ IF FreeIndices = {}
     THEN /\ taken' = taken \ Block(dev[d].s)
          /\ Nope(d) /\ UNCHANGED <<used, lock>>
     ELSE /\ used' = used \cup {Min0(FreeIndices) + i : i \in RowSet}
          /\ lock' = d
          /\ dev' = [dev EXCEPT ![d].pc = "write", ![d].h = Min0(FreeIndices)]
          /\ UNCHANGED taken
  /\ UNCHANGED <<table, cache>>

WriteEntry(d) ==
  /\ At(d, "write")
  /\ table' = [table EXCEPT ![dev[d].h + dev[d].i] = [d |-> d, v |-> dev[d].s + dev[d].i]]
  /\ dev' = [dev EXCEPT ![d].pc = "inval"]
  /\ UNCHANGED <<taken, used, lock, cache>>

\* The unit confirms: the entry counts from now on.
Confirmed(d) ==
  /\ At(d, "inval")
  /\ cache' = [cache EXCEPT ![dev[d].h + dev[d].i] = Absent]
  /\ IF dev[d].i + 1 = Rows
     THEN lock' = Nobody /\ Goto(d, "arm")
     ELSE UNCHANGED lock /\ dev' = [dev EXCEPT ![d].pc = "write", ![d].i = @ + 1]
  /\ UNCHANGED <<taken, used, table>>

Cleared(h, n) == [i \in Indices |-> IF i \in h .. h + n - 1 THEN Absent ELSE table[i]]

\* Invalidations of those of the n entries from h on that are not in F.
Dropped(h, n, F) == [i \in Indices |-> IF i \in (h .. h + n - 1) \ F THEN Absent ELSE cache[i]]

\* gib_frei: the whole block that was reserved.
Freed(d) == {dev[d].h + i : i \in RowSet}

\* ruecknahme: what was written is cleared again, its invalidation is tried and not insisted
\* on; the whole block is free again, and so are the vectors.
Unconfirmed(d) ==
  LET n == dev[d].i + 1 IN
  /\ At(d, "inval") /\ WeakGrant
  /\ table' = Cleared(dev[d].h, n)
  /\ \E F \in SUBSET (dev[d].h .. dev[d].h + n - 1) : cache' = Dropped(dev[d].h, n, F)
  /\ used' = used \ Freed(d)
  /\ taken' = taken \ Block(dev[d].s)
  /\ lock' = Nobody /\ Nope(d)

-----------------------------------------------------------------------------
(* The device: rows, arming, and the way back                              *)

\* The rows are written, then the function is enabled and the control word read back; a
\* configuration space that does not answer may have swallowed the write or not.
Arm(d) ==
  /\ At(d, "arm")
  /\ \/ dev' = [dev EXCEPT ![d].pc = "granted", ![d].armed = TRUE, ![d].rows = Freed(d)]
     \/ /\ DeadConfig
        /\ \E landed \in BOOLEAN :
             dev' = [dev EXCEPT ![d].pc = "quiesce", ![d].armed = landed, ![d].rows = Freed(d)]
  /\ UNCHANGED <<taken, used, lock, table, cache>>

\* A later step of assign_driver_device fails.
Abort(d) ==
  /\ At(d, "granted") /\ Goto(d, "quiesce")
  /\ UNCHANGED <<taken, used, lock, table, cache>>

\* Mutant of Quiesce: the device is not stilled.
QuiesceSkipped(d) ==
  /\ At(d, "quiesce") /\ Goto(d, "withdraw")
  /\ UNCHANGED <<taken, used, lock, table, cache>>

\* msi_revoke, 1: function mask and row masks; the answer is not looked at.
Quiesce(d) ==
  /\ At(d, "quiesce")
  /\ \E still \in IF DeadConfig THEN BOOLEAN ELSE {TRUE} :
       dev' = [dev EXCEPT ![d].pc = "withdraw", ![d].armed = @ /\ ~still]
  /\ UNCHANGED <<taken, used, lock, table, cache>>

\* msi_revoke, 2: zieh_ein clears and invalidates every entry; if one invalidation fails the
\* block stays reserved.
Withdraw(d) ==
  /\ At(d, "withdraw") /\ lock = Nobody
  /\ table' = Cleared(dev[d].h, Rows)
  /\ \E F \in SUBSET Freed(d) :
       /\ cache' = Dropped(dev[d].h, Rows, F)
       /\ used' = IF F = {} THEN used \ Freed(d) ELSE used
  /\ Goto(d, "free")
  /\ UNCHANGED <<taken, lock>>

\* Mutant of FreeVectors: the vectors are kept.
FreeVectorsNever(d) ==
  /\ At(d, "free") /\ Nope(d)
  /\ UNCHANGED <<taken, used, lock, table, cache>>

\* msi_revoke, 3: the vectors, whatever came of the withdrawal.
FreeVectors(d) ==
  /\ At(d, "free")
  /\ taken' = taken \ Block(dev[d].s)
  /\ Nope(d)
  /\ UNCHANGED <<used, lock, table, cache>>

\* An armed device raises a message: the unit looks the entry up and keeps it.
Fetch(d, i) ==
  /\ dev[d].armed /\ i \in dev[d].rows /\ table[i].d # Nobody
  /\ cache' = [cache EXCEPT ![i] = table[i]]
  /\ UNCHANGED <<taken, used, lock, table, dev>>

MsiNext ==
  \E d \in Devices :
    \/ Look(d) \/ TakeVector(d) \/ Reserve(d) \/ WriteEntry(d) \/ Confirmed(d) \/ Unconfirmed(d)
    \/ Arm(d) \/ Abort(d) \/ Quiesce(d) \/ Withdraw(d) \/ FreeVectors(d)
    \/ \E i \in Indices : Fetch(d, i)

MsiSpec == MsiInit /\ [][MsiNext]_msiVars

-----------------------------------------------------------------------------
(* Properties                                                              *)

Effective(i) == IF cache[i].d # Nobody THEN cache[i] ELSE table[i]
Quiet == \A d \in Devices : dev[d].pc \in {"none", "granted"}
Granted == {d \in Devices : dev[d].pc = "granted"}

\* A grant is whole: the remapping unit sees an entry with its vector and its source for every
\* row of the device, and no vector of the block belongs to another grant (msi_grant: all rows
\* or none).
GrantWhole ==
  \A d \in Granted :
    /\ \A i \in RowSet : Effective(dev[d].h + i) = [d |-> d, v |-> dev[d].s + i]
    /\ Block(dev[d].s) \subseteq taken
    /\ \A e \in Granted \ {d} : Block(dev[d].s) \cap Block(dev[e].s) = {}

\* No abort path leaks: with no grant under way the pool holds exactly the vectors of the grants,
\* every grant's entries are reserved, and nothing else is present in the table.
NothingLeaks ==
  Quiet => /\ taken = UNION {Block(dev[d].s) : d \in Granted}
           /\ UNION {Freed(d) : d \in Granted} \subseteq used
           /\ \A i \in Indices : table[i].d # Nobody => \E d \in Granted : i \in Freed(d)

\* "The interrupt of the old device would end up at the new one": a message an armed device can
\* raise never carries a vector that is granted to another device.
NoMisroute ==
  \A d \in Devices : dev[d].armed =>
    \A i \in dev[d].rows :
      Effective(i).d = d =>
        \A e \in Granted \ {d} : Effective(i).v \notin Block(dev[e].s)

\* All rows of a device or none: the remapping unit sees each row of a grant with its source and
\* vector, grants share no vector, no abort path leaks vectors or entries, and, as long as the
\* configuration space answers, no message of an armed device carries the vector of another one.
GrantsSound == GrantWhole /\ NothingLeaks /\ (~DeadConfig => NoMisroute)

\* An index may be handed out again only when the unit has forgotten its old entry (zieh_ein).
FreeIsForgotten == \A i \in Indices \ used : Effective(i).d = Nobody
=============================================================================
