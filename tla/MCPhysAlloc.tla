---------------------------- MODULE MCPhysAlloc -----------------------------
(***************************************************************************)
(* The allocator and, beside it, the stripes of cache colours and the      *)
(* regions that devices write into.  They share no state here: a behaviour *)
(* belongs to one part, the others stand still.                            *)
(*   frames      memory with a hole and odd ends, pages of two addresses,  *)
(*               requests with zones, alignments, colours and a prefix     *)
(*   full        a free list of two entries that overflows                 *)
(*   stripes     three cores load coloured PDs and fork them               *)
(*   hang        two devices of a group, one may stop answering            *)
(*   nest        a device with three regions, callers may detach           *)
(*   narrow      a context with one entry, tables and invalidations fail   *)
(***************************************************************************)
EXTENDS PhysAlloc, Colors, DmaTeardown, TLC

CONSTANTS c1, c2, c3, d1, d2, g1, r1, r2, r3

MCRam == {Region(2, 10), Region(13, 8), Region(24, 12)}
Plain == [size |-> 1, align |-> 1, lo |-> 0, hi |-> 99, mask |-> ALL, vorspann |-> 0]
MCRequests ==
  { Plain,
    [Plain EXCEPT !.size = 4, !.align = 4],
    [Plain EXCEPT !.size = 3, !.lo = 6, !.hi = 18],
    [Plain EXCEPT !.size = 4, !.mask = stripe(0, 2, Colors)],
    [Plain EXCEPT !.size = 6, !.mask = stripe(1, 2, Colors), !.vorspann = 1],
    [Plain EXCEPT !.mask = {}],
    [Plain EXCEPT !.mask = stripe(1, 2, Colors), !.vorspann = 1] }

\* The cores that load and fork are interchangeable.
CoreSymmetry == Permutations({c1, c2, c3})

VARIABLES part, nctx, nslpt, niotlb, ndev, nflight, nregion, nok, nop

nestVars == <<nctx, nslpt, niotlb, ndev, nflight, nregion, nok, nop>>

OneGroup == [d \in Devices |-> g1]

Full == INSTANCE PhysAlloc WITH
  MAX_FRAGMENTS <- 2, Ram <- {Region(2, 8), Region(13, 5)},
  Requests <- {Plain, [Plain EXCEPT !.size = 4]}

Nest == INSTANCE DmaTeardown WITH
  ctx <- nctx, slpt <- nslpt, iotlb <- niotlb, dev <- ndev, flight <- nflight, region <- nregion,
  ok <- nok, op <- nop,
  Groups <- {g1}, Devices <- {d1}, GroupOf <- [d \in {d1} |-> g1], Regions <- {r1, r2, r3},
  NDMA_CTX <- 1, MAX_CTX_REGS <- 3, MAX_PENDING_DMA <- 1, MayHang <- {},
  Detaching <- TRUE, MapFails <- FALSE, SyncFails <- FALSE

Narrow == INSTANCE DmaTeardown WITH
  ctx <- nctx, slpt <- nslpt, iotlb <- niotlb, dev <- ndev, flight <- nflight, region <- nregion,
  ok <- nok, op <- nop,
  Groups <- {g1}, Devices <- {d1}, GroupOf <- [d \in {d1} |-> g1], Regions <- {r1, r2},
  NDMA_CTX <- 1, MAX_CTX_REGS <- 1, MAX_PENDING_DMA <- 1, MayHang <- {},
  Detaching <- TRUE, MapFails <- TRUE, SyncFails <- TRUE

ASSUME Full!AllocAssumption /\ ColorsAssumption
ASSUME DmaAssumption /\ Nest!DmaAssumption /\ Narrow!DmaAssumption

MCInit ==
  /\ Init /\ ColorsInit /\ DmaInit
  /\ \/ part \in {"frames", "full", "stripes", "hang", "nest"} /\ Nest!DmaInit
     \/ part = "narrow" /\ Narrow!DmaInit

MCNext ==
  /\ UNCHANGED part
  /\ \/ part = "frames" /\ Next /\ UNCHANGED <<colorVars, dmaVars, nestVars>>
     \/ part = "full" /\ Full!Next /\ UNCHANGED <<colorVars, dmaVars, nestVars>>
     \/ part = "stripes" /\ ColorsNext /\ UNCHANGED <<vars, dmaVars, nestVars>>
     \/ part = "hang" /\ DmaNext /\ UNCHANGED <<vars, colorVars, nestVars>>
     \/ part = "nest" /\ Nest!DmaNext /\ UNCHANGED <<vars, colorVars, dmaVars>>
     \/ part = "narrow" /\ Narrow!DmaNext /\ UNCHANGED <<vars, colorVars, dmaVars>>

MCSpec == MCInit /\ [][MCNext]_<<part, vars, colorVars, dmaVars, nestVars>>

\* The free list is what it claims to be: sorted, apart and within its capacity even when it
\* overflows; while it has room nothing is lost, the queries tell the truth, an allocation is
\* refused only when no place satisfies it, and the stripes divide the memory by colour.  And memory
\* that devices wrote into comes back safely from nested teardowns with callers that detach, and,
\* where attaches are refused or fail half-way, as far as no condition is needed.
MemoryTrue ==
  CASE part = "frames" -> NothingLost /\ QueriesTrue /\ SearchComplete /\ StripesPartition
    [] part = "full" -> Full!TypeOK /\ Full!ListSound
    [] part = "nest" -> Nest!TeardownSound
    [] part = "narrow" -> Narrow!TeardownSound
    [] OTHER -> TRUE

\* While its list has room the allocator implements the ownership of frames of FrameSpec; and an
\* allocation loses nothing even when the list is full.
FrameOwnership ==
  /\ Frames!FInit /\ [][part = "frames" => Frames!FStep]_<<Free, live>>
  /\ AllocLosesNothing
=============================================================================
