CONSTANTS
  c1 = c1
  c2 = c2
  c3 = c3
  d1 = d1
  d2 = d2
  g1 = g1
  r1 = r1
  r2 = r2
  r3 = r3
  PAGE = 2
  MAX_FRAGMENTS = 8
  MASK_BITS = 4
  Ram <- MCRam
  Requests <- MCRequests
  Colors = 8
  MaxCaps = 3
  Cores = {c1, c2, c3}
  PARTITIONS = 2
  VSlots = 3
  Kinds = {"load", "fork"}
  Groups = {g1}
  Devices = {d1, d2}
  GroupOf <- OneGroup
  Regions = {r1, r2}
  NDMA_CTX = 1
  MAX_CTX_REGS = 2
  MAX_PENDING_DMA = 1
  MayHang = {d2}
  Detaching = FALSE
  MapFails = FALSE
  SyncFails = FALSE
SPECIFICATION MCSpec
SYMMETRY CoreSymmetry
INVARIANTS MemoryTrue StripesApart TeardownSound
PROPERTY FrameOwnership
CHECK_DEADLOCK FALSE
