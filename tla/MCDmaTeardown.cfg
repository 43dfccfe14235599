CONSTANTS
  d1 = d1
  g1 = g1
  Groups = {g1}
  Devices = {d1}
  GroupOf <- One
  Regions = {r1}
  NDMA_CTX = 1
  MAX_CTX_REGS = 1
  MAX_PENDING_DMA = 1
  MayHang = {d1}
  Detaching = TRUE
  MapFails = FALSE
  SyncFails = FALSE
SPECIFICATION DmaSpec
INVARIANT NoStrayWrite
CHECK_DEADLOCK FALSE
