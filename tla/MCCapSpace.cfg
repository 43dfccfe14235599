CONSTANTS
  NSlots = 4
  NObjects = 3
  GenMod = 2
  MaxRelease = 1
  RightBits = {"WRITE"}
  Badges = {0}
  mem = mem
  dma = dma
  rep = rep
  dbg = dbg
  Kinds = {rep, dbg}
  TypeOf <- TypeOfKind
  RegionOf <- TopRegion
  AddrMax = 1
SPECIFICATION Spec
INVARIANTS LinksReciprocal ChildListsExact RefcountExact RevokeGrounded
PROPERTIES RevokeSound RevokeReturns
CHECK_DEADLOCK FALSE
