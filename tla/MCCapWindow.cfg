CONSTANTS
  NSlots = 3
  NObjects = 3
  GenMod = 3
  MaxRelease = 2
  RightBits = {"WRITE"}
  Badges = {0, 1}
  mem = mem
  dma = dma
  rep = rep
  dbg = dbg
  Kinds = {mem, dma}
  TypeOf <- TypeOfKind
  RegionOf <- TopRegion
  AddrMax = 3
SPECIFICATION Spec
INVARIANTS Attenuation RegionOwnership
PROPERTY HandlesSound
CHECK_DEADLOCK FALSE
