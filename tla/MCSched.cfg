CONSTANTS
  NThreads = 4
  NPrio = 3
  Period = 2
  MaxTime = 3
  FristenJeTick = 1
  Worlds <- FiveWorlds
SPECIFICATION Spec
INVARIANT StateAgrees
PROPERTIES DispatchedSolvent WaitsEnd
