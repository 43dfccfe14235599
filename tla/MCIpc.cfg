CONSTANTS
  k1 = k1
  k2 = k2
  c1 = c1
  c2 = c2
  s1 = s1
  Cores = {k1, k2}
  Threads = {c1, c2, s1}
  Endpoints = {"e", "f"}
  Notifications = {"n"}
  Badges = {1, 2}
  CoreOf <- Spread
  QueueCap = 2
  Worlds <- FourWorlds
SPECIFICATION Spec
INVARIANTS EnteredWhereWaiting FramesTrue SignalNotLost
PROPERTIES QuiesceShrinks WaitsEnd
CHECK_DEADLOCK FALSE
