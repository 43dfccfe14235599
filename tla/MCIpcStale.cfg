CONSTANTS
  k1 = k1
  k2 = k2
  c1 = c1
  c2 = c2
  s1 = s1
  Cores = {k1, k2}
  Threads = {c1}
  Endpoints = {}
  Notifications = {"n"}
  Badges = {1}
  CoreOf <- Spread
  QueueCap = 2
  Worlds <- OneWaiter
SPECIFICATION Spec
INVARIANTS TimeoutOwnWait
