CONSTANTS
  A = A
  B = B
  X = X
  P = P
  Q = Q
  R = R
  g1 = g1
  g2 = g2
  g3 = g3
  g4 = g4
  h1 = h1
  c1 = c1
  c2 = c2
  Members = {A, B}
  Born = {A}
  Outside = {X}
  NEndpoints = 1
  Clients = {B, X}
  Servers = {A}
  NCores = 1
  Home <- OneCore
  Debuggable = {A}
  Balancing = FALSE
  Reloading = TRUE
  Deadline = 1
  MaxThreads = 2
  Pds = {P, Q}
  Guests = {g1, g2}
  Handlers = {h1}
  Ctls = {}
  PdOf <- CallPds
  Bound <- BothToQ
  Holds <- NoHolds
  Ops = {"call", "kill", "exit", "free", "grant", "quiesce"}
  NSlots = 2
  QCap = 1
  MaxCalls = 2
SPECIFICATION MCSpec
INVARIANTS FrozenStandsStill AllOrNothing RedirectsTrue TablesSound
PROPERTY FreezeEnds
CHECK_DEADLOCK FALSE
