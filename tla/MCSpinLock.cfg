CONSTANTS
  a = a
  b = b
  c = c
  c1 = c1
  c2 = c2
  Cores = {c1, c2, c3}
  TicketValues = 7
  RW_WRITER = 8
  Writers <- TwoWriters
  Threads = {a, b, c}
  WARTEPLAETZE = 2
  MaxFertig = 1
  StopSets <- NoneOrOne
  TimedSets <- NoneOrOne
SPECIFICATION MCSpec
INVARIANTS TicketsInOrder NotInterruptedInside NoWakeUpLost CountersTrue
PROPERTIES ImplementsLock RwImplementsLock EveryoneServed BothKindsGetIn
CHECK_DEADLOCK FALSE
