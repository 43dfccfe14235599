CONSTANTS
  c1 = c1
  c2 = c2
  s1 = s1
  s2 = s2
  x1 = x1
  x2 = x2
  x3 = x3
  r1 = r1
  r2 = r2
  Cores <- MCCores
  Slots <- MCSlots
  Stacks <- Three
  Asids = {"a1", "a2", "a3"}
  MaxGen = 2
  ZombieCap = 2
  Deaths = {"exit", "fault", "kill", "destroy"}
  CrossReap = FALSE
  CoreIds = {0, 1}
  PerCore = 2
  Gids = {r1, r2}
  Wakers = {"w"}
  Retries = 2
  Threshold = 2
  GenBound = 1
SPECIFICATION MCSpec
INVARIANT StackKept
PROPERTIES LifeSound HitsTheNamed
SYMMETRY Symm
CHECK_DEADLOCK FALSE
