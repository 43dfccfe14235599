CONSTANTS
  v1 = v1
  v2 = v2
  a = a
  b = b
  Vectors = {v1, v2}
  NNtfns = 2
  NIRQ_BIND = 2
  Cores = {c1, c2}
  Requests <- TwoDrivers
  Maskable = FALSE
  Devices = {a, b}
  MSI_VEKTOR_POOL = 3
  IRT_EINTRAEGE = 4
  Rows = 2
  DeadConfig = FALSE
  WeakGrant = TRUE
SPECIFICATION MCSpec
INVARIANTS NothingHidden GrantsSound
PROPERTY EachArrives
