\* Three clients, two keys, and as many addresses as can be in use at a time.
SPECIFICATION Spec
CONSTANTS
  Clients = {c1, c2, c3}
  Keys = {k1, k2}
  Objects = {o1, o2, o3}
  nullptr = nullptr
  nobody = nobody
  MaxRefcount = 4
INVARIANTS
  RefcountIsHolders
  HeldObjectsAreShared
  EveryObjectHasOneKey
CHECK_DEADLOCK FALSE
