SPECIFICATION Spec
CONSTANTS
  Runs = {r1, r2}
  Kernels = {k1, k2}
  Containers = {c1, c2}
  None = None
INVARIANTS
  AssetsHonoured
  OnePoolPerContainer
PROPERTIES
  LockReleased
