SPECIFICATION Spec
CONSTANTS
  Request = {r1, r2}
  KemKey = {k1, k2}
  BindingKey = {b1, b2}
  Lifespan = {1}
  Horizon = 0
  MaxBoot = 1
  InitialBackoff = 1
  MaxBackoff = 1
  None = None
SYMMETRY Interchangeable
INVARIANTS
  SealedForOpener
  AckedKeyUsable
PROPERTIES
  NoOpenAfterDestroy
