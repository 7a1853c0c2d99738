SPECIFICATION Spec
CONSTANTS
  Request = {r1, r2}
  KemKey = {k1}
  BindingKey = {b1}
  Lifespan = {1}
  Horizon = 1
  MaxBoot = 2
  InitialBackoff = 2
  MaxBackoff = 3
  None = None
SYMMETRY Interchangeable
INVARIANTS
  TypeOK
  StaleBindingsPurged
  AckedKeyUsable
  DestroyIsFinal
PROPERTIES
  PairsOneWay
