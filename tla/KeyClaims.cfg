SPECIFICATION Spec
CONSTANTS
  Request = {r1}
  Key = {k1, k2}
  Lifespan = {1, 4}
  TicksPerSecond = 2
  MaxInt64 = 7
  Horizon = 10
  None = None
INVARIANTS
  GoneByExpiration
  KeptUntilExpiration
  RemainingNotOverstated
