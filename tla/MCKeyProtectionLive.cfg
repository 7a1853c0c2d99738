SPECIFICATION FairSpec
CONSTANTS
  Request = {r1}
  KemKey = {k1}
  BindingKey = {b1}
  Lifespan = {1}
  Horizon = 1
  MaxBoot = 2
  InitialBackoff = 1
  MaxBackoff = 2
  None = None
PROPERTIES
  RestartPurgesBindings
  OutagePurgesBindings
  RequestsAnswered
