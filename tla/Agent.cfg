SPECIFICATION FairSpec
CONSTANTS
  HttpRequest = {h1, h2}
  GrpcRequest = {g1, g2}
CHECK_DEADLOCK FALSE
INVARIANTS
  FailedStartClosesAll
  CleanExitCutsNothing
PROPERTIES
  ShutdownEnds
