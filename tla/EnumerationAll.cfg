SPECIFICATION Spec
CONSTANTS
  KeyHandle = {1, 2, 3}
  Lifespan = {1, 2}
  Limit = {0, 1, 2}
  DefaultEnumerateLimit = 2
  Horizon = 2
CHECK_DEADLOCK FALSE
INVARIANTS
  ListsAllKeys
