\* Three threads on two keys: one thread can hold a key while the second
\* destroys it and the third creates another.  Lifespan 3 overflows MaxInstant
\* when asked for after instant 1.  No symmetry: liveness is checked.
SPECIFICATION FairSpec
CONSTANTS
  KeyHandle = {h1, h2}
  Thread = {t1, t2, t3}
  Lifespan = {1, 3}
  MaxInstant = 4
  Horizon = 4
  None = None
INVARIANTS TypeOK SecretIffOwned
PROPERTIES ReaperSparesLiveKeys OneWayLifecycle ExpiredKeyErased
