\* Two threads on two keys: one decapsulates or opens while the other destroys,
\* purges or creates, and the reaper deletes what expires at instant 1 or 2.
\* Lifespan 2 overflows MaxInstant when asked for after instant 0.
CONSTANTS
  KeyHandle = {h1, h2}
  Thread = {t1, t2}
  Lifespan = {1, 2}
  MaxInstant = 2
  Horizon = 2
  None = None
SPECIFICATION SMSpec
INVARIANT ZeroizedMeansGone
CHECK_DEADLOCK FALSE
