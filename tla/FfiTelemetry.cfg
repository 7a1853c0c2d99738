\* Two threads: each may initialise, with its own name or with none, and make
\* calls that succeed, fail or panic, in any order.
SPECIFICATION Spec
CONSTANTS
  Thread = {t1, t2}
  Name = {n1}
  Default = n0
INVARIANTS FailuresReportedOnce OneServiceName
PROPERTY PanicsSanitized
