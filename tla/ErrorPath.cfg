\* Every handler and every pair of statuses its calls can end with, in both modes, with and without a failed
\* call.  A handler ends: the terminal states are not deadlocks.
SPECIFICATION Spec
CHECK_DEADLOCK FALSE
INVARIANTS RemoteAnswersAsLocal SuccessMeansBoth
