CONSTANTS
  BindingHandle = {b1, b2}
  KemHandle = {k1, k2}
  Ephemeral = {e1}
  SealKey = s
  Aad = {a1, a2}
SYMMETRY Symmetry
SPECIFICATION Spec
INVARIANTS
  OpensWhatClientEncapsulated
  UsableOnceCreated
PROPERTY FailureLeavesNoTrace
CHECK_DEADLOCK FALSE
