SPECIFICATION Spec
CONSTANTS
  Callers = {c1, c2, c3, c4}
  UNIQUE_LOCK_VALUE = 7
  Blocking = TRUE
SYMMETRY CallerSymmetry
CHECK_DEADLOCK TRUE
INVARIANT CountsSharers
PROPERTY ImplementsSharedLock
