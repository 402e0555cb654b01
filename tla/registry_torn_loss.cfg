SPECIFICATION Spec
CONSTANTS
  Ids = {t1, t2}
  None = None
  Faults = {"short"}
  MaxWrites = 4
CHECK_DEADLOCK FALSE
SYMMETRY IdSymmetry
INVARIANT Recoverable
