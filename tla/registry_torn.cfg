SPECIFICATION Spec
CONSTANTS
  Ids = {t1, t2}
  None = None
  Faults = {"open", "short", "sync", "close", "files", "rewrite", "power"}
  MaxWrites = 3
CHECK_DEADLOCK FALSE
SYMMETRY IdSymmetry
INVARIANT DamageIsLocal
