SPECIFICATION HistorySpec
CONSTANTS
  Ids = {t1, t2}
  None = None
  Faults = {"open", "sync", "close", "files", "rewrite", "power"}
  MaxWrites = 3
CHECK_DEADLOCK FALSE
SYMMETRY IdSymmetry
INVARIANTS TypeOK Recoverable ListsEveryRecord RecordsHaveBundles ListedInOrder
PROPERTY MapSpec
