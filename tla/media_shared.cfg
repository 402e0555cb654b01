SPECIFICATION FairSpec
CONSTANTS
  Assets = {1, 2, 3}
  Sources = {1, 2}
  Allowed = {1, 2}
  Workers = {w1, w2}
  Collections <- SharedSources
  FileLimit = 2
  TotalLimit = 2
  SmallLimit = 1
  None = None
CHECK_DEADLOCK FALSE
INVARIANT NoLeftovers
PROPERTIES WithinBudget Termination
