SPECIFICATION Spec
CONSTANTS
  Assets = {1, 2, 3}
  Sources = {1, 2}
  Allowed = {1, 2}
  Workers = {w1, w2}
  Collections <- SharedSources
  FileLimit = 2
  TotalLimit = 3
  SmallLimit = 1
  None = None
INVARIANT CachedIsWhole
