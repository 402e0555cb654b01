SPECIFICATION Spec
CONSTANTS
  Assets = {a1, a2, a3}
  Sources = {u1, u2, u3, foreign}
  Allowed = {u1, u2, u3}
  Workers = {w1, w2}
  Collections <- OwnSources
  FileLimit = 2
  TotalLimit = 3
  SmallLimit = 1
  None = None
CHECK_DEADLOCK FALSE
SYMMETRY MediaSymmetry
INVARIANTS OneOutcomeEach AccountsAgree ReservationsHold CachedIsWhole
