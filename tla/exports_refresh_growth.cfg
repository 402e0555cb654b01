SPECIFICATION Spec
CONSTANTS
  Requests = {r1}
  IDs = {i1, i2}
  StorageLimit = 4
  Reservation = 2
  HtmlLimit = 2
  TotalLimit = 0
  Peak = 0
  None = None
  MaxUpgrades = 1
  MaxCrashes = 3
SYMMETRY ExportsSymmetry
INVARIANT StorageCeiling
