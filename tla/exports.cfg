SPECIFICATION HostSpec
CONSTANTS
  Requests = {r1, r2}
  IDs = {i1, i2}
  StorageLimit = 5
  Reservation = 3
  HtmlLimit = 2
  TotalLimit = 1
  Peak = 2
  None = None
  MaxUpgrades = 1
  MaxCrashes = 2
  Commits = {c1, c2}
  Nothing = Nothing
  MaxPushes = 2
  MaxKills = 2
  MaxFaults = 1
CHECK_DEADLOCK FALSE
INVARIANTS HostTypesOK CeilingHolds ReservationsReturned HtmlAsRecorded RecordedWasHealthy
PROPERTIES SlotFreed KeepsServer Converges
