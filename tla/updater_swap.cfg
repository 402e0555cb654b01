SPECIFICATION UpdateSpec
CONSTANTS
  Commits = {c1, c2}
  Nothing = Nothing
  MaxPushes = 1
  MaxKills = 0
  MaxFaults = 0
CHECK_DEADLOCK FALSE
PROPERTY SwapsOnlyWhenHealthy
