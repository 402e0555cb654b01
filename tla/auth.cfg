SPECIFICATION AllSpec
CONSTANTS
  Requests = {r1, r2}
  Sessions = {s1, s2}
  Ceremonies = {c1, c2}
  Passwords = {p1}
  RelyingParties = {a, b}
  None = None
  MaxCeremonies = 1
  MaxKeys = 2
  MaxCodes = 2
  MaxEpoch = 1
  Tabs = {t1, t2}
  Days = 1
  Grace = 0
  MaxMoments = 1
  MaxChanges = 2
  Absent = Absent
CHECK_DEADLOCK FALSE
SYMMETRY AuthSymmetry
INVARIANTS AccessTypesOK CodeDiesWithClaim SetupCodeWorks MemoryIsDisk KeysFitRelyingParty CeremonyUsedOnce
PROPERTIES MethodRemains RemovedStaysOut AnsweredAsOfAMoment
