SPECIFICATION Spec
CONSTANTS
  Requests = {r1, r2}
  Sessions = {s1, s2}
  Ceremonies = {c1}
  Passwords = {p1, p2}
  RelyingParties = {a}
  None = None
  MaxCeremonies = 1
  MaxKeys = 0
  MaxCodes = 1
  MaxEpoch = 2
CHECK_DEADLOCK FALSE
SYMMETRY AuthSymmetry
INVARIANT SessionMatchesPassword
