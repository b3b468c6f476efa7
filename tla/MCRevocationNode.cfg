CONSTANTS
  Key = {k1}
  NodeId = {n1}
  Passport = {p1}
  k1 = k1
  k2 = k2
  n1 = n1
  p1 = p1
  p2 = p2
  p3 = p3
  None = None
  Owner <- OneOwner
  Condition = {}
  Born <- BornFirst
  Time = {1, 2}
  Subject <- OnNodeOrKey
  Reason <- TwoReasons
  Window <- TwoWindows
  Punctual = TRUE
  MaxDeclarations = 1
  MaxStamps = 0
SPECIFICATION Spec
CHECK_DEADLOCK FALSE
INVARIANT NodeRevocationReachesItsKeys
