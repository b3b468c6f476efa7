CONSTANTS
  Key = {k1, k2}
  NodeId = {n1}
  Passport = {p1, p2}
  k1 = k1
  k2 = k2
  n1 = n1
  p1 = p1
  p2 = p2
  p3 = p3
  None = None
  Owner <- OneOwner
  Condition = {}
  Born <- BornFirst
  Time = {1, 2}
  Subject <- OnKeyOrPassport
  Reason <- TwoReasons
  Window <- TwoWindows
  Punctual = TRUE
  MaxDeclarations = 2
  MaxStamps = 1
SPECIFICATION Spec
CHECK_DEADLOCK FALSE
INVARIANTS
  TypeOK
  DistrustCascades
PROPERTIES
  EvidenceIsStable
  InvalidationIsDeserved
  InvalidationIsPermanent
  StandingOnlyWorsens
