CONSTANTS
  group = group
  red = red
  inspected = inspected
  kr = kr
  kb = kb
  km = km
  w1 = w1
  p1 = p1
  p2 = p2
  p3 = p3
  ed = ed
  p256 = p256
  Layer = {group}
  Value = {red}
  Predicate = {inspected}
  Time = {1, 2}
  Wildcard = Wildcard
  None = None
  Refused = Refused
  NodeId = {1, 2, 3}
  Key = {kr, kb, km}
  Node <- AllNodes
  Credential <- Offered
  Registration <- NoneMerged
  Jurisdiction = {"EU"}
  Witness = {}
  WitnessQuorum = 0
  Requests <- ActsAskedFor
  MaxEdges = 3
  Owner <- OwnerOf
  Passport = {p1}
  Born <- BornFirst
  Subject <- Against
  Reason <- TwoReasons
  Window <- FromTwo
  Punctual = TRUE
  MaxDeclarations = 1
  MaxStamps = 0
  Suite = {ed, p256}
  ComputedSuite = {ed, p256}
  SuiteOf <- KeySuites
  CoSignatures <- Signed
  AllowedSuites = {ed, p256}
  MinVerifiedSuites = 2
SPECIFICATION Spec
CHECK_DEADLOCK FALSE
INVARIANT
  AcceptedIsAuthorized
PROPERTIES
  VoidIsNeverAccepted
  GrowthKeepsAcceptance
