CONSTANTS
  group = group
  red = red
  green = green
  kr = kr
  ka = ka
  kb = kb
  km = km
  w1 = w1
  Layer = {group}
  Value = {red, green}
  Predicate = {}
  Time = {1}
  Wildcard = Wildcard
  None = None
  Refused = Refused
  NodeId = {1, 2, 3}
  Key = {kr, ka, kb, km}
  Node <- AllNodes
  Credential <- Offered
  Registration <- MergedLater
  Jurisdiction = {"EU"}
  Witness = {w1}
  WitnessQuorum = 1
  Requests <- ActsAskedFor
  MaxEdges = 3
SPECIFICATION GraphSpec
CHECK_DEADLOCK FALSE
INVARIANTS
  GraphTypeOK
  Acyclic
  ResolveIsExact
PROPERTY GrantsPersist
