CONSTANTS
  group = group
  red = red
  green = green
  rule = rule
  Layer = {group}
  Value = {red, green}
  Predicate = {rule}
  Time = {1, 2}
  Wildcard = Wildcard
  None = None
  Refused = Refused
  Scopes <- SmallScopes
  Requests <- SmallRequests
  MaxLength = 3
SPECIFICATION Spec
CHECK_DEADLOCK FALSE
INVARIANTS
  TypeOK
  EffectiveIsIntersection
  NothingIsRepaired
PROPERTY ScopeOnlyNarrows
