CONSTANTS
  kr = kr
  ka = ka
  kb = kb
  kl = kl
  root = root
  auth = auth
  abody = abody
  lab = lab
  dev = dev
  s1 = s1
  s2 = s2
  cells = cells
  charge = charge
  low = low
  high = high
  every = every
  uni = uni
  group = group
  red = red
  green = green
  rule = rule
  None = None
  Wildcard = Wildcard
  Refused = Refused
  Key = {kr, ka, kb, kl}
  SuiteOf <- Suites
  Feature = {"ml-dsa"}
  NodeId = {root, auth, abody, lab}
  Layer = {group}
  Value = {red, green}
  Predicate = {rule}
  Time = {0, 1, 2, 3}
  DataClass = {cells}
  AnyClass = every
  AnyParty = uni
  Lab = lab
  Device = dev
  SlotKey = {s1, s2}
  Segment = {cells, charge}
  State = {low, high}
  Material = {low, high}
  KeyOf <- Holder
  KnownFirst = {root, lab, abody}
  Granted <- Circulating
  Credentials <- Certified
  ChainNodes <- Nodes
  Links <- Linked
  Act <- Acting
  MaxAge = 1
  MaxClock = 3
  MaxActs = 5
SPECIFICATION Spec
CHECK_DEADLOCK FALSE
PROPERTIES
  GradedByTheLatest
  LapsedStaysLapsed
  DeviceSpeaksWithOneVoice
