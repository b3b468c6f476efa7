CONSTANTS
  q1 = q1
  q2 = q2
  battery = battery
  telemetry = telemetry
  ka = ka
  kc = kc
  kh = kh
  ku = ku
  vera = vera
  cust = cust
  hubb = hubb
  auth = auth
  uni = uni
  every = every
  x1 = x1
  x2 = x2
  hint = hint
  other = other
  seed = seed
  fresh = fresh
  None = None
  Key = {ka, kc, kh, ku}
  SuiteOf <- Suites
  Feature = {"ml-kem"}
  NodeId = {vera, cust, hubb, auth}
  DataClass = {telemetry}
  AnyClass = every
  AnyParty = uni
  Request <- AllRequests
  Subject = {battery}
  Verifier = vera
  Custodian = cust
  Hub = hubb
  Authority = auth
  KeyOf <- Holder
  Offered <- Declared
  MaxDeclarations = 3
  MaxAnswers = 2
  MaxJournal = 4
SPECIFICATION Spec
CHECK_DEADLOCK FALSE
INVARIANTS
  ReplayTellsTheExchange
PROPERTIES
  WithdrawnWillIsNeverBrokered
  LateVersionChangesNothing
