CONSTANTS
  kc = kc
  ka = ka
  ks = ks
  k1 = k1
  k2 = k2
  kv = kv
  cust = cust
  auth = auth
  serv = serv
  qa = qa
  qb = qb
  vera = vera
  pack = pack
  telemetry = telemetry
  None = None
  Key = {kc, ka, ks, k1, k2, kv}
  SuiteOf <- Suites
  Feature = {}
  NodeId = {cust, auth, serv, qa, qb, vera}
  Request <- AllRequests
  Subject = {pack}
  Segment = {static, sealed}
  Open = static
  Sealed = sealed
  State = {low, high}
  PolicyId = {governing}
  Governing = governing
  Custodian = cust
  Authority = auth
  Service = serv
  KeyOf <- Holder
  KnownFirst = {cust, auth, serv, vera, qa}
  Passport = pack
  MemberLists <- Lists
  Journals <- Carried
  Acceptance <- Profile
  MaxEpoch = 2
  MaxPolicy = 2
  MaxAttested = 1
  MaxClock = 2
SPECIFICATION Spec
SYMMETRY States
CHECK_DEADLOCK FALSE
INVARIANTS
  TypeOK
  HeldViewIsOneHistory
  AttestedIsEarned
