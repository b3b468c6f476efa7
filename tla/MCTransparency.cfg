CONSTANTS
  kept = kept
  f1 = f1
  s1 = s1
  spine = spine
  faulty = faulty
  None = None
  Log = {kept, faulty}
  FaultyLog = {faulty}
  Fact = {f1}
  Salt = {s1}
  Spine = {spine}
  Time = {1}
  Method = {tsa}
  Quorum = 2
  MaxEntries = 2
  MaxTree = 4
  History <- Histories
  MaxHeads = 2
  MaxReceipts = 1
  MaxAnchored = 2
SPECIFICATION Spec
CHECK_DEADLOCK FALSE
INVARIANTS
  TypeOK
  HonestLogIsNeverAccused
  InclusionMeansAnchored
  QuorumHasHonestWitnesses
PROPERTY PinnedHistoryNeverForks
