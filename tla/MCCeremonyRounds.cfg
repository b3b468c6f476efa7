SPECIFICATION FairSpec
CONSTANTS
  Node = {1, 2, 3, 4}
  Honest = {1, 2, 3}
  Quorum <- TwoQuorums
  Kind = {"Sign", "Reshare"}
  Time = {1, 2}
  MaxSessions = 1
  Retries = TRUE
  None = None
INVARIANTS TypeOK RoundsStrict BlameIsDeserved
PROPERTIES LifecycleAdvances HonestQuorumCompletes
CHECK_DEADLOCK FALSE
