SPECIFICATION Spec
CONSTANTS
  Node = {1, 2}
  Honest = {}
  Quorum <- ReusedId
  Kind = {"Dkg"}
  Time = {}
  MaxSessions = 2
  Retries = FALSE
  None = None
INVARIANTS QualifiedSignature
PROPERTIES ImplementsQuorumSigning
CHECK_DEADLOCK FALSE
