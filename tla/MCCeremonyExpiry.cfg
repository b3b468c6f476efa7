SPECIFICATION Spec
CONSTANTS
  Node = {1, 2, 3, 4}
  Honest = {1, 2, 3}
  Quorum <- OneQuorum
  Kind = {"Sign"}
  Time = {1, 2}
  MaxSessions = 1
  Retries = FALSE
  None = None
INVARIANT ElapsedIsNeverPending
CHECK_DEADLOCK FALSE
