CONSTANTS
  Row = {hw1}
  NoResult = NoResult
  HISTORY_LIMIT = 1
  MaxPushes = 2
SPECIFICATION Spec
INVARIANTS FailuresTurnRed
CHECK_DEADLOCK FALSE
