CONSTANTS
  Row = {hw1, hw2}
  NoResult = NoResult
  HISTORY_LIMIT = 1
  MaxPushes = 2
SPECIFICATION Spec
INVARIANTS ReportIsCurrent
CHECK_DEADLOCK FALSE
