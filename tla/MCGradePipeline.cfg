CONSTANTS
  Row = {hw1, hw2}
  NoResult = NoResult
  HISTORY_LIMIT = 1
  MaxPushes = 2
SPECIFICATION Spec
INVARIANTS TypeOK Traceable PatientReportIsCurrent
PROPERTIES LedgerSpec GreenRunsPublish RunsEnd
CHECK_DEADLOCK FALSE
