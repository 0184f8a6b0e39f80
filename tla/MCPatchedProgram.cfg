CONSTANTS
  Programs <- Sources
  Wrap = 3
  MaxIters = 2
SPECIFICATION FairSpec
INVARIANTS
  TypeOK
PROPERTIES
  RunsAsWritten
  EntriesReturn
CHECK_DEADLOCK FALSE
