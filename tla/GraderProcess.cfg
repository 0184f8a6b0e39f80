CONSTANTS
  Period = 5
  PrintEvery = 2
  MaxIters = 3
  MaxCount = 4
  Reloads = TRUE
  Timely = TRUE
SPECIFICATION ProcessSpec
INVARIANTS
  TypeOK
  InitRunsWhenDue
  CaptureInOrder
  NoPrintLost
  ThreadsTypeOK
  NotOvertaken
PROPERTIES
  IterationsAsAsked
  DriverCallsReturn
  InitCompletes
