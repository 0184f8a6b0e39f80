CONSTANTS
  Period = 5
  PrintEvery = 2
  MaxIters = 1
  MaxCount = 2
SPECIFICATION Spec
INVARIANTS ResetRerunsInit
