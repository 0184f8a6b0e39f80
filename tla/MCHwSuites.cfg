CONSTANTS
  Suites <- AllSuites
  Codes = {0, 1}
  Students <- Programs
SPECIFICATION Spec
INVARIANTS
  TypeOK
  ConformingProgramsPass
  PassingProgramsAreSound
  VerdictsIndependent
  EachVerdictIndependent
  ExitAgreesWithReport
PROPERTY StateRestored
CHECK_DEADLOCK FALSE
