CONSTANTS
  Turns <- TurnSteps
  MaxHeading = 540
  Errors <- ErrorSteps
  Bodies = {1, 2}
  MaxFrames = 2
  MaxCalls = 3
  Half = 1024
  Bearings <- Directions
  Distances = {0, 4, 7}
  target_radius = 2
  target_radius_near = 5
  turn_thres = 115
SPECIFICATION Spec
INVARIANTS
  TypeOK
  EncodersFollow
  PoseIsMeasured
  AlarmsAreGenuine
  SteersTheShortWay
CHECK_DEADLOCK FALSE
