CONSTANTS
  Fragments <- Pieces
  MaxFragments = 5
  Required <- Assigned
SPECIFICATION Spec
INVARIANTS
  ParsesTheGrammar
  SegmentsTile
  MismatchesShow
  SpacingIgnored
  SuitesAbstraction
CHECK_DEADLOCK FALSE
