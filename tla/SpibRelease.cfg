CONSTANTS
  Reloads = FALSE
  Timely = TRUE
SPECIFICATION ThreadsSpec

PROPERTIES InitCompletes
CHECK_DEADLOCK FALSE
