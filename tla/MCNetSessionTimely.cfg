SPECIFICATION Spec
CONSTANTS
  HeartbeatInterval = 1
  HeartbeatTimeout = 3
  DropTimeout = 4
  Timely = TRUE
  Lossy = FALSE
  Doubling = FALSE
INVARIANTS
  HealthyLinkIsQuiet
