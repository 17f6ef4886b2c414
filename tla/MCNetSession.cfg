SPECIFICATION FairSpec
CONSTANTS
  HeartbeatInterval = 0
  HeartbeatTimeout = 0
  DropTimeout = 0
  Timely = FALSE
  Lossy = TRUE
  Doubling = TRUE
INVARIANTS
  VoluntaryMeansLeft
PROPERTIES
  ClosedIsForgotten
