SPECIFICATION FairSpec
CONSTANTS
  HeartbeatInterval = 1
  HeartbeatTimeout = 1
  ServerTimeout = 2
  InitialConn = {"Disconnected", "Connecting", "Connected"}
  Throws = {FALSE, TRUE}
  InputThread = TRUE
INVARIANTS
  VerdictsAreSound
  PartsOnce
PROPERTIES
  TimesOutOnce
  ThrowsAfterParting
  SilenceIsNoticed
  KeepsBeating
