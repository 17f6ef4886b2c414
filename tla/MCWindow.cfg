SPECIFICATION WindowSpec
CONSTANTS
  k1 = k1
  Keys = {k1}
  Platforms = {"x11", "win32"}
  Fails = TRUE
  MaxQueue = 2
  MaxDepth = 3
INVARIANTS
  KeysFollowEvents
  StateIsTrue
  ModeFitsState
  NeverLingers
PROPERTIES
  KilledOnlyByRace
