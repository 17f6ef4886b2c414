SPECIFICATION Spec
CONSTANTS
  HeartbeatInterval = 0
  HeartbeatTimeout = 0
  ServerTimeout = 1
  InitialConn = {"Disconnected"}
  Throws = {FALSE}
  InputThread = FALSE
PROPERTIES
  TimeoutPassReturns
