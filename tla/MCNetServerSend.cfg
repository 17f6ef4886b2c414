SPECIFICATION Spec
CONSTANTS
  e1 = e1
  e2 = e2
  Endpoints = {e1, e2}
  HeartbeatTimeout = 1
  DisconnectTimeout = 2
  HeartbeatInterval = 1
  Throws = FALSE
PROPERTIES
  SendReachesOneClient
