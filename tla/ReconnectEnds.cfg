CONSTANTS
  r1 = r1  r2 = r2
  Reconnectors = {r1}
  MaxAttempts = 2
  MaxClients = 2
  MaxPending = 1
  Commands = {"connect"}
  DropBeforeAuth = FALSE
  SelfReconnects = TRUE
SPECIFICATION Spec
CHECK_DEADLOCK FALSE
PROPERTY ReconnectEnds
