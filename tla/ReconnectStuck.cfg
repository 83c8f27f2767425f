CONSTANTS
  r1 = r1  r2 = r2
  Reconnectors = {r1, r2}
  MaxAttempts = 2
  MaxClients = 2
  MaxPending = 2
  Commands = {}
  DropBeforeAuth = TRUE
  SelfReconnects = FALSE
SPECIFICATION Spec
CHECK_DEADLOCK FALSE
INVARIANT LossIsHandled
