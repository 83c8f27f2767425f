CONSTANTS
  r1 = r1  r2 = r2
  Reconnectors = {r1, r2}
  MaxAttempts = 2
  MaxClients = 3
  MaxPending = 2
  Commands = {"disconnect", "logout", "reset"}
  DropBeforeAuth = FALSE
  SelfReconnects = FALSE
SPECIFICATION Spec
CHECK_DEADLOCK FALSE
INVARIANTS TypeOK   LossIsHandled
PROPERTY LossRecovers
