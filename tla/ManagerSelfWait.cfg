SPECIFICATION Spec
CONSTANTS
  CommandPlaces = 1
  StatusPlaces = 2
  Commands <- MC_Disconnect
  Background = {"login"}
  MaxPending = 2
INVARIANT NobodyWaitsForItself
CHECK_DEADLOCK FALSE
