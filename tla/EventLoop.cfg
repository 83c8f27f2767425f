SPECIFICATION Spec
CONSTANTS
  CommandPlaces = 1
  StatusPlaces = 1
  Commands <- MC_All
  Background = {"login"}
  MaxPending = 1
INVARIANTS TypeOK StatusIsCurrent
PROPERTIES UiHangsOnlyWithManager QuitEnds
CHECK_DEADLOCK FALSE
