SPECIFICATION FairSpec
CONSTANTS
  Setups <- MessageSetups
INVARIANTS
  HeldIsKept
  PauseSurvives
PROPERTIES
  PauseIsReached
CHECK_DEADLOCK FALSE
