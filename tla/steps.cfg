SPECIFICATION Spec
CONSTANTS
  Setups <- StepSetups
INVARIANTS
  LandedWasApproved
PROPERTIES
  TonyFollowsLandings
  ImplementsStepHandoff
CHECK_DEADLOCK FALSE
