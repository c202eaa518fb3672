SPECIFICATION Spec
CONSTANTS
  Setups <- AgentSetups
INVARIANTS
  OneCli
  NeverSilentlyGone
PROPERTIES
  LaunchesContinue
CHECK_DEADLOCK FALSE
