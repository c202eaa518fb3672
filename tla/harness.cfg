SPECIFICATION FairSpec
CONSTANTS
  IdleThreshold = 1
  StallThreshold = 3
  Cooldown = 2
  RecoveryGrace = 1
  Setups <- HarnessSetups
INVARIANTS
  OncePerStall
PROPERTIES
  PromptsWhoMustMove
  StallsAreAnswered
CHECK_DEADLOCK FALSE
