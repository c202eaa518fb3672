SPECIFICATION FairSpec
CONSTANTS
  Procs = {p1, p2}
  Setups <- SessionSetups
CHECK_DEADLOCK FALSE
INVARIANTS
  OneTeam
  AcceptedIsKept
PROPERTIES
  UntouchedLeavesNothing
  CloseEnds
