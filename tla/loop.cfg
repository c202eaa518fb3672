SPECIFICATION FairSpec
CONSTANTS
  Setups <- LoopSetups
INVARIANTS
  FinishIsUnblocked
  ToldIsKept
PROPERTIES
  ReleasedByReply
  UnreadIsAnnounced
CHECK_DEADLOCK FALSE
