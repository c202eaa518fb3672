SPECIFICATION FairSpec
CONSTANTS
  Setups <- AnsweredSetups
PROPERTIES
  ApprovalIsAnswered
CHECK_DEADLOCK FALSE
