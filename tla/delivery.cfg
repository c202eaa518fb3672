SPECIFICATION Spec
CONSTANTS
  Setups <- DeliverySetups
INVARIANTS
  LandedWasApproved
  AppliedIsInRepo
  DoneHasReceipt
  ReceiptIsOfThisRound
  DeliveryInv
PROPERTIES
  CheckpointBeforeMove
  ImplementsHandoff
CHECK_DEADLOCK FALSE
