SPECIFICATION Spec
CONSTANTS
  Setups <- ComposerSetups
INVARIANTS
  BlocksAreWhole
PROPERTIES
  ImplementsDocument
CHECK_DEADLOCK FALSE
