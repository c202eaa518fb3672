SPECIFICATION FairInterfaceSpec
CONSTANTS
  Scenes <- InterfaceScenes
INVARIANTS
  LossIsConfirmed
  ScreenIsCurrent
  PaneShowsEntries
PROPERTIES
  HandedOver
CHECK_DEADLOCK FALSE
