SPECIFICATION ObserverSpec
CONSTANTS
  ObserverSetups <- Launches
INVARIANTS
  RunsWhatIsSaved
  PanelIsHonest
PROPERTIES
  RequestIsServed
CHECK_DEADLOCK FALSE
