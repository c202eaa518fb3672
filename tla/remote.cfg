SPECIFICATION FairSpec
CONSTANTS
  Procs = {p1, p2}
  Guests = {g1}
  Cmds = {c1, c2}
  Window = 2
  KeepSeen = 0
  KeepEnvelopes = 2
  AuthRetries = 1
  InOrder = TRUE
  Setups <- RemoteSetups
INVARIANTS
  RunsOnceWhereAddressed
  RefusedHasNotRun
PROPERTIES
  Converges
CHECK_DEADLOCK FALSE
