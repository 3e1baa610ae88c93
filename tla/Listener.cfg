SPECIFICATION FairSpec
CONSTANTS
  Iface <- MCNamesakes
  TCAttachModes = {"tc", "tcx", "any"}
  EnableEgress = TRUE
  EnableIngress = TRUE
  TCAttachRetries = 2
  BuffersLength = 2
  MaxEvents = 4
  MaxFailures = 2
INVARIANTS HooksFollowInterface
PROPERTY EventsSettle
CHECK_DEADLOCK FALSE
