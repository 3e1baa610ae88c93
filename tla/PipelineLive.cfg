SPECIFICATION FairSpec
CONSTANTS
  MapItem = {"m1"}
  RingItem = {"r1"}
  FlowOfs <- MCFlowOfs
  EnableSSL = TRUE
  MaxErrors = 0
  MaxEntries = 1
  BuffersLength = 1
  ExporterBuffer = 1
PROPERTIES ItemsLeaveKernel ShutdownCompletes
CHECK_DEADLOCK FALSE
