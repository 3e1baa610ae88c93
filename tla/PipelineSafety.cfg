SPECIFICATION Spec
CONSTANTS
  MapItem = {"m1"}
  RingItem = {"r1", "r2"}
  FlowOfs <- MCFlowOfs
  EnableSSL = TRUE
  MaxErrors = 1
  MaxEntries = 1
  BuffersLength = 1
  ExporterBuffer = 1
INVARIANTS NodesFinished CleanStop
PROPERTY Delivers
CHECK_DEADLOCK FALSE
