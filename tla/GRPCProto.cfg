SPECIFICATION FairSpec
CONSTANTS
  Batches <- MCBatches
  GRPCMessageMaxFlows = 2
  MaxFaults = 2
INVARIANTS EveryRecordSent ReconnectLosesNothing
PROPERTIES ExportReturns
