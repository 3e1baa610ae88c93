SPECIFICATION FairSpec
CONSTANTS
  Batches <- MCBatches
  GRPCMessageMaxFlows = 2
  MaxFaults = 2

PROPERTIES Reestablished
