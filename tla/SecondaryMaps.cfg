SPECIFICATION Spec
CONSTANTS
  MaxUint16 = 3
  MaxNetworkEvents = 2
  FlowsOf <- MCFlowsOf
  NCPU = 2
  Task = {"t1"}
  Events <- MCEvents
  IPsecRets <- MCIPsecRets
  MaxCalls = 2
  MaxErrors = 1
  MaxEvents <- MCMaxEvents
  MaxFetches <- MCMaxFetches
INVARIANTS MergedValuesSeen TimesOfEvents NothingLeftOut ResultOfItsFlow FailuresReportedOnce
CHECK_DEADLOCK FALSE
