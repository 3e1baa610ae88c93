SPECIFICATION FairSpec
CONSTANTS
  Obs <- MCObs
  NCPU = 3
  CacheMaxFlows = 1
  EnableRingbuf = TRUE
  RingbufSize = 1
  AtomicDelete = TRUE
  MaxErrors = 1
INVARIANTS NoDoubleCount RecordOneInterface FailedNotCounted
PROPERTIES CountedStaysCounted MappedEventuallyReported
