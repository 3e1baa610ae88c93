SPECIFICATION Spec
CONSTANTS
  Obs <- MCMoreObs
  NCPU = 3
  CacheMaxFlows = 1
  EnableRingbuf = FALSE
  RingbufSize = 1
  AtomicDelete = FALSE
  MaxErrors = 1
INVARIANTS DoubleCountNeedsError TornOnlyByRacing
