SPECIFICATION Spec
CONSTANTS
  PortMod = 65536
  ByteMod = 256
  UDP_MAXMSG = 512
  DnsPorts = {53}
  TimeMod = 64
  TimeOut = 2
  MaxDns = 2
  MaxTime = 3
  MaxExts = 3
  MaxVersions = 2
  QUIC_PORT = 443
  QUIC_MIN_PACKET_SIZE = 21
  QUIC_MAX_CID_LEN = 20
  UdpHeader = 8
  NCPU = 2
  MaxPayload = 2
  Scenarios <- MCScenarios
  Traffic <- MCTraffic
INVARIANTS
  VerdictByRules
  SampledAtRecordedRate
  HooksOnForPacketInHand
  LatencyWrapsOnlyIfRaced
  HelloVersionRead
PROPERTIES
  RemovedWhenDone
  StaleQueriesSwept
CHECK_DEADLOCK FALSE
