SPECIFICATION FairSpec
CONSTANTS
  Link <- MCLinks
  Namespace <- MCNamespaces
  BuffersLength = 1
  MaxLives = 2
  Scenario <- MCScenarios
  Caller = {c1}
  Preferred <- MCPreferred
INVARIANTS UpIsAnnounced CacheFollowsEvents
PROPERTIES UpEventuallyAnnounced
CHECK_DEADLOCK FALSE
