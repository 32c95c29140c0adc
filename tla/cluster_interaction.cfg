SPECIFICATION FairSpec
CONSTANTS
  N = 4
  Founders = 3
  PingLimit = 2
  SyncLimit = 2
  MaxRuns = 1
  Components = {c1}
  NoComponent = NoComponent
INVARIANTS
  PrimaryKept
  JoinReportExact
PROPERTIES
  LiveDatadirKept
  TestEnds
CHECK_DEADLOCK FALSE
