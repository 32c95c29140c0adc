SPECIFICATION FairSpec
CONSTANTS
  N = 3
  PingLimit = 2
  MaxRuns = 3
  Components = {c1}
  NoComponent = NoComponent
INVARIANTS
  TypeOK
  PrimaryKept
  VictimDown
  RecoveryMeansRejoined
  CapturedLoadGone
PROPERTY HangsOnlyOnLostServer
CHECK_DEADLOCK FALSE
