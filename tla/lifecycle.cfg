SPECIFICATION FairSpec
CONSTANTS
  N = 3
  PingLimit = 2
  MaxRounds = 2
  Components = {c1, c2}
  NoComponent = NoComponent
INVARIANTS
  TypeOK
  NoSplitBrain
  DatadirExclusive
  BootstrapNotRefused
  CleanStop
PROPERTIES
  ScriptEnds
  OnePrimaryComponent
