SPECIFICATION UpgradeSpec
CONSTANTS
  N = 4
  PingLimit = 2
  Components = {c1}
  NoComponent = NoComponent
INVARIANTS
  OneNodeAway
  ComparedUpgraded
CHECK_DEADLOCK FALSE
