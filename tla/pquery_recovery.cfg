SPECIFICATION PquerySpec
CONSTANTS
  N = 3
  TimerLimit = 2
  MaxRounds = 2
  Components = {c1, c2}
  NoComponent = NoComponent
INVARIANTS
  DatadirExclusive
  BootstrapNotRefused
PROPERTY MembershipSteps
CHECK_DEADLOCK FALSE
