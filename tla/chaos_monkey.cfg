SPECIFICATION Spec
CONSTANTS
  N = 5
  MaxRuns = 1
  Components = {c1}
  NoComponent = NoComponent
INVARIANTS
  PrimaryKept
  RestartsTheKilled
  LoadKilledFirst
CHECK_DEADLOCK FALSE
