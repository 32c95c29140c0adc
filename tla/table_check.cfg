SPECIFICATION CheckSpec
CONSTANTS
  MaxTables = 2
  MaxWrites = 4
  EmptyOutput = EmptyOutput
INVARIANT SettledVerdictExact
PROPERTY SuccessMeansApplied
CHECK_DEADLOCK FALSE
