SPECIFICATION CheckSpec
CONSTANTS
  MaxTables = 2
  MaxWrites = 4
  EmptyOutput = EmptyOutput
INVARIANT VerdictCoversTables
CHECK_DEADLOCK FALSE
