SPECIFICATION Spec
CONSTANTS
  MaxLoads = 2
  NoAnswer = NoAnswer
INVARIANT StatusChecked
