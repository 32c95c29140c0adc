SPECIFICATION Spec
CONSTANTS
  MaxLoads = 2
  NoAnswer = NoAnswer
INVARIANTS
  AppliedOnce
  NoLoadMissed
  ChannelsOfThisTest
  FailureReported
