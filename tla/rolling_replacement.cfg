SPECIFICATION Spec
CONSTANTS
  N = 6
  Founders = 3
  PingLimit = 2
  Components = {c1}
  NoComponent = NoComponent
INVARIANTS
  PortsDistinct
  JoinerCanReach
  DonorReady
  HandedOver
PROPERTY LiveDatadirKept
CHECK_DEADLOCK FALSE
