SPECIFICATION KeepAliveSpec
CONSTANTS
  Timeout = 8
  Margin = 5
  Tick = 2
  Lag = 1
  MaxDelay = 1
  Steps <- Forwards
  MaxStep = 1
  MaxSteps = 1
INVARIANTS
  NoFalseTimeout
  GoneInTime
