\* One client without failover: calls to an open circuit keep it open.
CONSTANTS
  Calls = {k1}
  Fallbacks = 0
  Attempts = 2
  Threshold = 2
  CircuitTime = 2
  BaseTime = 0
  HardTime = 0
SPECIFICATION FailoverFairSpec
PROPERTY CircuitCloses
