\* Two calls at a time on a primary and a fallback.
CONSTANTS
  Calls = {k1, k2}
  Fallbacks = 1
  Attempts = 2
  Threshold = 2
  CircuitTime = 1
  BaseTime = 1
  HardTime = 2
SPECIFICATION FailoverSpec
INVARIANT BreakerCounts
