\* A pool swapped in at any second, and every window read at every second.
SPECIFICATION Spec
CONSTANTS
  OBSERVATION_NUM = 3
  OBSERVATION_UPDATE_DURATION = 2
  CumulativeSpan = 32
  TickSpan = 16
  Ticks <- MCTicks
  FirstCumulatives <- MCFirstCumulatives
  Limits <- MCLimits
  MaxTime = 8
INVARIANT AverageExact
PROPERTIES
  ReadingStable
  WindowKept
CHECK_DEADLOCK FALSE
