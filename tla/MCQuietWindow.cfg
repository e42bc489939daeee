\* Whether min_observations counts records strictly inside the window.
SPECIFICATION Spec
CONSTANTS
  OBSERVATION_NUM = 3
  OBSERVATION_UPDATE_DURATION = 2
  CumulativeSpan = 32
  TickSpan = 16
  Ticks <- MCTicks
  FirstCumulatives <- MCFirstCumulatives
  Limits <- MCLimits
  MaxTime = 8
INVARIANT TradedInside
CHECK_DEADLOCK FALSE
