\* The longest gap against the window.
SPECIFICATION Spec
CONSTANTS
  MIN_TWAP_WINDOW = 1
  MAX_TWAP_WINDOW = 3
  MIN_GRACE = 1
  MAX_GRACE = 3
  MIN_SKEW = 1
  MAX_SKEW = 2
  MAX_HISTORY_BUDGET = 4
  FirstInstant <- MCFirstInstant
  LastInstant = 5
  Durations = {0, 1, 2, 3, 4}
INVARIANT SegmentInsideWindow
CHECK_DEADLOCK FALSE
