\* Every small timetable that validation accepts, under every tolerance.
SPECIFICATION PythSpec
CONSTANTS
  MIN_TWAP_WINDOW = 3
  MAX_TWAP_WINDOW = 4
  MIN_GRACE = 1
  MAX_GRACE = 2
  MIN_SKEW = 2
  MAX_SKEW = 3
  MAX_HISTORY_BUDGET = 5
  FirstInstant <- MCFirstInstant
  LastInstant = 5
  Durations = {0, 1, 2, 3, 4, 5}
  MAX_WINDOW_TOLERANCE = 1
  MAX_CONFIDENCE_BPS = 2
  MAX_DOWN_SLOTS_RATIO = 1
  DOWN_SLOTS_SCALE = 3
  BPS_DENOMINATOR = 10
  LowestPrice = 8
  HighestPrice = 2000
  Q64_ONE = 64
  RAW_SPAN = 8192
  MAX_POW10_EXP = 2
  Err = Err
  RawPrices <- MCRawPrices
  Confidences = {0, 3}
  Exponents <- MCExponents
  Ratios = {0, 2}
INVARIANTS
  NoBetNearWindow
  HistoryReaches
  NoBetInAverage
  AveragesOverlap
  SnapshotPrecise
CHECK_DEADLOCK FALSE
