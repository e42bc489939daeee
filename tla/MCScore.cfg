\* Every pot of two sides up to 8 together, every fee in sixths, and what the ramp makes of each score.
SPECIFICATION ScoreSpec
CONSTANTS
  Q64_ONE = 8
  RAW_SPAN = 512
  MAX_POW10_EXP = 2
  Err = Err
  BPS_DENOMINATOR = 6
  FEE_SHARE_TREASURY_BPS = 4
  FEE_SHARE_CREATOR_BPS = 1
  U64_MAX = 8
  Strikes <- MCStrikes
  Scores <- MCScores
INVARIANTS
  RampNeverAborts
  RoundsDown
  SplitsExactly
  FeeOnGainOnly
  RedeemsPool
PROPERTIES
  ShareRises
  MonotoneInShare
CHECK_DEADLOCK FALSE
