\* Causes for a void against the settlement instant.
SPECIFICATION Spec
CONSTANTS
  MIN_TWAP_WINDOW = 1
  MAX_TWAP_WINDOW = 2
  MIN_GRACE = 1
  MAX_GRACE = 2
  MIN_SKEW = 1
  MAX_SKEW = 1
  MAX_HISTORY_BUDGET = 3
  FirstInstant <- MCFirstInstant
  LastInstant = 20
  MAX_FEE_BPS = 3
  MAX_FEED_CAP_BPS = 2
  MIN_CLAIM_WINDOW = 1
  SNAPSHOT_RENT = 1
  Q64_ONE = 4
  BPS_DENOMINATOR = 4
  FEE_SHARE_TREASURY_BPS = 2
  FEE_SHARE_CREATOR_BPS = 1
  U64_MAX = 7
  MIN_STAKE = 1
  MaxTime = 9
  MaxDonated = 0
  MaxRevoked = 1
  Unread = Unread
  Aborts = Aborts
  ParamSets <- MCParamSets
  SettleInstants <- MCSettleInstants
PROPERTY NoLateVoidCause
CHECK_DEADLOCK FALSE
