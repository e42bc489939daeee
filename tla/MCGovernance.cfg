\* Governance alone: proposals, handovers and registrations against the clock.
SPECIFICATION Spec
CONSTANTS
  MIN_TWAP_WINDOW = 1
  MAX_TWAP_WINDOW = 2
  MIN_GRACE = 1
  MAX_GRACE = 2
  MIN_SKEW = 1
  MAX_SKEW = 1
  MAX_HISTORY_BUDGET = 3
  FirstInstant <- MCFirstInstant
  LastInstant = 4
  MAX_FEE_BPS = 3
  MAX_FEED_CAP_BPS = 2
  MIN_CLAIM_WINDOW = 1
  SNAPSHOT_RENT = 1
  MIN_TIMELOCK = 2
  MAX_TIMELOCK = 2
  k1 = k1
  k2 = k2
  usd = usd
  pool1 = pool1
  pool2 = pool2
  ring1 = ring1
  ring2 = ring2
  ring3 = ring3
  pyth1 = pyth1
  Key = {k1, k2}
  NoKey = NoKey
  Mint = {usd}
  Pool = {pool1, pool2}
  Ring = {ring1, ring2, ring3}
  ObservationKey <- MCObservationKey
  PoolId <- MCPoolId
  PythId = {pyth1}
  Proposals <- MCProposals
  Depths = {0, 1}
  Floors = {0, 1}
  MaxTime = 3
INVARIANT DistinctPools
PROPERTIES
  ParamsWaited
  OnlyLatestNominee
CHECK_DEADLOCK FALSE
