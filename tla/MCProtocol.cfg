\* One market and all of governance, interleaved on one clock.
SPECIFICATION ProtocolSpec
CONSTANTS
  MIN_TWAP_WINDOW = 1
  MAX_TWAP_WINDOW = 2
  MIN_GRACE = 1
  MAX_GRACE = 2
  MIN_SKEW = 1
  MAX_SKEW = 1
  MAX_HISTORY_BUDGET = 3
  FirstInstant <- MCFirstInstant
  LastInstant = 5
  MAX_FEE_BPS = 1
  MAX_FEED_CAP_BPS = 1
  MIN_CLAIM_WINDOW = 0
  SNAPSHOT_RENT = 1
  Q64_ONE = 1
  BPS_DENOMINATOR = 2
  FEE_SHARE_TREASURY_BPS = 1
  FEE_SHARE_CREATOR_BPS = 0
  U64_MAX = 3
  MIN_TIMELOCK = 1
  MAX_TIMELOCK = 1
  k = k
  usd = usd
  pool1 = pool1
  pool2 = pool2
  ring1 = ring1
  ring2 = ring2
  Key = {k}
  NoKey = NoKey
  Mint = {usd}
  Pool = {pool1, pool2}
  Ring = {ring1, ring2}
  ObservationKey <- MCObservationKey
  PoolId <- MCPoolId
  PythId = {}
  Proposals <- MCProposals
  Depths = {2}
  Floors = {1}
  MIN_MARKET_FEEDS = 2
  MAX_INPUTS = 2
  SettleInstants <- MCSettleInstants
  Unread = Unread
  Aborts = Aborts
  MaxDonated = 0
  MaxTime = 6
SYMMETRY MCSymmetry
INVARIANT SourcesAnnounced
PROPERTIES
  ImplementsMarket
CHECK_DEADLOCK FALSE
