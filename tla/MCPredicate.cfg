\* Every program of up to six of these instructions, verified and then run over every price.
SPECIFICATION Spec
CONSTANTS
  Q64_ONE = 2
  RAW_SPAN = 16
  MAX_POW10_EXP = 1
  Err = Err
  MAX_OPS = 6
  MAX_STACK = 3
  MAX_CODE_LEN = 70
  MIN_INPUTS = 1
  MAX_INPUTS = 2
  Instructions <- MCInstructions
  Prices <- MCPrices
  Instants <- MCInstants
  Sha256 <- MCSha256
  Keccak256 <- MCKeccak256
INVARIANTS
  NeverStuck
  TypesPredicted
PROPERTY AggregatesBetween
CHECK_DEADLOCK FALSE
