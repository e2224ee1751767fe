\* Two grants and two grantees sharing one balance, the indices and the books;
\* and one grant under every breaker and the operators of the breakers.
SPECIFICATION MCSpec
CONSTANTS
  Recipients = {r1, r2}
  Validators = {}
  Donors = {}
  None = None
  BPS = 4
  VALIDATOR_BPS = 1
  WARMUP_FLOOR_BPS = 1
  Ids = {g1, g2}
  Totals = {4}
  Rates = {2, 4}
  Warmups = {0}
  Multipliers = {}
  LegalRequirements = {}
  Amounts = {2}
  InitialBalances = {8, 5}
  OperatedBalance = 5
  OperatedRate = 4
  OperatedTime = 2
  OperatedXlm = 1
  MIN_WITHDRAWAL = 2
  RATE_INCREASE_TIMELOCK = 1
  PRUNE_DELAY = 1
  PURGE_BOUNTY = 1
  PRUNE_BOUNTY = 1
  MaxRate = 4
  Unset = Unset
  SanityOracles = {}
  BPS_UNIT = 20
  PRICE_DEVIATION_BPS = 10
  TVL_DRAIN_BPS = 4
  DISPUTE_THRESHOLD_BPS = 3
  VELOCITY_WINDOW = 2
  DISPUTE_WINDOW = 2
  RENT_BUFFER = 1
  Prices = {2, 3}
  Liquidities = {10}
  MaxXlm = 2
  MaxTime = 3
  MaxDisputes = 1
SYMMETRY Interchangeable
INVARIANTS
  IndexConsistent
PROPERTIES
  RescueKeepsClaimable
  BreakersImplemented
  BreakersStopGrantees
CHECK_DEADLOCK FALSE
