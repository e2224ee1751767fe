\* One grant with a validator, a donor, a rate timelock, a legal gate and two
\* grantees to change between.
SPECIFICATION UnhinderedSpec
CONSTANTS
  Recipients = {r1, r2}
  Validators = {v1}
  Donors = {d1}
  None = None
  BPS = 4
  VALIDATOR_BPS = 1
  WARMUP_FLOOR_BPS = 1
  Ids = {g1}
  Totals = {7}
  Rates = {2, 4}
  Warmups = {0, 2}
  Multipliers = {8}
  LegalRequirements = {TRUE}
  Amounts = {2, 5}
  InitialBalances = {8}
  MIN_WITHDRAWAL = 2
  RATE_INCREASE_TIMELOCK = 1
  PRUNE_DELAY = 2
  PURGE_BOUNTY = 1
  PRUNE_BOUNTY = 1
  MaxRate = 4
  Unset = Unset
  SanityOracles = {}
  BPS_UNIT = 20
  PRICE_DEVIATION_BPS = 10
  TVL_DRAIN_BPS = 4
  DISPUTE_THRESHOLD_BPS = 3
  VELOCITY_WINDOW = 2
  DISPUTE_WINDOW = 2
  RENT_BUFFER = 0
  Prices = {}
  Liquidities = {}
  MaxXlm = 0
  MaxTime = 4
  MaxDisputes = 0
SYMMETRY Interchangeable
INVARIANTS
  TypeOK
  GranteeCapped
  PromiseBacked
  CompletedFullyAccounted
PROPERTIES
  TerminalStatus
  DebitsCovered
