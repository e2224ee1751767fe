\* Whether settle_grant always returns, against MONOTONIC_PROOF.md.
SPECIFICATION UnhinderedSpec
CONSTANTS
  Recipients = {r1}
  Validators = {v1}
  Donors = {d1}
  None = None
  BPS = 4
  VALIDATOR_BPS = 1
  WARMUP_FLOOR_BPS = 1
  Ids = {g1}
  Totals = {7}
  Rates = {2, 4}
  Warmups = {0, 2}
  Multipliers = {8}
  LegalRequirements = {TRUE}
  Amounts = {2, 3}
  InitialBalances = {8}
  MIN_WITHDRAWAL = 2
  RATE_INCREASE_TIMELOCK = 1
  PRUNE_DELAY = 2
  PURGE_BOUNTY = 1
  PRUNE_BOUNTY = 1
  MaxRate = 4
  Unset = Unset
  SanityOracles = {}
  BPS_UNIT = 20
  PRICE_DEVIATION_BPS = 10
  TVL_DRAIN_BPS = 4
  DISPUTE_THRESHOLD_BPS = 3
  VELOCITY_WINDOW = 2
  DISPUTE_WINDOW = 2
  RENT_BUFFER = 0
  Prices = {}
  Liquidities = {}
  MaxXlm = 0
  MaxTime = 4
  MaxDisputes = 0
INVARIANTS
  SettleSucceeds
CHECK_DEADLOCK FALSE
