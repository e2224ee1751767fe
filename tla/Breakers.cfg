\* Withdrawals, disputes, prices and the rent check. The basis-point unit is 20,
\* so the code's 50%, 20% and 15% are 10, 4 and 3.
SPECIFICATION HSpec
CONSTANTS
  Unset = Unset
  SanityOracles = {s1}
  BPS_UNIT = 20
  PRICE_DEVIATION_BPS = 10
  TVL_DRAIN_BPS = 4
  DISPUTE_THRESHOLD_BPS = 3
  VELOCITY_WINDOW = 2
  DISPUTE_WINDOW = 3
  RENT_BUFFER = 1
  Amounts = {1, 2}
  Prices = {2, 3}
  Liquidities = {10, 15}
  ActiveCounts = {0, 7}
  MaxXlm = 0
  MaxTime = 4
  MaxDisputes = 2
  MaxWithdrawals = 3
INVARIANTS
  UnhaltedBelowThreshold
  AccumulatorIsWindowTotal
  LimitPassedByOneWithdrawal
