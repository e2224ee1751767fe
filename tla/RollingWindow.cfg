\* The header of circuit_breakers.rs promises a rolling window; the code keeps a
\* tumbling one.
SPECIFICATION HSpec
CONSTANTS
  Unset = Unset
  SanityOracles = {}
  BPS_UNIT = 20
  PRICE_DEVIATION_BPS = 10
  TVL_DRAIN_BPS = 4
  DISPUTE_THRESHOLD_BPS = 3
  VELOCITY_WINDOW = 2
  DISPUTE_WINDOW = 3
  RENT_BUFFER = 0
  Amounts = {1, 2}
  Prices = {}
  Liquidities = {10, 15}
  ActiveCounts = {}
  MaxXlm = 0
  MaxTime = 6
  MaxDisputes = 0
  MaxWithdrawals = 4
INVARIANTS
  RollingDrainPauses
