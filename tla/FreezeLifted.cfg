\* The header of circuit_breakers.rs leaves the end of an oracle freeze to the
\* sanity oracle; in the code the next price near the old one ends it.
SPECIFICATION Spec
CONSTANTS
  Unset = Unset
  SanityOracles = {s1}
  BPS_UNIT = 20
  PRICE_DEVIATION_BPS = 10
  TVL_DRAIN_BPS = 4
  DISPUTE_THRESHOLD_BPS = 3
  VELOCITY_WINDOW = 2
  DISPUTE_WINDOW = 3
  RENT_BUFFER = 0
  Amounts = {1}
  Prices = {4, 5, 8}
  Liquidities = {10}
  ActiveCounts = {}
  MaxXlm = 0
  MaxTime = 2
  MaxDisputes = 0
PROPERTIES
  FreezeNeedsConfirmation
