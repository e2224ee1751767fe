\* One id that holds a bit-mask grant or a multi-token grant.
SPECIFICATION PSpec
CONSTANTS
  Ids = {1}
  None = None
  Oracles = {o1, o2}
  OracleSets <- AllOracles
  Thresholds = {2}
  Hashes = {h1}
  Totals = {3}
  Rates = {1, 2}
  Masks <- AdminMasks
  Deadlines = {2}
  Windows = {1}
  Tokens = {t1, t2}
  Wrappable = {t1}
  Balances <- SmallBalances
  TokenRates = {0, 2}
  TokenMasks <- FirstMasks
  Requests <- SmallRequests
  Funds = 3
  MaxTime = 3
SYMMETRY OracleSymmetry
INVARIANTS
  EarnedWithinTotal
  ConsensusBehindMilestone
  ExitIsFinal
  TokensWithinTotal
  BooksMatchTransfers
CHECK_DEADLOCK FALSE
