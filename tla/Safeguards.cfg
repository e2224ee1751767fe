\* Each of the contracts beside the grant stream by itself.
SPECIFICATION AllSpec
CONSTANTS
  MaxTime = 3
  None = None
  BPS = 10
  YEAR = 1
  Rates = {4, 7}
  Configs <- MCConfigs
  Amounts = {1, 2, 3}
  MaxBalance = 6
  Uninitialized = Uninitialized
  DELAY_SECONDS = 1
  THRESHOLD_BPS = 1
  BUMP_BPS = 10
  ID_SHIFT = 1
  Treasuries = {0, 10}
  Transfers = {1, 2, 3}
  TreasuryFunds = 6
  MaxPending = 3
  Keyholders = {k1, k2}
  Nobody = Nobody
  INACTIVITY_PERIOD = 3
  NotSet = NotSet
  STANDARD_TIMELOCK_SECS = 1
  INITIAL_CONFIG <- MCInitialConfig
  MonitorConfigs <- MCMonitorConfigs
  MaxChanges = 4
  Grantees = {g1, g2}
  NoBid = NoBid
  Bids <- MCBids
  Deadlines = {1, 3}
  DisputedAmounts = {0, 2, 3}
  Awards <- MCAwards
  MaxDisputesRaised = 3
  ConfidentialIds = {c1, c2}
  Absent = Absent
  ZK_COMMITMENT_MODULUS = 4
  Commitments = {2, 3}
  Claims = {1, 2, 4}
  Nullifiers = {n1, n2}
  TokenFunds = 8
INVARIANTS
  ClaimsWithinCommitment
  HealthViewsAgree
  TreasuryConserved
  VetoBlocksId
  BurstsDelayed
  EscrowCovered
PROPERTIES
  SilenceEndsInRecovery
  AmountBinding
CHECK_DEADLOCK FALSE
