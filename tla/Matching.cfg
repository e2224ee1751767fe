SPECIFICATION MCSpec
CONSTANTS
  None = None
  Donors = {d1, d2}
  Projects = {p1, p2}
  SCALE = 2
  BPS = 4
  MIN_FUNDING = 2
  MAX_MULTIPLIER = 6
  Thresholds = {1}
  Maxima = {}
  Fundings = {1, 2}
  Lengths = {1, 2}
  MaxFunded = 2
  Pools = {k1}
  Tokens = {t1, t2}
  MatchAmounts = {3}
  Durations = {0}
  Sep12 = {TRUE}
  Limits <- SmallLimits
  Donations = {1, 2}
  Ballots <- SmallBallots
  Funds = 3
  ISQRT_ROUNDS = 20
  MaxCommitted = 6
  MaxDonated = 2
  MaxTime = 2
SYMMETRY Interchangeable
INVARIANTS
  RateCurrent
  CompletionNeedsEveryMilestone
  MatchingDivided
  DonationsKept
CHECK_DEADLOCK FALSE
