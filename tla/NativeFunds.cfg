\* Milestone deposits and rescue proposals over one native balance.
SPECIFICATION NSpec
CONSTANTS
  a1 = a1
  a2 = a2
  a3 = a3
  Ids = {g1}
  Indices = {0, 1}
  None = None
  DEPOSIT = 2
  PURGE_BOUNTY = 1
  PRUNE_BOUNTY = 1
  RescueAmounts = {2}
  MaxXlm = 4
  MaxNonce = 2
  MaxOwed = 3
  MaxPrunings = 2
  Addresses = {a1, a2, a3}
  SignerVectors <- MCSignerVectors
  EMERGENCY_SIGNERS = 3
  STANDARD_THRESHOLD = 2
  EMERGENCY_THRESHOLD = 3
  MaxProposals = 1
INVARIANTS
  DepositsAccounted
  DepositsFunded
  NonceCountsProofs
  RescuesPaidOnce
CHECK_DEADLOCK FALSE
