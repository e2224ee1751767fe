\* Two seats of three veto; four addresses, three councils, two action ids.
SPECIFICATION Spec
CONSTANTS
  a1 = a1
  a2 = a2
  a3 = a3
  a4 = a4
  Addresses = {a1, a2, a3, a4}
  Councils <- MCCouncils
  None = None
  COUNCIL_SIZE = 3
  REQUIRED_SIGNATURES = 2
  TIMELOCK_DURATION = 1
  KEY_ROTATION_TIMELOCK = 2
  MaxActions = 2
  MaxTime = 3
INVARIANTS
  PendingBelowThreshold
  OneClawback
PROPERTIES
  VetoFinal
  RotationDelayed
CHECK_DEADLOCK FALSE
