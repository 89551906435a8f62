SPECIFICATION FairSpec
CONSTANTS
  Calls = {j1, j2, j3}
  FailureThreshold = 2
  RecoveryTimeout = 2
  MaxRetries = 2
  None = none
INVARIANT TypeOK
INVARIANT BreakerInv
PROPERTY GateHolds
PROPERTY KeepsContract
