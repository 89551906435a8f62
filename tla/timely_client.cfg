SPECIFICATION TimelySpec
CONSTANTS
  Calls = {j1, j2, j3}
  FailureThreshold = 2
  RecoveryTimeout = 1
  MaxRetries = 1
  Keys = {k1, k2, k3}
  GoodKeys = {k1, k3}
  None = none
SYMMETRY Symmetry
INVARIANT TokenInv
INVARIANT SingleFlight
INVARIANT LockServed
