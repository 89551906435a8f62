SPECIFICATION Spec
CONSTANTS
  Kids = {k1, k2}
  Ttl = 3
  MaxFetch = 2
  MaxTime = 5
  HasSecret = TRUE
  None = none
SYMMETRY Symmetry
INVARIANT IInv
INVARIANT CurrentKeyAccepted
INVARIANT RevokedKeysExpire
