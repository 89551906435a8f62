SPECIFICATION Spec
CONSTANTS
  Users = {u1, u2}
  Pdfs = {p1, p2}
  Sids = {s1, s2}
  Tasks = {t1, t2}
  Clients = {c1}
  Guest = guest
  Doc = doc
  None = none
  Faults = {"db", "loss"}
SYMMETRY Symmetry
INVARIANT TypeOK
INVARIANT SettledAgreement
INVARIANT ServesOwnDocument
INVARIANT ReadyWasGenerated
INVARIANT ReadyRecoverable
INVARIANT ProcessingHasTask
CHECK_DEADLOCK FALSE
