SPECIFICATION MemorySpec
CONSTANTS
  Users = {u1, u2}
  Pdfs = {p1}
  Sids = {s1, s2}
  Tasks = {t1, t2}
  Clients = {c1}
  Guest = guest
  Doc = doc
  None = none
  Faults = {"db", "bank", "crash"}
SYMMETRY Symmetry
INVARIANT MemoryInv
INVARIANT SettledAgreement
INVARIANT ProcessingHasTask
PROPERTY KeepsPromise
CHECK_DEADLOCK FALSE
