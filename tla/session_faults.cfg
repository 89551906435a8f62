SPECIFICATION Spec
CONSTANTS
  Users = {u1}
  Pdfs = {p1}
  Sids = {s1, s2}
  Tasks = {t1, t2}
  Clients = {c1}
  Guest = guest
  Doc = doc
  None = none
  Faults = {"db", "bank", "redis", "loss", "bug", "crash"}
SYMMETRY Symmetry
INVARIANT IInv
PROPERTY RowsKeepOutcome
CHECK_DEADLOCK FALSE
