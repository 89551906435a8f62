SPECIFICATION FairSpec
CONSTANTS
  Users = {u1}
  Pdfs = {p1}
  Sids = {s1}
  Tasks = {t1, t2}
  Clients = {c1}
  Guest = guest
  Doc = doc
  None = none
  Faults = {"bank", "loss"}
PROPERTY ProcessingEnds
PROPERTY RowSettles
CHECK_DEADLOCK FALSE
