SPECIFICATION Spec
CONSTANTS
  Users = {u1}
  Pdfs = {p1}
  Sids = {s1}
  Tasks = {t1}
  Clients = {c1}
  Guest = guest
  Doc = doc
  None = none
  Faults = {}
SYMMETRY Symmetry
PROPERTY OnlyUploadsCreate
CHECK_DEADLOCK FALSE
