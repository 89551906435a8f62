SPECIFICATION Spec
CONSTANTS
  Users = {u1}
  Names = {n1}
  Hashes = {h1}
  SubjectIds = {g1}
  SessionIds = {s1, s2}
  Questions = {q1}
  Plans = {w1}
  Entries <- MCEntries
  Payloads <- UnhashedPayloads
  Slots = {c1}
  Ops = {"sync"}
  None = none
INVARIANT SyncIdempotent
