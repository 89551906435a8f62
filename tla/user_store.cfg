SPECIFICATION Spec
CONSTANTS
  Users = {u1, u2}
  Names = {n1}
  Hashes = {h1}
  SubjectIds = {g1}
  SessionIds = {s1, s2}
  Questions = {q1}
  Plans = {w1, w2}
  Entries <- MCEntries
  Payloads <- MCPayloads
  Slots = {c1, c2}
  Ops = {"subject", "dropSubject", "session", "upload", "dropSession", "review", "sync"}
  None = none
SYMMETRY Symmetry
INVARIANT UserInv
INVARIANT SubjectOwned
INVARIANT ReviewsLive
INVARIANT OneRowPerDocument
INVARIANT SyncComplete
PROPERTY OwnReviews
