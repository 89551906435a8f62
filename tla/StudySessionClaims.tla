------------------------- MODULE StudySessionClaims -------------------------
(***************************************************************************)
(* What the README and the comments say of study sessions, and the code    *)
(* does not keep.  Each claim is refuted by a run of its own.              *)
(***************************************************************************)
EXTENDS StudySession

\* README.md:263 and generate.py:362: DELETE /session deletes the session.
\* Only an upload creates a record; but the get-then-setex of a running task
\* writes a deleted one back.
OnlyUploadsCreate ==
  [][\A s \in Sids : (store[s] = None /\ store'[s] # None) =>
       \E c \in Clients : rq[c].op = "save" /\ rq[c].sid = s]_vars
=============================================================================
