---------------------------- MODULE SessionStore ----------------------------
(***************************************************************************)
(* What session_store.py promises its callers: a map from session ids to   *)
(* records in which save, update_status and delete are each one step.  An  *)
(* update changes the record as it is then, its status and at most its     *)
(* result; it creates nothing, and it never brings the parsed text back.   *)
(***************************************************************************)
CONSTANTS
  Sids,     \* session ids
  Records,  \* the records a store can hold
  None      \* no record

VARIABLE rec  \* session id -> its record or None

Init == rec = [s \in Sids |-> None]

\* Of one upload: who uploaded what.
SameUpload(r, q) == r.user = q.user /\ r.pdf = q.pdf

\* save, which only upload_pdf calls from outside: a record starts over.
Save(s) ==
  \E r \in Records :
    /\ r.status = "uploaded"
    /\ rec' = [rec EXCEPT ![s] = r]

\* update_status: the status, and the result if the call has one.
Update(s) ==
  /\ rec[s] # None
  /\ \E r \in Records :
       /\ SameUpload(r, rec[s])
       /\ r.status # "uploaded"
       /\ r.result # rec[s].result => r.status \in {"complete", "failed"}
       /\ rec' = [rec EXCEPT ![s] = r]

Delete(s) == rec' = [rec EXCEPT ![s] = None]

\* The process restarts; nothing was persisted.
Restart == rec' = [s \in Sids |-> None]

Next == Restart \/ \E s \in Sids : Save(s) \/ Update(s) \/ Delete(s)

Spec == Init /\ [][Next]_rec
=============================================================================
