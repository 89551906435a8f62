---------------------------- MODULE StudySession ----------------------------
(***************************************************************************)
(* The life of a study session in the backend: an uploaded PDF, the        *)
(* background task that generates its study content, and the three places  *)
(* that remember it.                                                       *)
(*                                                                         *)
(*   store  the session store in its Redis backend: one SessionRecord per  *)
(*          session id, written by get-then-setex                          *)
(*   row    table user_sessions: what a logged-in user's dashboard lists   *)
(*   bank   table question_bank: finished content by PDF hash              *)
(*                                                                         *)
(* The three are written one after another without a transaction, by       *)
(* request handlers and background tasks that interleave at every await.   *)
(* An action is the code between two awaits.  Content is named by the task *)
(* that generated it.                                                      *)
(***************************************************************************)
EXTENDS Naturals

CONSTANTS
  Users,    \* logged-in users
  Guest,    \* the caller without an Authorization header
  Pdfs,     \* uploaded documents, by SHA-256 hash
  Sids,     \* session ids that uuid4 can draw: the bound on new sessions
  Tasks,    \* background tasks: the bound on accepted /generate calls
  Clients,  \* slots for requests that span several awaits
  Doc,      \* result_json while it holds the parsed text of the upload
  None,     \* Python's None: no record, no row, no content
  Faults    \* the faults of the environment that a model admits

\* db: a query on user_sessions raises     bank: one on question_bank raises
\* redis: a store call raises              loss: a record expires or is lost
\* bug: an exception no handler catches    crash: the process restarts
FaultKinds == {"db", "bank", "redis", "loss", "bug", "crash"}

ASSUME ConstantsAssumption ==
  /\ Guest \notin Users
  /\ None \notin Users \cup {Guest} \cup Pdfs \cup Sids \cup Tasks
  /\ None \notin [user : Users \cup {Guest}, pdf : Pdfs]
  /\ Doc \notin Tasks \cup {None}
  /\ Faults \subseteq FaultKinds

VARIABLES
  store,    \* session id -> SessionRecord or None
  row,      \* session id -> user_sessions row or None
  bank,     \* PDF -> the task whose content is banked, or None
  origin,   \* session id -> who uploaded what under it (history)
  pc,       \* task -> the await it stands at
  sid,      \* task -> the session it generates for
  held,     \* task -> the record its first store.get returned
  content,  \* task -> the content it publishes
  upd,      \* task -> the update_status call it is in
  snap,     \* task -> the record that call has read
  rq        \* client slot -> the rest of a request between two awaits

taskVars == <<pc, sid, held, content, upd, snap>>
vars == <<store, row, bank, origin, taskVars, rq>>

Owners == Users \cup {Guest}
Record == [user : Owners, pdf : Pdfs,
           status : {"uploaded", "processing", "complete", "failed"},
           result : Tasks \cup {Doc}]
Row == [user : Users, pdf : Pdfs, status : {"pending", "ready", "failed"}]

\* The update_status calls of _run_generation and _fail, in pipeline order.
Stages == {"notes", "mcq", "fill"}
Failures == {"failed", "unsynced"}
Updates == {"begin", "prompted", "complete"} \cup Stages \cup Failures
Labels == {"idle", "start", "lookup", "read", "write", "ready", "failSync",
           "save", "done", "dead"} \cup Stages
Request == [op : {"idle", "save", "drop", "row", "bank", "heal", "promote"},
            user : Owners \cup {None}, sid : Sids \cup {None},
            pdf : Pdfs \cup {None}, ids : SUBSET (Sids \X Pdfs)]
NoRequest == [op |-> "idle", user |-> None, sid |-> None, pdf |-> None,
              ids |-> {}]

Init ==
  /\ store = [s \in Sids |-> None]
  /\ row = [s \in Sids |-> None]
  /\ bank = [p \in Pdfs |-> None]
  /\ origin = [s \in Sids |-> None]
  /\ pc = [t \in Tasks |-> "idle"]
  /\ sid = [t \in Tasks |-> None]
  /\ held = [t \in Tasks |-> None]
  /\ content = [t \in Tasks |-> None]
  /\ upd = [t \in Tasks |-> "none"]
  /\ snap = [t \in Tasks |-> None]
  /\ rq = [c \in Clients |-> NoRequest]

Live(t) == pc[t] \notin {"idle", "done", "dead"}

-----------------------------------------------------------------------------
(* The background task: _run_generation.                                   *)

Goto(t, label) ==
  /\ pc' = [pc EXCEPT ![t] = label]
  /\ upd' = [upd EXCEPT ![t] = "none"]

StartUpdate(t, u) ==
  /\ pc' = [pc EXCEPT ![t] = "read"]
  /\ upd' = [upd EXCEPT ![t] = u]

\* A record after the assignments of update_status: the call's arguments.
\* The progress and the error message, which only /status reads, are left out.
Updated(t, rec) ==
  LET u == upd[t] IN
  [rec EXCEPT
     !.status = CASE u \in Failures -> "failed"
                  [] u = "complete" -> "complete"
                  [] OTHER -> "processing",
     !.result = IF u \in {"complete", "unsynced"} THEN content[t] ELSE @]

\* The record update_status saves: what it has read, updated.
UpdateStatus(t) == Updated(t, snap[t])

\* Mutant: the task returns without save_to_bank.
MutAfterFinalize(t) == Goto(t, "done")

\* Own content is banked after _finalize_ready; a cache hit returns at once.
AfterFinalize(t) == Goto(t, IF content[t] = t THEN "save" ELSE "done")

\* Mutant: the outcome of the sync is ignored.
MutRevertComplete(t) == AfterFinalize(t)

\* _finalize_ready when the sync failed: the record goes back to failed.
RevertComplete(t) == StartUpdate(t, "unsynced")

\* What the task does, up to its next await, when update_status returns.
Resume(t) ==
  \/ /\ upd[t] = "begin"
     /\ StartUpdate(t, "prompted")
     /\ UNCHANGED content
  \/ /\ upd[t] = "prompted"
     /\ Goto(t, "notes")
     /\ UNCHANGED content
  \/ /\ upd[t] = "notes"           \* validate_notes, build_mcq_prompt
     /\ \/ Goto(t, "mcq")
        \/ StartUpdate(t, "failed")
        \/ "bug" \in Faults /\ Goto(t, "dead")
     /\ UNCHANGED content
  \/ /\ upd[t] = "mcq"
     /\ Goto(t, "fill")
     /\ UNCHANGED content
  \/ /\ upd[t] = "fill"            \* validate_mcq, validate_fill
     /\ \/ /\ StartUpdate(t, "complete")
           /\ content' = [content EXCEPT ![t] = t]
        \/ /\ \/ StartUpdate(t, "failed")
              \/ "bug" \in Faults /\ Goto(t, "dead")
           /\ UNCHANGED content
  \/ /\ upd[t] = "complete"
     /\ IF held[t].user = Guest THEN AfterFinalize(t) ELSE Goto(t, "ready")
     /\ UNCHANGED content
  \/ /\ upd[t] = "unsynced"
     /\ AfterFinalize(t)
     /\ UNCHANGED content
  \/ /\ upd[t] = "failed"
     /\ Goto(t, IF held[t].user = Guest THEN "done" ELSE "failSync")
     /\ UNCHANGED content

\* The first store.get: an unknown session ends the task.
GetRecord(t) ==
  /\ pc[t] = "start"
  /\ \/ store[sid[t]] = None /\ Goto(t, "done") /\ UNCHANGED held
     \/ /\ store[sid[t]] # None
        /\ held' = [held EXCEPT ![t] = store[sid[t]]]
        /\ Goto(t, "lookup")
  /\ UNCHANGED <<store, row, bank, origin, sid, content, snap, rq>>

\* get_cached, then the check that the record still carries the text.
LookupBank(t) ==
  LET cached == bank[held[t].pdf] IN
  /\ pc[t] = "lookup"
  /\ \/ /\ cached # None
        /\ content' = [content EXCEPT ![t] = cached]
        /\ StartUpdate(t, "complete")
     \/ /\ cached = None \/ "bank" \in Faults
        /\ StartUpdate(t, IF held[t].result = Doc THEN "begin" ELSE "failed")
        /\ UNCHANGED content
  /\ UNCHANGED <<store, row, bank, origin, sid, held, snap, rq>>

\* update_status, first half: redis GET.  Without a record it returns.
ReadRecord(t) ==
  /\ pc[t] = "read"
  /\ \/ store[sid[t]] = None /\ Resume(t) /\ UNCHANGED snap
     \/ /\ store[sid[t]] # None
        /\ snap' = [snap EXCEPT ![t] = store[sid[t]]]
        /\ pc' = [pc EXCEPT ![t] = "write"]
        /\ UNCHANGED <<upd, content>>
  /\ UNCHANGED <<store, row, bank, origin, sid, held, rq>>

\* update_status, second half: redis SETEX of the whole record.
WriteRecord(t) ==
  /\ pc[t] = "write"
  /\ store' = [store EXCEPT ![sid[t]] = UpdateStatus(t)]
  /\ snap' = [snap EXCEPT ![t] = None]
  /\ Resume(t)
  /\ UNCHANGED <<row, bank, origin, sid, held, rq>>

\* Mutant: an error path that returns without _fail.
MutCallLlm(t) ==
  /\ pc[t] \in Stages
  /\ StartUpdate(t, pc[t]) \/ Goto(t, "done")
  /\ UNCHANGED <<store, row, bank, origin, sid, held, content, snap, rq>>

\* One of the three generate_with_retry calls: a dict or a GenerationError.
CallLlm(t) ==
  /\ pc[t] \in Stages
  /\ StartUpdate(t, pc[t]) \/ StartUpdate(t, "failed")
  /\ UNCHANGED <<store, row, bank, origin, sid, held, content, snap, rq>>

\* update_session_status matches the row by id and user.
OwnsRow(u, s) == row[s] # None /\ row[s].user = u
RowMatches(t) == OwnsRow(held[t].user, sid[t])

SyncReady(t) ==
  /\ pc[t] = "ready"
  /\ \/ /\ RowMatches(t)
        /\ row' = [row EXCEPT ![sid[t]].status = "ready"]
        /\ AfterFinalize(t)
     \/ /\ ~RowMatches(t) \/ "db" \in Faults
        /\ RevertComplete(t)
        /\ UNCHANGED row
  /\ UNCHANGED <<store, bank, origin, sid, held, content, snap, rq>>

\* _fail ignores the outcome of its sync.
SyncFailed(t) ==
  /\ pc[t] = "failSync"
  /\ \/ /\ RowMatches(t)
        /\ row' = [row EXCEPT ![sid[t]].status = "failed"]
     \/ /\ ~RowMatches(t) \/ "db" \in Faults
        /\ UNCHANGED row
  /\ Goto(t, "done")
  /\ UNCHANGED <<store, bank, origin, sid, held, content, snap, rq>>

\* INSERT ... ON CONFLICT (pdf_hash) DO NOTHING; a failure is only logged.
SaveToBank(t) ==
  LET p == held[t].pdf IN
  /\ pc[t] = "save"
  /\ \/ bank' = [bank EXCEPT ![p] = IF @ = None THEN t ELSE @]
     \/ "bank" \in Faults /\ UNCHANGED bank
  /\ Goto(t, "done")
  /\ UNCHANGED <<store, row, origin, sid, held, content, snap, rq>>

\* An exception that nothing in _run_generation catches ends the task.
TaskDies(t) ==
  /\ \/ "redis" \in Faults /\ pc[t] \in {"start", "read", "write"}
     \/ "bug" \in Faults /\ pc[t] \in Stages
  /\ Goto(t, "dead")
  /\ snap' = [snap EXCEPT ![t] = None]
  /\ UNCHANGED <<store, row, bank, origin, sid, held, content, rq>>

TaskStep(t) ==
  \/ GetRecord(t) \/ LookupBank(t) \/ ReadRecord(t) \/ WriteRecord(t)
  \/ CallLlm(t) \/ SyncReady(t) \/ SyncFailed(t) \/ SaveToBank(t)

-----------------------------------------------------------------------------
(* The request handlers.                                                   *)

Begin(c, op, u, s, p) ==
  rq' = [rq EXCEPT ![c] = [op |-> op, user |-> u, sid |-> s, pdf |-> p,
                           ids |-> {}]]
End(c) == rq' = [rq EXCEPT ![c] = NoRequest]

\* _check_ownership: a guest session for guests, an owned one for its owner.
CheckOwnership(rec, u) == rec.user = u

\* Mutant: the conflict target is the hash alone.
MutIsRowOf(s, u, p) == row[s] # None /\ row[s].pdf = p

\* The row that ON CONFLICT (user_id, pdf_hash) finds.
IsRowOf(s, u, p) == OwnsRow(u, s) /\ row[s].pdf = p

\* Mutant: EXCLUDED.status always wins.
MutKeptStatus(st) == "pending"

\* The CASE of the upsert.
KeptStatus(st) == IF st \in {"ready", "failed"} THEN st ELSE "pending"

\* upload_pdf up to the store: upsert_session returns the id of the user's
\* row for this PDF.  A guest, or a user whose upsert raised, gets a new id.
Upload(c, u, p) ==
  /\ rq[c].op = "idle"
  /\ \E s \in Sids :
       /\ Begin(c, "save", u, s, p)
       /\ \/ /\ IsRowOf(s, u, p)
             /\ row' = [row EXCEPT ![s].status = KeptStatus(@)]
             /\ UNCHANGED origin
          \/ /\ origin[s] = None
             /\ origin' = [origin EXCEPT ![s] = [user |-> u, pdf |-> p]]
             /\ \/ /\ u # Guest
                   /\ \A r \in Sids : ~IsRowOf(r, u, p)
                   /\ row' = [row EXCEPT ![s] = [user |-> u, pdf |-> p,
                                                 status |-> "pending"]]
                \/ /\ u = Guest \/ "db" \in Faults
                   /\ UNCHANGED row
  /\ UNCHANGED <<store, bank, taskVars>>

\* Mutant: the row's status word in the record.
MutFreshRecord(u, p) ==
  [user |-> u, pdf |-> p, status |-> "pending", result |-> Doc]

\* The record upload_pdf stores, whatever was there before.
FreshRecord(u, p) ==
  [user |-> u, pdf |-> p, status |-> "uploaded", result |-> Doc]

SaveUpload(c) ==
  /\ rq[c].op = "save"
  /\ store' = [store EXCEPT ![rq[c].sid] = FreshRecord(rq[c].user, rq[c].pdf)]
  /\ End(c)
  /\ UNCHANGED <<row, bank, origin, taskVars>>

\* start_generation: only a complete or processing record is not run again.
\* The status is left to the task, which starts after the response.
Generate(u, s) ==
  /\ store[s] # None
  /\ CheckOwnership(store[s], u)
  /\ store[s].status \notin {"complete", "processing"}
  /\ \E t \in Tasks :
       /\ pc[t] = "idle"
       /\ Goto(t, "start")
       /\ sid' = [sid EXCEPT ![t] = s]
  /\ UNCHANGED <<store, row, bank, origin, held, content, snap, rq>>

\* What get_result answers from the store; 0 sends it to the databases.
ResultCode(u, s) ==
  IF store[s] = None THEN IF u = Guest THEN 404 ELSE 0
  ELSE IF ~CheckOwnership(store[s], u) THEN 403
  ELSE CASE store[s].status = "processing" -> 202
         [] store[s].status = "failed" -> 500
         [] store[s].status = "uploaded" -> 400
         [] OTHER -> IF store[s].result = Doc THEN 500 ELSE 200

\* get_result's fallback: the caller's row gives the hash, the bank the JSON.
FallBack(c, u, s) ==
  /\ rq[c].op = "idle"
  /\ ResultCode(u, s) = 0
  /\ Begin(c, "row", u, s, None)
  /\ UNCHANGED <<store, row, bank, origin, taskVars>>

LoadRow(c) ==
  LET s == rq[c].sid  u == rq[c].user IN
  /\ rq[c].op = "row"
  /\ \/ /\ OwnsRow(u, s)
        /\ Begin(c, "bank", u, s, row[s].pdf)
     \/ /\ ~OwnsRow(u, s) \/ "db" \in Faults
        /\ End(c)
  /\ UNCHANGED <<store, row, bank, origin, taskVars>>

\* The answer is 200 with bank[pdf], or 404.
LoadBank(c) ==
  /\ rq[c].op = "bank"
  /\ End(c)
  /\ UNCHANGED <<store, row, bank, origin, taskVars>>

\* DELETE /session: the ownership check, then the store's delete.
DeleteSession(c, u, s) ==
  /\ rq[c].op = "idle"
  /\ store[s] # None
  /\ CheckOwnership(store[s], u)
  /\ Begin(c, "drop", u, s, None)
  /\ UNCHANGED <<store, row, bank, origin, taskVars>>

\* DELETE /user/sessions: the row, then, best effort, the record.
DeleteUserSession(c, u, s) ==
  /\ rq[c].op = "idle"
  /\ OwnsRow(u, s)
  /\ row' = [row EXCEPT ![s] = None]
  /\ Begin(c, "drop", u, s, None)
  /\ UNCHANGED <<store, bank, origin, taskVars>>

DropRecord(c) ==
  /\ rq[c].op = "drop"
  /\ store' = [store EXCEPT ![rq[c].sid] = None]
  /\ End(c)
  /\ UNCHANGED <<row, bank, origin, taskVars>>

\* GET /user/sessions: the pending rows are matched against the bank ...
ListSessions(c, u) ==
  LET pending == {s \in Sids : OwnsRow(u, s) /\ row[s].status = "pending"} IN
  /\ rq[c].op = "idle"
  /\ pending # {}
  /\ rq' = [rq EXCEPT ![c] = [op |-> "heal", user |-> u, sid |-> None,
              pdf |-> None, ids |-> {<<s, row[s].pdf>> : s \in pending}]]
  /\ UNCHANGED <<store, row, bank, origin, taskVars>>

\* Mutant: one banked document heals every pending row.
MutHealable(ids) == IF \E i \in ids : bank[i[2]] # None THEN ids ELSE {}

Healable(ids) == {i \in ids : bank[i[2]] # None}

MatchBank(c) ==
  LET hits == Healable(rq[c].ids) IN
  /\ rq[c].op = "heal"
  /\ \/ /\ hits # {}
        /\ rq' = [rq EXCEPT ![c].op = "promote", ![c].ids = hits]
     \/ (hits = {} \/ "bank" \in Faults) /\ End(c)
  /\ UNCHANGED <<store, row, bank, origin, taskVars>>

\* ... and those it has are set ready, whatever became of them meanwhile.
PromoteRows(c) ==
  LET hit(s) == OwnsRow(rq[c].user, s) /\ \E i \in rq[c].ids : i[1] = s IN
  /\ rq[c].op = "promote"
  /\ \/ row' = [s \in Sids |-> IF hit(s)
                               THEN [row[s] EXCEPT !.status = "ready"]
                               ELSE row[s]]
     \/ "db" \in Faults /\ UNCHANGED row
  /\ End(c)
  /\ UNCHANGED <<store, bank, origin, taskVars>>

\* A store call that raises: 500 for an upload, ignored by the user delete.
StoreError(c) ==
  /\ "redis" \in Faults
  /\ rq[c].op \in {"save", "drop"}
  /\ End(c)
  /\ UNCHANGED <<store, row, bank, origin, taskVars>>

-----------------------------------------------------------------------------
(* The environment.                                                        *)

\* The record's TTL runs out, or Redis restarts without its data.
LoseRecord(s) ==
  /\ "loss" \in Faults
  /\ store[s] # None
  /\ store' = [store EXCEPT ![s] = None]
  /\ UNCHANGED <<row, bank, origin, taskVars, rq>>

\* The process restarts: tasks and requests in flight are gone.
Crash ==
  /\ "crash" \in Faults
  /\ pc' = [t \in Tasks |-> IF Live(t) THEN "dead" ELSE pc[t]]
  /\ upd' = [t \in Tasks |-> "none"]
  /\ snap' = [t \in Tasks |-> None]
  /\ rq' = [c \in Clients |-> NoRequest]
  /\ UNCHANGED <<store, row, bank, origin, sid, held, content>>

RequestStep(c) ==
  \/ \E u \in Owners, p \in Pdfs : Upload(c, u, p)
  \/ \E u \in Owners, s \in Sids : FallBack(c, u, s) \/ DeleteSession(c, u, s)
  \/ \E u \in Users, s \in Sids : DeleteUserSession(c, u, s)
  \/ \E u \in Users : ListSessions(c, u)
  \/ SaveUpload(c) \/ LoadRow(c) \/ LoadBank(c) \/ DropRecord(c)
  \/ MatchBank(c) \/ PromoteRows(c) \/ StoreError(c)

Next ==
  \/ \E t \in Tasks : TaskStep(t) \/ TaskDies(t)
  \/ \E c \in Clients : RequestStep(c)
  \/ \E u \in Owners, s \in Sids : Generate(u, s)
  \/ \E s \in Sids : LoseRecord(s)
  \/ Crash

Spec == Init /\ [][Next]_vars

\* The event loop runs every task on: each await returns, the LLM calls by
\* their timeouts.  Requests are the users' to make and have no fairness.
FairSpec == Spec /\ \A t \in Tasks : WF_vars(TaskStep(t))

-----------------------------------------------------------------------------
(* What the program promises.                                              *)

\* Every variable has its type: the records, the rows, the tasks' locals.
TypeOK ==
  /\ store \in [Sids -> Record \cup {None}]
  /\ row \in [Sids -> Row \cup {None}]
  /\ bank \in [Pdfs -> Tasks \cup {None}]
  /\ origin \in [Sids -> [user : Owners, pdf : Pdfs] \cup {None}]
  /\ pc \in [Tasks -> Labels]
  /\ sid \in [Tasks -> Sids \cup {None}]
  /\ held \in [Tasks -> Record \cup {None}]
  /\ content \in [Tasks -> Tasks \cup {None}]
  /\ upd \in [Tasks -> Updates \cup {"none"}]
  /\ snap \in [Tasks -> Record \cup {None}]
  /\ rq \in [Clients -> Request]

\* What holds of a task's local state at each await.
TaskState(t) ==
  /\ pc[t] \in {"idle", "start"} => held[t] = None /\ content[t] = None
  /\ Live(t) /\ pc[t] # "start" => held[t] # None
  /\ pc[t] # "idle" => sid[t] # None
  /\ pc[t] \in {"read", "write"} => upd[t] # "none"
  /\ snap[t] # None <=> pc[t] = "write"
  /\ upd[t] \in {"complete", "unsynced"} \/ pc[t] = "ready" => content[t] # None
  /\ pc[t] = "save" => content[t] = t

\* r belongs to the upload behind session s.
Of(r, s) ==
  origin[s] # None /\ origin[s].user = r.user /\ origin[s].pdf = r.pdf

\* If x is content, it was generated from document p.
About(x, p) == x \in Tasks => held[x] # None /\ held[x].pdf = p

Genuine(r, s) == r # None => Of(r, s) /\ About(r.result, r.pdf)

\* Wherever a record, a row, a snapshot or content is kept, it is of the
\* upload it is kept for: what makes ServesOwnDocument inductive.
Provenance ==
  /\ \A s \in Sids : /\ Genuine(store[s], s)
                     /\ row[s] # None => Of(row[s], s)
  /\ \A p \in Pdfs : About(bank[p], p)
  /\ \A t \in Tasks : /\ Genuine(held[t], sid[t]) /\ Genuine(snap[t], sid[t])
                      /\ content[t] # None => About(content[t], held[t].pdf)
  /\ \A c \in Clients :
       /\ rq[c].op \in {"save", "drop", "row", "bank"} => rq[c].sid \in Sids
       /\ rq[c].op \in {"save", "bank"} => Of(rq[c], rq[c].sid)

IInv == TypeOK /\ (\A t \in Tasks : TaskState(t)) /\ Provenance

\* A caller who gets a result, from the store or from the fallback, uploaded
\* that session's document, and the content was generated from it: through
\* re-uploads, the shared bank, stale snapshots and every fault.
ServesOwnDocument ==
  /\ \A u \in Owners, s \in Sids :
       ResultCode(u, s) = 200 =>
         /\ origin[s].user = u
         /\ held[store[s].result].pdf = origin[s].pdf
  /\ \A c \in Clients :
       (rq[c].op = "bank" /\ bank[rq[c].pdf] # None) =>
         /\ origin[rq[c].sid].user = rq[c].user
         /\ held[bank[rq[c].pdf]].pdf = origin[rq[c].sid].pdf

\* A dashboard row says ready only when content for its document was
\* produced: by _finalize_ready's sync or by the self-heal.
ReadyWasGenerated ==
  \A s \in Sids : (row[s] # None /\ row[s].status = "ready") =>
    \E t \in Tasks : content[t] = t /\ held[t].pdf = row[s].pdf

\* A ready row can be opened again whatever happens to the store: its content
\* is banked, or a task that still runs is about to bank it.
ReadyRecoverable ==
  \A s \in Sids : (row[s] # None /\ row[s].status = "ready") =>
    \/ bank[row[s].pdf] # None
    \/ \E t \in Tasks : pc[t] = "save" /\ held[t].pdf = row[s].pdf

\* A record says processing only while some task on that session will still
\* make a terminal write, however snapshots overwrite each other.
ProcessingHasTask ==
  \A s \in Sids : (store[s] # None /\ store[s].status = "processing") =>
    \E t \in Tasks : sid[t] = s /\ pc[t] \in Stages \cup {"read", "write"}

\* t's is the only generation that session has had.
OnlyTask(t) == sid[t] # None /\ \A x \in Tasks : sid[x] = sid[t] => x = t

\* Once a session's only generation is over, a complete record and the row
\* agree: the row is ready, whatever uploads, deletes and self-heals are on
\* their way.  (Two generations may leave them apart.)
SettledAgreement ==
  \A t \in Tasks :
    LET s == sid[t] IN
    (OnlyTask(t) /\ ~Live(t) /\ store[s] # None /\ row[s] # None
       /\ store[s].status = "complete") => row[s].status = "ready"

\* A row that is ready or failed never goes back to pending, and a row is
\* never handed to another user or document, by upserts or stale self-heals.
RowsKeepOutcome ==
  [][\A s \in Sids : (row[s] # None /\ row'[s] # None) =>
       /\ row'[s].user = row[s].user /\ row'[s].pdf = row[s].pdf
       /\ row[s].status # "pending" => row'[s].status # "pending"]_vars

\* A record does not stay at processing.
ProcessingEnds ==
  \A s \in Sids : (store[s] # None /\ store[s].status = "processing") ~>
                  (store[s] = None \/ store[s].status # "processing")

\* Once a task has the record of a session with a row, the row does not stay
\* pending: the dashboard learns the outcome.
RowSettles ==
  \A t \in Tasks, s \in Sids :
    (pc[t] = "lookup" /\ sid[t] = s /\ RowMatches(t)) ~>
      (row[s] = None \/ row[s].status # "pending")
=============================================================================
