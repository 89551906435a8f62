------------------------- MODULE StudySessionMemory -------------------------
(***************************************************************************)
(* The study session over the in-process fallback of session_store.py: a   *)
(* dict of SessionRecord objects, for one process without Redis.           *)
(*                                                                         *)
(* No call of this store suspends, so update_status and the whole of       *)
(* DELETE /session run without interleaving.  But get hands out the stored *)
(* object itself: the record a task keeps changes under it with every      *)
(* update_status of another task, until a new upload or a delete takes the *)
(* object out of the dict.  Records do not expire; a restart loses them.   *)
(***************************************************************************)
EXTENDS StudySession

ASSUME MemoryAssumption == None \notin Record

VARIABLE shared  \* task -> held[t] is the very object that the dict holds

memoryVars == <<vars, shared>>

MemoryInit == Init /\ shared = [t \in Tasks |-> FALSE]

\* Mutant: whoever held the old object holds the new one.
MutDetach(s) == shared' = shared

\* A new object, or none, takes the place of the one in the dict.
Detach(s) == shared' = [t \in Tasks |-> shared[t] /\ sid[t] # s]

\* The first store.get returns the object.
GetObject(t) ==
  /\ GetRecord(t)
  /\ shared' = [shared EXCEPT ![t] = store[sid[t]] # None]

\* Mutant: the task's own record is updated and saved.
MutObject(t) == Updated(t, held[t])

\* update_status assigns to the object that is in the dict now.
Object(t) == Updated(t, store[sid[t]])

\* update_status: get, the assignments and save, seen by all who hold it.
UpdateObject(t) ==
  LET s == sid[t] IN
  /\ pc[t] = "read"
  /\ \/ store[s] = None /\ UNCHANGED <<store, held>>
     \/ /\ store[s] # None
        /\ store' = [store EXCEPT ![s] = Object(t)]
        /\ held' = [x \in Tasks |-> IF shared[x] /\ sid[x] = s
                                    THEN Object(t) ELSE held[x]]
  /\ Resume(t)
  /\ UNCHANGED <<row, bank, origin, sid, snap, rq, shared>>

SaveObject(c) == SaveUpload(c) /\ Detach(rq[c].sid)

\* The delete of DELETE /user/sessions, after the row's.
DropObject(c) == DropRecord(c) /\ Detach(rq[c].sid)

\* DELETE /session: check and delete, with nothing in between.
DeleteObject(u, s) ==
  /\ store[s] # None
  /\ CheckOwnership(store[s], u)
  /\ store' = [store EXCEPT ![s] = None]
  /\ Detach(s)
  /\ UNCHANGED <<row, bank, origin, taskVars, rq>>

\* The process restarts, and the dict with it.
Restart ==
  /\ "crash" \in Faults
  /\ store' = [s \in Sids |-> None]
  /\ pc' = [t \in Tasks |-> IF Live(t) THEN "dead" ELSE pc[t]]
  /\ upd' = [t \in Tasks |-> "none"]
  /\ rq' = [c \in Clients |-> NoRequest]
  /\ shared' = [t \in Tasks |-> FALSE]
  /\ UNCHANGED <<row, bank, origin, sid, held, content, snap>>

\* The steps that do not touch the store.
TaskElsewhere(t) ==
  \/ LookupBank(t) \/ CallLlm(t) \/ SyncReady(t) \/ SyncFailed(t)
  \/ SaveToBank(t) \/ TaskDies(t)

RequestElsewhere(c) ==
  \/ \E u \in Owners, p \in Pdfs : Upload(c, u, p)
  \/ \E u \in Owners, s \in Sids : FallBack(c, u, s)
  \/ \E u \in Users, s \in Sids : DeleteUserSession(c, u, s)
  \/ \E u \in Users : ListSessions(c, u)
  \/ LoadRow(c) \/ LoadBank(c) \/ MatchBank(c) \/ PromoteRows(c)

MemoryNext ==
  \/ \E t \in Tasks : \/ GetObject(t) \/ UpdateObject(t)
                      \/ TaskElsewhere(t) /\ UNCHANGED shared
  \/ \E c \in Clients : \/ SaveObject(c) \/ DropObject(c)
                        \/ RequestElsewhere(c) /\ UNCHANGED shared
  \/ \E u \in Owners, s \in Sids :
       DeleteObject(u, s) \/ (Generate(u, s) /\ UNCHANGED shared)
  \/ Restart

MemorySpec == MemoryInit /\ [][MemoryNext]_memoryVars

-----------------------------------------------------------------------------
Store == INSTANCE SessionStore WITH rec <- store, Records <- Record

\* Over this backend the store keeps its promise to every caller: whatever
\* tasks and requests interleave, an update is made to the record as it is,
\* and a deleted one stays deleted.  (Redis' get-then-setex does not.)
KeepsPromise == Store!Spec

\* The inductive invariant: that of StudySession, and a shared record is the
\* stored one, whoever has updated, replaced or deleted it.
MemoryInv ==
  /\ IInv
  /\ shared \in [Tasks -> BOOLEAN]
  /\ \A t \in Tasks : /\ pc[t] # "write"
                      /\ shared[t] => held[t] # None /\ held[t] = store[sid[t]]
=============================================================================
