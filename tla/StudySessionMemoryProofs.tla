---------------------- MODULE StudySessionMemoryProofs ----------------------
(***************************************************************************)
(* Theorems about StudySessionMemory: the invariant of the study session   *)
(* holds over the in-process store too, and that store implements the      *)
(* abstract one although it hands out its own objects.                     *)
(***************************************************************************)
EXTENDS StudySessionMemory, StudySessionOutcomeProofs

LEMMA InitMemory == MemoryInit => MemoryInv
<1> SUFFICES ASSUME MemoryInit PROVE MemoryInv
  OBVIOUS
<1>1. IInv
  BY InitIInv DEF MemoryInit
<1> QED  BY <1>1 DEF MemoryInit, MemoryInv, Init

\* The object in the dict after update_status: of the same upload, no longer
\* uploaded, and with a new result only if it is finished.
LEMMA ObjectType ==
  ASSUME MemoryInv, NEW t \in Tasks, pc[t] = "read", store[sid[t]] # None
  PROVE  /\ sid[t] \in Sids
         /\ Object(t) \in Record
         /\ Object(t).user = store[sid[t]].user
         /\ Object(t).pdf = store[sid[t]].pdf
         /\ Object(t).status # "uploaded"
         /\ \/ Object(t).result = store[sid[t]].result
            \/ /\ content[t] # None /\ Object(t).result = content[t]
               /\ Object(t).status \in {"complete", "failed"}
<1> DEFINE rec == store[sid[t]]
           st == CASE upd[t] \in Failures -> "failed"
                   [] upd[t] = "complete" -> "complete"
                   [] OTHER -> "processing"
           res == IF upd[t] \in {"complete", "unsynced"} THEN content[t]
                  ELSE rec.result
<1>1. /\ sid[t] \in Sids /\ rec \in Record /\ upd[t] \in Updates
      /\ content[t] \in Tasks \cup {None}
      /\ upd[t] \in {"complete", "unsynced"} => content[t] # None
  BY DEF MemoryInv, IInv, TypeOK, TaskState
<1>2. /\ st \in {"processing", "complete", "failed"}
      /\ upd[t] \in {"complete", "unsynced"} => st \in {"complete", "failed"}
  BY <1>1 DEF Updates, Failures, Stages
<1>3. res \in Tasks \cup {Doc}
  BY <1>1 DEF Record
<1>4. Object(t) = [rec EXCEPT !.status = st, !.result = res]
  BY <1>1 DEF Object, Updated, Record
<1> HIDE DEF st
<1>5. Object(t) = [user |-> rec.user, pdf |-> rec.pdf, status |-> st, result |-> res]
  BY <1>1, <1>4 DEF Record
<1> QED  BY <1>1, <1>2, <1>3, <1>5 DEF Record

\* update_status keeps the invariant of the study session: whoever shares the
\* object sees the same upload in it.
LEMMA UpdateObjectIInv ==
  ASSUME MemoryInv, NEW t \in Tasks, UpdateObject(t)
  PROVE  IInv'
<1>1. /\ IInv /\ TypeOK /\ TaskState(t) /\ pc[t] = "read" /\ Resume(t)
      /\ UNCHANGED <<row, bank, origin, sid, snap, rq>>
  BY DEF MemoryInv, IInv, UpdateObject
<1>2. CASE store[sid[t]] = None /\ UNCHANGED <<store, held>>
  <2>1. ReadRecord(t)
    BY <1>1, <1>2 DEF ReadRecord
  <2> QED  BY <1>1, <2>1, ReadRecordIInv
<1>3. CASE store[sid[t]] # None
  <2> DEFINE s == sid[t]
             obj == Object(t)
  <2>1. /\ s \in Sids /\ obj \in Record /\ obj # None
        /\ obj.user = store[s].user /\ obj.pdf = store[s].pdf
        /\ \/ obj.result = store[s].result
           \/ content[t] # None /\ obj.result = content[t]
    BY <1>1, <1>3, ObjectType, MemoryAssumption
  <2>2. /\ store' = [store EXCEPT ![s] = obj]
        /\ held' = [x \in Tasks |-> IF shared[x] /\ sid[x] = s
                                    THEN obj ELSE held[x]]
    BY <1>3 DEF UpdateObject
  <2> HIDE DEF obj
  <2>3. TypeOK'
    BY <1>1, <2>1, <2>2, ResumeEffect DEF TypeOK
  <2>4. \A x \in Tasks : TaskState(x)'
    <3>1. \A x \in Tasks : (held'[x] = None) = (held[x] = None)
      BY <2>1, <2>2 DEF MemoryInv
    <3> QED  BY <1>1, <2>1, <2>2, <3>1, ResumeEffect
             DEF IInv, TypeOK, TaskState, Live
  <2>5. \A x \in Tasks :
          \/ held'[x] = held[x]
          \/ held[x] # None /\ held'[x] # None /\ held'[x].pdf = held[x].pdf
    BY <1>3, <2>1, <2>2 DEF MemoryInv
  <2>6. \A x, p : About(x, p) => About(x, p)'
    BY <2>5 DEF About
  <2>7. Of(obj, s) /\ About(obj.result, obj.pdf)
    <3>1. Genuine(store[s], s)
      BY <1>1, <2>1 DEF IInv, Provenance
    <3>2. Of(store[s], s) /\ About(store[s].result, store[s].pdf)
      BY <1>3, <3>1 DEF Genuine
    <3>3. content[t] # None => About(content[t], store[s].pdf)
      <4>1. held[t] # None /\ Genuine(held[t], s)
            /\ (content[t] # None => About(content[t], held[t].pdf))
        BY <1>1 DEF IInv, TaskState, Live, Provenance
      <4>2. held[t].pdf = store[s].pdf
        BY <3>2, <4>1 DEF Genuine, Of
      <4> QED  BY <4>1, <4>2
    <3> QED  BY <2>1, <3>2, <3>3 DEF Of
  <2>8. Provenance'
    <3>1. \A r \in Sids : (/\ Genuine(store[r], r)
                           /\ row[r] # None => Of(row[r], r))'
      BY <1>1, <2>1, <2>2, <2>6, <2>7 DEF IInv, TypeOK, Provenance, Genuine, Of
    <3>2. \A p \in Pdfs : About(bank[p], p)'
      BY <1>1, <2>6 DEF IInv, Provenance
    <3>3. \A x \in Tasks : (Genuine(held[x], sid[x]) /\ Genuine(snap[x], sid[x]))'
      BY <1>1, <2>2, <2>6, <2>7 DEF IInv, Provenance, Genuine, Of
    <3>4. ASSUME NEW x \in Tasks, content'[x] # None
          PROVE  About(content[x], held[x].pdf)'
      <4>1. content'[x] \in {content[x], x} /\ content[x] \in Tasks \cup {None}
        BY <1>1, ResumeEffect DEF TypeOK
      <4>2. CASE content'[x] = content[x]
        <5>1. held[content[x]] # None /\ held[content[x]].pdf = held[x].pdf
          BY <1>1, <3>4, <4>1, <4>2 DEF IInv, Provenance, About
        <5>2. held'[content[x]] # None /\ held'[content[x]].pdf = held'[x].pdf
          BY <2>5, <3>4, <4>1, <4>2, <5>1
        <5> QED  BY <4>2, <5>2 DEF About
      <4>3. CASE content'[x] = x /\ x = t
        BY <1>1, <2>5, <4>3 DEF TaskState, Live, About
      <4>4. CASE content'[x] = x /\ x # t
        BY <1>1, <4>2, <4>4, ResumeEffect
      <4> QED  BY <4>1, <4>2, <4>3, <4>4
    <3>5. \A c \in Clients :
            (/\ rq[c].op \in {"save", "drop", "row", "bank"} => rq[c].sid \in Sids
             /\ rq[c].op \in {"save", "bank"} => Of(rq[c], rq[c].sid))'
      BY <1>1 DEF IInv, Provenance, Of
    <3> QED  BY <3>1, <3>2, <3>3, <3>4, <3>5 DEF Provenance
  <2> QED  BY <2>3, <2>4, <2>8 DEF IInv
<1> QED  BY <1>2, <1>3 DEF UpdateObject

\* The steps that are StudySession's own keep its invariant as they do there.
LEMMA SessionStepIInv ==
  ASSUME IInv,
         \/ \E t \in Tasks : GetRecord(t) \/ TaskElsewhere(t)
         \/ \E c \in Clients : SaveUpload(c) \/ DropRecord(c) \/ RequestElsewhere(c)
         \/ \E u \in Owners, s \in Sids : Generate(u, s)
  PROVE  IInv'
<1>1. ASSUME NEW t \in Tasks, GetRecord(t) \/ TaskElsewhere(t)  PROVE IInv'
  BY <1>1, TaskIInv DEF TaskElsewhere, TaskStep
<1>2. ASSUME NEW c \in Clients, SaveUpload(c) \/ DropRecord(c) \/ RequestElsewhere(c)
      PROVE  IInv'
  BY <1>2, RequestIInv DEF RequestElsewhere, RequestStep
<1>3. ASSUME NEW u \in Owners, NEW s \in Sids, Generate(u, s)  PROVE IInv'
  BY <1>3, NextIInv DEF Next
<1> QED  BY <1>1, <1>2, <1>3

\* A session whose record is deleted at once, and a restart that loses all.
LEMMA DeleteObjectIInv ==
  ASSUME IInv, NEW u \in Owners, NEW s \in Sids, DeleteObject(u, s)
  PROVE  IInv'
BY TasksAlone
DEF IInv, TypeOK, Provenance, Genuine, About, Of, DeleteObject, taskVars

LEMMA RestartIInv ==
  ASSUME MemoryInv, Restart
  PROVE  IInv'
<1>1. IInv /\ \A t \in Tasks : pc[t] # "write"
  BY DEF MemoryInv
<1>2. TypeOK'
  BY <1>1 DEF IInv, TypeOK, Restart, Labels, NoRequest, Request
<1>3. \A t \in Tasks : TaskState(t)'
  BY <1>1 DEF IInv, TypeOK, TaskState, Restart, Live
<1>4. Provenance'
  BY <1>1 DEF IInv, TypeOK, Provenance, Genuine, About, Of, Restart, NoRequest
<1> QED  BY <1>2, <1>3, <1>4 DEF IInv

\* A new object, or none, in the dict: whoever shares another one still does.
LEMMA DetachShares ==
  ASSUME MemoryInv, NEW s \in Sids, NEW r, Detach(s),
         store' = [store EXCEPT ![s] = r], UNCHANGED <<pc, sid, held>>
  PROVE  /\ shared' \in [Tasks -> BOOLEAN]
         /\ \A x \in Tasks :
              /\ pc'[x] # "write"
              /\ shared'[x] => held'[x] # None /\ held'[x] = store'[sid'[x]]
<1>1. /\ shared \in [Tasks -> BOOLEAN] /\ store \in [Sids -> Record \cup {None}]
      /\ \A x \in Tasks : shared[x] => held[x] # None /\ held[x] = store[sid[x]]
      /\ \A x \in Tasks : pc[x] # "write"
  BY DEF MemoryInv, IInv, TypeOK
<1>2. \A x \in Tasks : held[x] # None => sid[x] \in Sids
  BY DEF MemoryInv, IInv, TypeOK, TaskState
<1> QED  BY <1>1, <1>2 DEF Detach

\* Every step keeps the invariant over the in-process store.
LEMMA NextMemory == MemoryInv /\ [MemoryNext]_memoryVars => MemoryInv'
<1> SUFFICES ASSUME MemoryInv, [MemoryNext]_memoryVars PROVE MemoryInv'
  OBVIOUS
<1> DEFINE Shares(x) == /\ pc[x] # "write"
                        /\ shared[x] => held[x] # None /\ held[x] = store[sid[x]]
<1>1. /\ IInv /\ TypeOK /\ shared \in [Tasks -> BOOLEAN]
      /\ \A x \in Tasks : Shares(x) /\ TaskState(x)
  BY DEF MemoryInv, IInv
<1>2. ASSUME NEW t \in Tasks, GetObject(t)  PROVE MemoryInv'
  <2>1. IInv'
    BY <1>1, <1>2, SessionStepIInv DEF GetObject
  <2>2. shared' \in [Tasks -> BOOLEAN] /\ \A x \in Tasks : Shares(x)'
    BY <1>1, <1>2 DEF TypeOK, GetObject, GetRecord, Goto
  <2> QED  BY <2>1, <2>2 DEF MemoryInv
<1>3. ASSUME NEW t \in Tasks, UpdateObject(t)  PROVE MemoryInv'
  <2>1. IInv'
    BY <1>3, UpdateObjectIInv
  <2>2. pc[t] = "read" /\ Resume(t) /\ UNCHANGED <<sid, shared>>
    BY <1>3 DEF UpdateObject
  <2>3. \A x \in Tasks : pc'[x] # "write"
    BY <1>1, <2>2, ResumeEffect
  <2>4. CASE store[sid[t]] # None
    <3>1. sid[t] \in Sids /\ Object(t) \in Record /\ Object(t) # None
      BY <2>2, <2>4, ObjectType, MemoryAssumption
    <3>2. /\ store' = [store EXCEPT ![sid[t]] = Object(t)]
          /\ held' = [x \in Tasks |-> IF shared[x] /\ sid[x] = sid[t]
                                      THEN Object(t) ELSE held[x]]
      BY <1>3, <2>4 DEF UpdateObject
    <3>3. \A x \in Tasks : held[x] # None => sid[x] \in Sids
      BY <1>1 DEF TypeOK, TaskState
    <3>4. \A x \in Tasks : Shares(x)'
      BY <1>1, <2>2, <2>3, <3>1, <3>2, <3>3 DEF TypeOK
    <3> QED  BY <1>1, <2>1, <2>2, <3>4 DEF MemoryInv
  <2>5. CASE UNCHANGED <<store, held>>
    BY <1>1, <2>1, <2>2, <2>3, <2>5 DEF MemoryInv
  <2> QED  BY <1>3, <2>4, <2>5 DEF UpdateObject
<1>4. ASSUME NEW t \in Tasks, TaskElsewhere(t), UNCHANGED shared  PROVE MemoryInv'
  <2>1. IInv'
    BY <1>1, <1>4, SessionStepIInv
  <2>2. UNCHANGED <<store, held, sid>>
    BY <1>4 DEF TaskElsewhere, LookupBank, CallLlm, SyncReady, SyncFailed,
                SaveToBank, TaskDies
  <2>3. \A x \in Tasks : pc'[x] # "write"
    BY <1>1, <1>4 DEF TypeOK, TaskElsewhere, LookupBank, CallLlm, SyncReady,
                      SyncFailed, SaveToBank, TaskDies, StartUpdate, Goto,
                      AfterFinalize, RevertComplete
  <2> QED  BY <1>1, <1>4, <2>1, <2>2, <2>3 DEF MemoryInv
<1>5. ASSUME NEW c \in Clients, SaveObject(c)  PROVE MemoryInv'
  <2>1. IInv' /\ rq[c].sid \in Sids
    BY <1>1, <1>5, SessionStepIInv DEF SaveObject, SaveUpload, IInv, Provenance
  <2> QED  BY <1>5, <2>1, DetachShares DEF SaveObject, SaveUpload, MemoryInv, taskVars
<1>6. ASSUME NEW c \in Clients, DropObject(c)  PROVE MemoryInv'
  <2>1. IInv' /\ rq[c].sid \in Sids
    BY <1>1, <1>6, SessionStepIInv DEF DropObject, DropRecord, IInv, Provenance
  <2> QED  BY <1>6, <2>1, DetachShares DEF DropObject, DropRecord, MemoryInv, taskVars
<1>7. ASSUME NEW c \in Clients, RequestElsewhere(c), UNCHANGED shared
      PROVE  MemoryInv'
  <2>1. IInv'
    BY <1>1, <1>7, SessionStepIInv
  <2>2. UNCHANGED <<store, pc, sid, held>>
    BY <1>7 DEF RequestElsewhere, Upload, FallBack, DeleteUserSession, ListSessions,
                LoadRow, LoadBank, MatchBank, PromoteRows, taskVars
  <2> QED  BY <1>1, <1>7, <2>1, <2>2 DEF MemoryInv
<1>8. ASSUME NEW u \in Owners, NEW s \in Sids, DeleteObject(u, s)  PROVE MemoryInv'
  <2>1. IInv'
    BY <1>1, <1>8, DeleteObjectIInv
  <2> QED  BY <1>8, <2>1, DetachShares DEF DeleteObject, MemoryInv, taskVars
<1>9. ASSUME NEW u \in Owners, NEW s \in Sids, Generate(u, s), UNCHANGED shared
      PROVE  MemoryInv'
  <2>1. IInv'
    BY <1>1, <1>9, SessionStepIInv
  <2>2. PICK t \in Tasks : /\ pc[t] = "idle" /\ Goto(t, "start")
                           /\ sid' = [sid EXCEPT ![t] = s]
    BY <1>9 DEF Generate
  <2>3. ~shared[t] /\ UNCHANGED <<store, held>>
    BY <1>1, <1>9, <2>2 DEF TaskState, Generate
  <2>4. \A x \in Tasks : Shares(x)'
    BY <1>1, <1>9, <2>2, <2>3 DEF TypeOK, Goto
  <2> QED  BY <1>1, <1>9, <2>1, <2>4 DEF MemoryInv
<1>10. CASE Restart
  <2>1. IInv'
    BY <1>10, RestartIInv
  <2>2. shared' \in [Tasks -> BOOLEAN] /\ \A x \in Tasks : Shares(x)'
    BY <1>1, <1>10 DEF Restart
  <2> QED  BY <2>1, <2>2 DEF MemoryInv
<1>11. CASE UNCHANGED memoryVars
  <2>1. IInv'
    BY <1>1, <1>11, NextIInv DEF memoryVars
  <2> QED  BY <1>1, <1>11, <2>1 DEF MemoryInv, memoryVars, vars, taskVars
<1> QED
  BY <1>2, <1>3, <1>4, <1>5, <1>6, <1>7, <1>8, <1>9, <1>10, <1>11 DEF MemoryNext

\* Over the in-process store too, types are kept, every record, row and piece
\* of content is of the upload it is kept for, and a record that a task shares
\* with the dict is the one in the dict.
THEOREM MemoryInvariance == MemorySpec => []MemoryInv
BY InitMemory, NextMemory, PTL DEF MemorySpec

\* No caller is ever served content of another document than the one they
\* uploaded under that session, although tasks hold the stored objects.
THEOREM OwnDocumentServedFromMemory == MemorySpec => []ServesOwnDocument
<1>1. MemoryInv => ServesOwnDocument
  BY ConstantsAssumption
  DEF MemoryInv, IInv, TypeOK, Provenance, Genuine, About, Of, ServesOwnDocument,
      ResultCode, CheckOwnership, Record
<1> QED  BY MemoryInvariance, <1>1, PTL

\* The in-process backend implements the store: every save, update_status and
\* delete is one step of it, made to the record as it is then, and no other
\* step of tasks or requests touches it.
THEOREM StoreKeepsPromise == MemorySpec => KeepsPromise
<1>1. MemoryInit => Store!Init
  BY DEF MemoryInit, Init, Store!Init
<1>2. MemoryInv /\ [MemoryNext]_memoryVars => [Store!Next]_store
  <2> SUFFICES ASSUME MemoryInv, [MemoryNext]_memoryVars
               PROVE  Store!Next \/ UNCHANGED store
    OBVIOUS
  <2>1. ASSUME NEW t \in Tasks, UpdateObject(t)  PROVE Store!Next \/ UNCHANGED store
    <3>1. CASE store[sid[t]] # None
      <4>1. Store!Update(sid[t])
        BY <2>1, <3>1, ObjectType DEF UpdateObject, Store!Update, Store!SameUpload
      <4> QED  BY <2>1, <3>1, <4>1, ObjectType DEF UpdateObject, Store!Next
    <3> QED  BY <2>1, <3>1 DEF UpdateObject
  <2>2. ASSUME NEW c \in Clients, SaveObject(c)  PROVE Store!Next
    <3>1. /\ rq[c].sid \in Sids /\ Of(rq[c], rq[c].sid)
          /\ store' = [store EXCEPT ![rq[c].sid] = FreshRecord(rq[c].user, rq[c].pdf)]
      BY <2>2 DEF MemoryInv, IInv, Provenance, SaveObject, SaveUpload
    <3>2. /\ FreshRecord(rq[c].user, rq[c].pdf) \in Record
          /\ FreshRecord(rq[c].user, rq[c].pdf).status = "uploaded"
      BY <3>1 DEF MemoryInv, IInv, TypeOK, Of, FreshRecord, Record
    <3> QED  BY <3>1, <3>2 DEF Store!Save, Store!Next
  <2>3. ASSUME NEW c \in Clients, DropObject(c)  PROVE Store!Next
    BY <2>3 DEF MemoryInv, IInv, Provenance, DropObject, DropRecord,
                Store!Delete, Store!Next
  <2>4. ASSUME NEW u \in Owners, NEW s \in Sids, DeleteObject(u, s)  PROVE Store!Next
    BY <2>4 DEF DeleteObject, Store!Delete, Store!Next
  <2>5. CASE Restart
    BY <2>5 DEF Restart, Store!Restart, Store!Next
  <2>6. ASSUME NEW t \in Tasks, GetObject(t) \/ TaskElsewhere(t)
        PROVE  UNCHANGED store
    BY <2>6 DEF GetObject, GetRecord, TaskElsewhere, LookupBank, CallLlm, SyncReady,
                SyncFailed, SaveToBank, TaskDies
  <2>7. ASSUME NEW c \in Clients, RequestElsewhere(c)  PROVE UNCHANGED store
    BY <2>7 DEF RequestElsewhere, Upload, FallBack, DeleteUserSession, ListSessions,
                LoadRow, LoadBank, MatchBank, PromoteRows
  <2>8. ASSUME NEW u \in Owners, NEW s \in Sids, Generate(u, s)
        PROVE  UNCHANGED store
    BY <2>8 DEF Generate
  <2>9. CASE UNCHANGED memoryVars
    BY <2>9 DEF memoryVars, vars
  <2> QED  BY <2>1, <2>2, <2>3, <2>4, <2>5, <2>6, <2>7, <2>8, <2>9 DEF MemoryNext
<1> QED
  BY MemoryInvariance, <1>1, <1>2, PTL DEF MemorySpec, KeepsPromise, Store!Spec

\* Unless an uncaught exception ends a task, a record that says processing has
\* a task that will write its outcome: a restart takes the record along.
THEOREM ProcessingIsAttendedInMemory ==
  ASSUME Faults \cap {"redis", "bug"} = {}
  PROVE  MemorySpec => []ProcessingHasTask
<1>1. MemoryInit => ProcessingHasTask
  BY DEF MemoryInit, Init, ProcessingHasTask
<1>2. MemoryInv /\ ProcessingHasTask /\ [MemoryNext]_memoryVars => ProcessingHasTask'
  <2> SUFFICES ASSUME MemoryInv, ProcessingHasTask, [MemoryNext]_memoryVars,
                      NEW s \in Sids, store'[s] # None, store'[s].status = "processing"
               PROVE  \E t \in Tasks :
                        sid'[t] = s /\ pc'[t] \in Stages \cup {"read", "write"}
    BY DEF ProcessingHasTask
  <2> DEFINE Attends(t) == sid[t] = s /\ pc[t] \in Stages \cup {"read", "write"}
  <2>1. /\ store \in [Sids -> Record \cup {None}] /\ sid \in [Tasks -> Sids \cup {None}]
        /\ pc \in [Tasks -> Labels]
        /\ store[s] = store'[s] => \E t \in Tasks : Attends(t)
    BY DEF MemoryInv, IInv, TypeOK, ProcessingHasTask
  <2>2. ASSUME UNCHANGED <<pc, sid>>, store[s] = store'[s]
        PROVE  \E t \in Tasks : Attends(t)'
    BY <2>1, <2>2
  <2>3. ASSUME NEW x \in Tasks, ~Attends(x) \/ Attends(x)', store[s] = store'[s],
               \A y \in Tasks \ {x} : pc'[y] = pc[y] /\ sid'[y] = sid[y]
        PROVE  \E t \in Tasks : Attends(t)'
    BY <2>1, <2>3
  <2>4. ASSUME NEW x \in Tasks, UpdateObject(x)  PROVE \E t \in Tasks : Attends(t)'
    <3>1. /\ TypeOK /\ TaskState(x) /\ pc[x] = "read" /\ Resume(x)
          /\ UNCHANGED sid /\ sid[x] \in Sids
      BY <2>4 DEF MemoryInv, IInv, TypeOK, TaskState, UpdateObject
    <3>2. \A y \in Tasks \ {x} : pc'[y] = pc[y] /\ sid'[y] = sid[y]
      BY <3>1, ResumeEffect
    <3>3. CASE sid[x] = s
      <4>1. store[s] # None /\ store' = [store EXCEPT ![s] = Object(x)]
        BY <2>4, <3>3 DEF UpdateObject
      <4>2. Object(x).status = "processing" /\ upd[x] \in Updates
        BY <2>1, <3>1, <4>1 DEF TypeOK, TaskState
      <4>3. Object(x).status = CASE upd[x] \in Failures -> "failed"
                                 [] upd[x] = "complete" -> "complete"
                                 [] OTHER -> "processing"
        BY <2>1, <3>3, <4>1 DEF Object, Updated, Record
      <4>4. upd[x] \in {"begin", "prompted"} \cup Stages
        BY <4>2, <4>3 DEF Updates, Failures
      <4>5. pc'[x] \in Stages \cup {"read", "write"}
        BY <2>1, <3>1, <4>4 DEF Resume, StartUpdate, Goto, Stages
      <4> QED  BY <3>1, <3>3, <4>5
    <3>4. CASE sid[x] # s
      <4>1. store'[s] = store[s]
        BY <2>1, <2>4, <3>4 DEF UpdateObject
      <4> QED  BY <2>3, <3>2, <3>4, <4>1
    <3> QED  BY <3>3, <3>4
  <2>5. ASSUME NEW x \in Tasks, GetObject(x) \/ TaskElsewhere(x)
        PROVE  \E t \in Tasks : Attends(t)'
    <3>1. ~TaskDies(x)
      BY DEF TaskDies
    <3>2. UNCHANGED <<store, sid>> /\ (~Attends(x) \/ Attends(x)')
      BY <2>1, <2>5, <3>1 DEF GetObject, GetRecord, TaskElsewhere, LookupBank, CallLlm,
             SyncReady, SyncFailed, SaveToBank, StartUpdate, Goto, Stages
    <3>3. \A y \in Tasks \ {x} : pc'[y] = pc[y]
      BY <2>1, <2>5, <3>1 DEF GetObject, GetRecord, TaskElsewhere, LookupBank, CallLlm,
             SyncReady, SyncFailed, SaveToBank, StartUpdate, Goto, AfterFinalize,
             RevertComplete
    <3> QED  BY <2>3, <3>2, <3>3
  <2>6. ASSUME NEW c \in Clients, SaveObject(c) \/ DropObject(c) \/ RequestElsewhere(c)
        PROVE  \E t \in Tasks : Attends(t)'
    <3>1. UNCHANGED <<pc, sid>>
      BY <2>6 DEF SaveObject, SaveUpload, DropObject, DropRecord, RequestElsewhere,
             Upload, FallBack, DeleteUserSession, ListSessions, LoadRow, LoadBank,
             MatchBank, PromoteRows, taskVars
    <3>2. CASE SaveObject(c) \/ DropObject(c)
      BY <2>1, <2>2, <3>1, <3>2
      DEF SaveObject, SaveUpload, DropObject, DropRecord, FreshRecord
    <3>3. CASE RequestElsewhere(c)
      BY <2>2, <3>1, <3>3 DEF RequestElsewhere, Upload, FallBack, DeleteUserSession,
             ListSessions, LoadRow, LoadBank, MatchBank, PromoteRows
    <3> QED  BY <2>6, <3>2, <3>3
  <2>7. ASSUME NEW u \in Owners, NEW r \in Sids, DeleteObject(u, r)
        PROVE  \E t \in Tasks : Attends(t)'
    BY <2>1, <2>2, <2>7 DEF DeleteObject, taskVars
  <2>8. ASSUME NEW u \in Owners, NEW r \in Sids, Generate(u, r)
        PROVE  \E t \in Tasks : Attends(t)'
    <3>1. PICK x \in Tasks : /\ pc[x] = "idle" /\ Goto(x, "start")
                             /\ sid' = [sid EXCEPT ![x] = r]
      BY <2>8 DEF Generate
    <3>2. ~Attends(x) /\ store' = store
      BY <2>8, <3>1 DEF Generate, Stages
    <3>3. \A y \in Tasks \ {x} : pc'[y] = pc[y] /\ sid'[y] = sid[y]
      BY <2>1, <3>1 DEF Goto
    <3> QED  BY <2>3, <3>2, <3>3
  <2>9. ~Restart
    BY DEF Restart
  <2>10. CASE UNCHANGED memoryVars
    BY <2>2, <2>10 DEF memoryVars, vars, taskVars
  <2> QED
    BY <2>4, <2>5, <2>6, <2>7, <2>8, <2>9, <2>10 DEF MemoryNext
<1> QED
  BY MemoryInvariance, <1>1, <1>2, PTL DEF MemorySpec

\* A step over the in-process store is one of StudySession, or one of the three
\* that this store makes on its own.
LEMMA MemoryStep ==
  ASSUME [MemoryNext]_memoryVars
  PROVE  \/ \E t \in Tasks : UpdateObject(t)
         \/ \E u \in Owners, s \in Sids : DeleteObject(u, s)
         \/ Restart
         \/ [Next]_vars
<1>1. ASSUME NEW t \in Tasks, GetObject(t) \/ TaskElsewhere(t)  PROVE Next
  BY <1>1 DEF GetObject, TaskElsewhere, TaskStep, Next
<1>2. ASSUME NEW c \in Clients, SaveObject(c) \/ DropObject(c) \/ RequestElsewhere(c)
      PROVE  Next
  BY <1>2 DEF SaveObject, DropObject, RequestElsewhere, RequestStep, Next
<1>3. ASSUME NEW u \in Owners, NEW s \in Sids, Generate(u, s)  PROVE Next
  BY <1>3 DEF Next
<1> QED  BY <1>1, <1>2, <1>3 DEF MemoryNext, memoryVars

\* No step over the in-process store takes a row that is ready or failed back to
\* pending, or gives it to another user or document.
THEOREM OutcomesKeptInMemory == MemorySpec => RowsKeepOutcome
<1>1. MemoryInv /\ [MemoryNext]_memoryVars
        => [\A s \in Sids : (row[s] # None /\ row'[s] # None) =>
              /\ row'[s].user = row[s].user /\ row'[s].pdf = row[s].pdf
              /\ row[s].status # "pending" => row'[s].status # "pending"]_vars
  <2> SUFFICES ASSUME MemoryInv, [MemoryNext]_memoryVars, ~UNCHANGED vars,
                      NEW s \in Sids, row[s] # None, row'[s] # None
               PROVE  /\ row'[s].user = row[s].user /\ row'[s].pdf = row[s].pdf
                      /\ row[s].status # "pending" => row'[s].status # "pending"
    OBVIOUS
  <2>1. row' = row \/ Next
    BY MemoryStep DEF UpdateObject, DeleteObject, Restart
  <2> QED  BY <2>1, RowKept DEF MemoryInv
<1> QED
  BY MemoryInvariance, <1>1, PTL DEF MemorySpec, RowsKeepOutcome

\* What an update_status changes for the content: a task publishes what it has
\* or its own, and a record it shares stays of the same document.
LEMMA UpdateObjectEffect ==
  ASSUME MemoryInv, NEW t \in Tasks, UpdateObject(t)
  PROVE  /\ UNCHANGED <<row, bank, origin, sid, rq>>
         /\ pc[t] = "read" /\ content'[t] \in {content[t], t}
         /\ pc'[t] \notin {"lookup", "idle", "start"}
         /\ \A x \in Tasks \ {t} : pc'[x] = pc[x] /\ content'[x] = content[x]
         /\ \A x \in Tasks :
              \/ held'[x] = held[x]
              \/ held[x] # None /\ held'[x] # None /\ held'[x].pdf = held[x].pdf
<1>1. /\ IInv /\ pc[t] = "read" /\ Resume(t)
      /\ UNCHANGED <<row, bank, origin, sid, rq>>
  BY DEF MemoryInv, UpdateObject
<1>2. \A x \in Tasks :
        \/ held'[x] = held[x]
        \/ held[x] # None /\ held'[x] # None /\ held'[x].pdf = held[x].pdf
  BY ObjectType, MemoryAssumption DEF MemoryInv, UpdateObject
<1> QED  BY <1>1, <1>2, ResumeEffect DEF IInv

\* Every step over the in-process store keeps the source of content.
LEMMA NextSourceInMemory ==
  MemoryInv /\ SourceInv /\ [MemoryNext]_memoryVars => SourceInv'
<1> SUFFICES ASSUME MemoryInv, SourceInv, [MemoryNext]_memoryVars PROVE SourceInv'
  OBVIOUS
<1>1. /\ IInv /\ content \in [Tasks -> Tasks \cup {None}]
      /\ bank \in [Pdfs -> Tasks \cup {None}]
  BY DEF MemoryInv, IInv, TypeOK
<1>2. ASSUME NEW x \in Tasks, UpdateObject(x)  PROVE SourceInv'
  <2>1. \A t \in Tasks : content[t] = t => content'[t] = t /\ held'[t].pdf = held[t].pdf
    BY <1>2, UpdateObjectEffect
  <2>2. \A p \in Pdfs : bank'[p] # None => content'[bank'[p]] = bank'[p]
    BY <1>1, <1>2, <2>1, UpdateObjectEffect DEF SourceInv
  <2>3. \A t \in Tasks : pc'[t] = "lookup" => content'[t] = None
    BY <1>2, UpdateObjectEffect DEF SourceInv
  <2>4. ASSUME NEW t \in Tasks, content'[t] # None
        PROVE  held'[t] # None /\ content'[content'[t]] = content'[t]
    <3>1. held[t] # None => held'[t] # None
      BY <1>2, UpdateObjectEffect
    <3>2. CASE content'[t] = content[t]
      <4>1. /\ held[t] # None /\ content[t] \in Tasks
            /\ content[content[t]] = content[t]
        BY <1>1, <2>4, <3>2 DEF SourceInv
      <4> QED  BY <2>1, <3>1, <3>2, <4>1
    <3>3. CASE content'[t] = t /\ t = x
      <4>1. held[t] # None
        BY <1>1, <1>2, <3>3, UpdateObjectEffect DEF IInv, TaskState, Live
      <4> QED  BY <3>1, <3>3, <4>1
    <3> QED  BY <1>2, <3>2, <3>3, UpdateObjectEffect
  <2>5. HealInv'
    BY <1>2, UpdateObjectEffect DEF SourceInv, HealInv
  <2>6. ReadyWasGenerated'
    BY <1>2, <2>1, UpdateObjectEffect DEF SourceInv, ReadyWasGenerated
  <2> QED  BY <2>2, <2>3, <2>4, <2>5, <2>6 DEF SourceInv
<1>3. ASSUME NEW u \in Owners, NEW s \in Sids, DeleteObject(u, s)  PROVE SourceInv'
  BY <1>3 DEF DeleteObject, SourceInv, HealInv, ReadyWasGenerated, taskVars
<1>4. CASE Restart
  BY <1>4 DEF Restart, SourceInv, HealInv, ReadyWasGenerated, Live, NoRequest
<1>5. CASE [Next]_vars
  BY <1>1, <1>5, NextSource
<1> QED  BY <1>2, <1>3, <1>4, <1>5, MemoryStep

LEMMA SourceInMemory == MemorySpec => []SourceInv
<1>1. MemoryInit => SourceInv
  BY InitSource DEF MemoryInit
<1> QED  BY MemoryInvariance, NextSourceInMemory, <1>1, PTL DEF MemorySpec

\* Over the in-process store too, a row never says ready without content that
\* was generated for its document, although a restart takes every record.
THEOREM ReadyHasContentInMemory == MemorySpec => []ReadyWasGenerated
<1>1. SourceInv => ReadyWasGenerated
  BY DEF SourceInv
<1> QED  BY SourceInMemory, <1>1, PTL

\* Unless saving to the bank fails or the process stops before it, a ready row
\* can be opened again over the in-process store, whose deletes take effect at
\* once and whose records change under the tasks that hold them.
THEOREM ReadyIsRecoverableInMemory ==
  ASSUME Faults \cap {"bank", "crash"} = {}
  PROVE  MemorySpec => []ReadyRecoverable
<1>1. MemoryInit => BankedInv
  BY DEF MemoryInit, Init, BankedInv, ReadyRecoverable
<1>2. MemoryInv /\ SourceInv /\ BankedInv /\ [MemoryNext]_memoryVars => BankedInv'
  <2> SUFFICES ASSUME MemoryInv, SourceInv, BankedInv, [MemoryNext]_memoryVars
               PROVE  BankedInv'
    OBVIOUS
  <2>1. ASSUME NEW x \in Tasks, UpdateObject(x)  PROVE BankedInv'
    <3>1. \A t \in Tasks : held[t] # None => held'[t].pdf = held[t].pdf
      BY <2>1, UpdateObjectEffect
    <3>2. ASSUME NEW t \in Tasks, content'[t] \notin {t, None}
          PROVE  bank'[held'[t].pdf] # None
      BY <2>1, <3>1, <3>2, UpdateObjectEffect DEF BankedInv, SourceInv
    <3>3. \A t \in Tasks :
            pc[t] = "save" => pc'[t] = "save" /\ held'[t].pdf = held[t].pdf
      BY <2>1, <3>1, UpdateObjectEffect DEF MemoryInv, IInv, TaskState, Live
    <3>4. ReadyRecoverable'
      BY <2>1, <3>3, UpdateObjectEffect DEF BankedInv, ReadyRecoverable
    <3> QED  BY <3>2, <3>4 DEF BankedInv
  <2>2. ASSUME NEW u \in Owners, NEW s \in Sids, DeleteObject(u, s)  PROVE BankedInv'
    BY <2>2 DEF DeleteObject, BankedInv, ReadyRecoverable, taskVars
  <2>3. ~Restart
    BY DEF Restart
  <2>4. CASE [Next]_vars
    BY <2>4, NextBanked DEF MemoryInv
  <2> QED  BY <2>1, <2>2, <2>3, <2>4, MemoryStep
<1>3. BankedInv => ReadyRecoverable
  BY DEF BankedInv
<1> QED
  BY MemoryInvariance, SourceInMemory, <1>1, <1>2, <1>3, PTL DEF MemorySpec

\* Every step over the in-process store settles record and row as well: an
\* update_status is read and write at once, a restart takes the record along.
LEMMA MemoryStepSettles ==
  ASSUME Faults \cap {"redis"} = {}
  PROVE  MemoryInv /\ SettlingInv /\ [MemoryNext]_memoryVars => SettlingInv'
<1> SUFFICES ASSUME MemoryInv, SettlingInv, [MemoryNext]_memoryVars PROVE SettlingInv'
  OBVIOUS
<1>1. IInv /\ store \in [Sids -> Record \cup {None}] /\ sid \in [Tasks -> Sids \cup {None}]
  BY DEF MemoryInv, IInv, TypeOK
<1>2. ASSUME NEW x \in Tasks, UpdateObject(x)
      PROVE  SettlingInv'
  <2>1. /\ pc[x] = "read" /\ Resume(x) /\ TypeOK /\ TaskState(x) /\ sid[x] \in Sids
        /\ UNCHANGED <<row, bank, origin, sid, snap, rq>>
    BY <1>2 DEF MemoryInv, IInv, TypeOK, TaskState, UpdateObject
  <2>2. CASE store[sid[x]] = None
    BY <1>1, <1>2, <2>1, <2>2, StepSettles DEF UpdateObject, ReadRecord, TaskStep
  <2>3. CASE store[sid[x]] # None
    <3>1. store' = [store EXCEPT ![sid[x]] = Object(x)]
      BY <1>2, <2>3 DEF UpdateObject
    <3>2. ASSUME NEW t \in Tasks
          PROVE  pc'[t] = "idle" => sid'[t] = None
      BY <2>1, ResumeEffect DEF SettlingInv
    <3>3. ASSUME NEW t \in Tasks, OnlyTask(t)', store'[sid[t]] # None,
                 store'[sid[t]].status = "complete"
          PROVE  Settled(t)'
      <4>1. OnlyTask(t) /\ sid[t] \in Sids
        BY <1>1, <2>1, <3>3 DEF OnlyTask
      <4>2. CASE t = x
        <5>1. store[sid[x]] \in Record /\ upd[x] \in Updates
          BY <1>1, <2>1, <2>3 DEF TypeOK, TaskState
        <5>2. Updated(x, store[sid[x]]).status = "complete"
          BY <1>1, <2>1, <3>1, <3>3, <4>2 DEF Object
        <5>3. upd[x] = "complete"
          BY <5>1, <5>2, UpdatedWord
        <5> QED  BY <1>1, <2>1, <4>2, <5>3, CompleteSettles
      <4>3. CASE t # x
        <5>1. store'[sid[t]] = store[sid[t]]
          BY <1>1, <3>1, <4>1, <4>3 DEF OnlyTask
        <5>2. Settled(t)
          BY <3>3, <4>1, <5>1 DEF SettlingInv
        <5> QED  BY <2>1, <4>3, <5>2, ResumeEffect DEF Settled
      <4> QED  BY <4>2, <4>3
    <3> QED  BY <2>1, <3>2, <3>3 DEF SettlingInv
  <2> QED  BY <2>2, <2>3
<1>3. ASSUME NEW u \in Owners, NEW s \in Sids, DeleteObject(u, s)
      PROVE  SettlingInv'
  BY <1>1, <1>3 DEF DeleteObject, SettlingInv, Settled, OnlyTask, taskVars
<1>4. CASE Restart
  BY <1>1, <1>4 DEF Restart, SettlingInv, OnlyTask, Live
<1>5. CASE UNCHANGED memoryVars
  BY <1>1, <1>5, StepSettles DEF memoryVars
<1>6. ASSUME \/ \E t \in Tasks : GetObject(t) \/ TaskElsewhere(t)
             \/ \E c \in Clients : SaveObject(c) \/ DropObject(c) \/ RequestElsewhere(c)
             \/ \E u \in Owners, s \in Sids : Generate(u, s)
      PROVE  SettlingInv'
  <2>1. \/ \E t \in Tasks : TaskStep(t) \/ TaskDies(t)
        \/ \E c \in Clients : RequestStep(c)
        \/ \E u \in Owners, s \in Sids : Generate(u, s)
    BY <1>6 DEF GetObject, TaskElsewhere, TaskStep, SaveObject, DropObject,
                RequestElsewhere, RequestStep
  <2> QED  BY <1>1, <2>1, StepSettles
<1> QED  BY <1>2, <1>3, <1>4, <1>5, <1>6 DEF MemoryNext

\* Over the in-process store record and row agree after a session's only
\* generation even across restarts: this store's calls do not raise.
THEOREM RecordAndRowAgreeInMemory ==
  ASSUME Faults \cap {"redis"} = {}
  PROVE  MemorySpec => []SettledAgreement
<1>1. MemoryInit => SettlingInv
  BY DEF MemoryInit, Init, SettlingInv, OnlyTask
<1>2. MemoryInv /\ SettlingInv => SettledAgreement
  BY DEF MemoryInv, IInv, TypeOK, SettlingInv, SettledAgreement, Settled, Live, Labels
<1> QED
  BY MemoryInvariance, MemoryStepSettles, <1>1, <1>2, PTL DEF MemorySpec
=============================================================================
