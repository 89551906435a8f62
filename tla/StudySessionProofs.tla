------------------------- MODULE StudySessionProofs -------------------------
(***************************************************************************)
(* Proofs about StudySession for every set of users, documents, sessions,  *)
(* tasks and clients, and every combination of faults.                     *)
(***************************************************************************)
EXTENDS StudySession, TLAPS

\* The initial state satisfies the inductive invariant.
LEMMA InitIInv == Init => IInv
BY ConstantsAssumption
DEF Init, IInv, TypeOK, TaskState, Provenance, Genuine, About, Of, Live,
    NoRequest, Request, Labels, Updates, Owners

\* The record update_status saves is of the same upload as the one it read,
\* with the same result or with the task's content.
LEMMA UpdateStatusType ==
  ASSUME TypeOK, NEW t \in Tasks, TaskState(t), pc[t] = "write"
  PROVE  /\ UpdateStatus(t) \in Record
         /\ UpdateStatus(t).user = snap[t].user
         /\ UpdateStatus(t).pdf = snap[t].pdf
         /\ \/ UpdateStatus(t).result = snap[t].result
            \/ content[t] # None /\ UpdateStatus(t).result = content[t]
<1>1. snap[t] \in Record /\ upd[t] \in Updates /\ content[t] \in Tasks \cup {None}
  BY DEF TypeOK, TaskState
<1>2. upd[t] \in {"complete", "unsynced"} => content[t] # None
  BY DEF TaskState
<1> DEFINE st == CASE upd[t] \in Failures -> "failed"
                   [] upd[t] = "complete" -> "complete"
                   [] OTHER -> "processing"
<1> DEFINE res == IF upd[t] \in {"complete", "unsynced"} THEN content[t]
                  ELSE snap[t].result
<1>3. st \in {"uploaded", "processing", "complete", "failed"}
  BY <1>1 DEF Updates, Failures, Stages
<1>4. res \in Tasks \cup {Doc}
  BY <1>1, <1>2 DEF Record
<1>5. UpdateStatus(t) = [snap[t] EXCEPT !.status = st, !.result = res]
  BY <1>1 DEF UpdateStatus, Updated, Record
<1> HIDE DEF st
<1>6. UpdateStatus(t) = [user |-> snap[t].user, pdf |-> snap[t].pdf,
                         status |-> st, result |-> res]
  BY <1>1, <1>5 DEF Record
<1> QED
  BY <1>1, <1>2, <1>3, <1>4, <1>6 DEF Record

\* Where a task may stand after an update_status, and with which content.
LEMMA ResumeEffect ==
  ASSUME TypeOK, NEW t \in Tasks, TaskState(t), pc[t] \in {"read", "write"},
         Resume(t)
  PROVE  /\ pc' \in [Tasks -> Labels] /\ upd' \in [Tasks -> Updates \cup {"none"}]
         /\ content' \in [Tasks -> Tasks \cup {None}]
         /\ \A x \in Tasks \ {t} : /\ pc'[x] = pc[x] /\ upd'[x] = upd[x]
                                   /\ content'[x] = content[x]
         /\ pc'[t] \notin {"idle", "start", "lookup", "write"}
         /\ pc'[t] = "read" => upd'[t] # "none"
         /\ (upd'[t] \in {"complete", "unsynced"} \/ pc'[t] = "ready")
              => content'[t] # None
         /\ pc'[t] = "save" => content'[t] = t
         /\ content'[t] \in {content[t], t}
<1>1. /\ pc \in [Tasks -> Labels] /\ upd \in [Tasks -> Updates \cup {"none"}]
      /\ content \in [Tasks -> Tasks \cup {None}] /\ t # None
  BY ConstantsAssumption DEF TypeOK
<1>2. upd[t] \in {"complete", "unsynced"} => content[t] # None
  BY DEF TaskState
<1>3. CASE upd[t] = "begin"
  BY <1>1, <1>3 DEF Resume, StartUpdate, Labels, Updates
<1>4. CASE upd[t] = "prompted"
  BY <1>1, <1>4 DEF Resume, Goto, Labels, Updates, Stages
<1>5. CASE upd[t] = "notes"
  BY <1>1, <1>5 DEF Resume, Goto, StartUpdate, Labels, Updates, Stages, Failures
<1>6. CASE upd[t] = "mcq"
  BY <1>1, <1>6 DEF Resume, Goto, Labels, Updates, Stages
<1>7. CASE upd[t] = "fill"
  BY <1>1, <1>7 DEF Resume, Goto, StartUpdate, Labels, Updates, Stages, Failures
<1>8. CASE upd[t] = "complete"
  BY <1>1, <1>2, <1>8 DEF Resume, Goto, AfterFinalize, Labels, Updates
<1>9. CASE upd[t] = "unsynced"
  BY <1>1, <1>2, <1>9 DEF Resume, Goto, AfterFinalize, Labels, Updates
<1>10. CASE upd[t] = "failed"
  BY <1>1, <1>10 DEF Resume, Goto, Labels, Updates
<1> QED
  BY <1>3, <1>4, <1>5, <1>6, <1>7, <1>8, <1>9, <1>10 DEF Resume

\* Every step of a task keeps the invariant.
LEMMA GetRecordIInv ==
  ASSUME IInv, NEW t \in Tasks, GetRecord(t)
  PROVE  IInv'
<1>1. sid[t] \in Sids /\ held[t] = None /\ content[t] = None
  BY DEF IInv, TypeOK, TaskState, GetRecord
<1>2. TypeOK'
  BY <1>1 DEF IInv, TypeOK, GetRecord, Goto, Labels
<1>3. \A x \in Tasks : TaskState(x)'
  BY <1>1 DEF IInv, TypeOK, TaskState, GetRecord, Goto, Live
<1>4. Provenance'
  BY <1>1
  DEF IInv, TypeOK, Provenance, Genuine, About, Of, GetRecord, Goto
<1> QED
  BY <1>2, <1>3, <1>4 DEF IInv

LEMMA LookupBankIInv ==
  ASSUME IInv, NEW t \in Tasks, LookupBank(t)
  PROVE  IInv'
<1>1. held[t] \in Record /\ bank[held[t].pdf] \in Tasks \cup {None}
  BY DEF IInv, TypeOK, TaskState, Live, LookupBank, Record
<1>2. CASE /\ bank[held[t].pdf] # None
           /\ content' = [content EXCEPT ![t] = bank[held[t].pdf]]
           /\ StartUpdate(t, "complete")
  <2>1. TypeOK'
    BY <1>1, <1>2 DEF IInv, TypeOK, LookupBank, StartUpdate, Labels, Updates
  <2>2. \A x \in Tasks : TaskState(x)'
    BY <1>1, <1>2 DEF IInv, TypeOK, TaskState, LookupBank, StartUpdate, Live
  <2>3. Provenance'
    BY <1>1, <1>2 DEF IInv, TypeOK, TaskState, Live, Record, Provenance, Genuine,
                      About, Of, LookupBank
  <2> QED
    BY <2>1, <2>2, <2>3 DEF IInv
<1>3. ASSUME NEW u \in {"begin", "failed"}, StartUpdate(t, u), UNCHANGED content
      PROVE  IInv'
  <2>1. TypeOK'
    BY <1>3 DEF IInv, TypeOK, LookupBank, StartUpdate, Labels, Updates, Failures
  <2>2. \A x \in Tasks : TaskState(x)'
    BY <1>3 DEF IInv, TypeOK, TaskState, LookupBank, StartUpdate, Live
  <2>3. Provenance'
    BY <1>3 DEF IInv, TypeOK, Provenance, Genuine, About, Of, LookupBank
  <2> QED
    BY <2>1, <2>2, <2>3 DEF IInv
<1> QED
  BY <1>2, <1>3 DEF LookupBank

LEMMA ReadRecordIInv ==
  ASSUME IInv, NEW t \in Tasks, ReadRecord(t)
  PROVE  IInv'
<1>1. TypeOK /\ TaskState(t) /\ pc[t] = "read" /\ sid[t] \in Sids
  BY DEF IInv, TypeOK, TaskState, ReadRecord
<1>2. CASE store[sid[t]] # None
  <2>1. TypeOK'
    BY <1>1, <1>2 DEF IInv, TypeOK, ReadRecord, Labels
  <2>2. \A x \in Tasks : TaskState(x)'
    BY <1>1, <1>2 DEF IInv, TypeOK, TaskState, ReadRecord, Live
  <2>3. Provenance'
    BY <1>1, <1>2 DEF IInv, TypeOK, Provenance, Genuine, About, Of, ReadRecord
  <2> QED
    BY <2>1, <2>2, <2>3 DEF IInv
<1>3. CASE store[sid[t]] = None /\ Resume(t) /\ UNCHANGED snap
  <2>1. TypeOK'
    BY <1>1, <1>3, ResumeEffect DEF IInv, TypeOK, ReadRecord
  <2>2. \A x \in Tasks : TaskState(x)'
    BY <1>1, <1>3, ResumeEffect DEF IInv, TypeOK, TaskState, ReadRecord, Live
  <2>3. Provenance'
    BY <1>1, <1>3, ResumeEffect
    DEF IInv, TypeOK, TaskState, Live, Provenance, Genuine, About, Of, ReadRecord
  <2> QED
    BY <2>1, <2>2, <2>3 DEF IInv
<1> QED
  BY <1>2, <1>3 DEF ReadRecord

LEMMA WriteRecordIInv ==
  ASSUME IInv, NEW t \in Tasks, WriteRecord(t)
  PROVE  IInv'
<1>1. TypeOK /\ TaskState(t) /\ pc[t] = "write" /\ sid[t] \in Sids
  BY DEF IInv, TypeOK, TaskState, WriteRecord
<1>2. Resume(t) /\ snap' = [snap EXCEPT ![t] = None]
  BY DEF WriteRecord
<1>3. TypeOK'
  BY <1>1, <1>2, ResumeEffect, UpdateStatusType DEF IInv, TypeOK, WriteRecord
<1>4. \A x \in Tasks : TaskState(x)'
  BY <1>1, <1>2, ResumeEffect DEF IInv, TypeOK, TaskState, WriteRecord, Live
<1>5. Genuine(UpdateStatus(t), sid[t])
  BY <1>1, UpdateStatusType, ConstantsAssumption
  DEF IInv, TypeOK, TaskState, Live, Provenance, Genuine, About, Of
<1>6. Provenance'
  BY <1>1, <1>2, <1>5, ResumeEffect
  DEF IInv, TypeOK, TaskState, Live, Provenance, Genuine, About, Of, WriteRecord
<1> QED
  BY <1>3, <1>4, <1>6 DEF IInv

LEMMA RestOfTaskIInv ==
  ASSUME IInv, NEW t \in Tasks,
         CallLlm(t) \/ SyncReady(t) \/ SyncFailed(t) \/ SaveToBank(t) \/ TaskDies(t)
  PROVE  IInv'
<1>1. CASE CallLlm(t)
  <2>1. TypeOK'
    BY <1>1 DEF IInv, TypeOK, CallLlm, StartUpdate, Labels, Updates, Stages, Failures
  <2>2. \A x \in Tasks : TaskState(x)'
    BY <1>1 DEF IInv, TypeOK, TaskState, CallLlm, StartUpdate, Live, Stages
  <2>3. Provenance'
    BY <1>1 DEF IInv, Provenance, Genuine, About, Of, CallLlm
  <2> QED
    BY <2>1, <2>2, <2>3 DEF IInv
<1>2. CASE SyncReady(t)
  <2>1. TypeOK'
    BY <1>2 DEF IInv, TypeOK, TaskState, SyncReady, RowMatches, OwnsRow, AfterFinalize,
                RevertComplete, Goto, StartUpdate, Labels, Updates, Failures, Row
  <2>2. \A x \in Tasks : TaskState(x)'
    BY <1>2 DEF IInv, TypeOK, TaskState, SyncReady, AfterFinalize, RevertComplete,
                Goto, StartUpdate, Live
  <2>3. Provenance'
    BY <1>2 DEF IInv, TypeOK, Row, Provenance, Genuine, About, Of, SyncReady,
                RowMatches, OwnsRow
  <2> QED
    BY <2>1, <2>2, <2>3 DEF IInv
<1>3. CASE SyncFailed(t)
  <2>1. TypeOK'
    BY <1>3 DEF IInv, TypeOK, SyncFailed, RowMatches, OwnsRow, Goto, Labels, Row
  <2>2. \A x \in Tasks : TaskState(x)'
    BY <1>3 DEF IInv, TypeOK, TaskState, SyncFailed, Goto, Live
  <2>3. Provenance'
    BY <1>3 DEF IInv, TypeOK, Row, Provenance, Genuine, About, Of, SyncFailed,
                RowMatches, OwnsRow
  <2> QED
    BY <2>1, <2>2, <2>3 DEF IInv
<1>4. CASE SaveToBank(t)
  <2>0. held[t] \in Record /\ held[t] # None /\ sid[t] \in Sids
    BY <1>4 DEF IInv, TypeOK, TaskState, SaveToBank, Live
  <2>1. TypeOK'
    BY <1>4, <2>0 DEF IInv, TypeOK, SaveToBank, Goto, Labels
  <2>2. \A x \in Tasks : TaskState(x)'
    BY <1>4 DEF IInv, TypeOK, TaskState, SaveToBank, Goto, Live
  <2>3. Provenance'
    BY <1>4, <2>0 DEF IInv, TypeOK, Provenance, Genuine, About, Of, SaveToBank
  <2> QED
    BY <2>1, <2>2, <2>3 DEF IInv
<1>5. CASE TaskDies(t)
  <2>1. TypeOK'
    BY <1>5 DEF IInv, TypeOK, TaskDies, Goto, Labels
  <2>2. \A x \in Tasks : TaskState(x)'
    BY <1>5 DEF IInv, TypeOK, TaskState, TaskDies, Goto, Live, Stages
  <2>3. Provenance'
    BY <1>5 DEF IInv, TypeOK, Provenance, Genuine, About, Of, TaskDies
  <2> QED
    BY <2>1, <2>2, <2>3 DEF IInv
<1> QED
  BY <1>1, <1>2, <1>3, <1>4, <1>5

LEMMA TaskIInv ==
  ASSUME IInv, NEW t \in Tasks, TaskStep(t) \/ TaskDies(t)
  PROVE  IInv'
BY GetRecordIInv, LookupBankIInv, ReadRecordIInv, WriteRecordIInv, RestOfTaskIInv
DEF TaskStep

\* Every step of a request keeps the invariant.  These leave the tasks alone.
LEMMA TasksAlone ==
  ASSUME IInv, UNCHANGED taskVars
  PROVE  \A x \in Tasks : TaskState(x)'
BY DEF IInv, TaskState, taskVars, Live

LEMMA UploadIInv ==
  ASSUME IInv, NEW c \in Clients, NEW u \in Owners, NEW p \in Pdfs, Upload(c, u, p)
  PROVE  IInv'
<1>1. PICK s \in Sids :
        /\ Begin(c, "save", u, s, p)
        /\ \/ /\ IsRowOf(s, u, p)
              /\ row' = [row EXCEPT ![s].status = KeptStatus(@)]
              /\ UNCHANGED origin
           \/ /\ origin[s] = None
              /\ origin' = [origin EXCEPT ![s] = [user |-> u, pdf |-> p]]
              /\ \/ /\ u # Guest
                    /\ row' = [row EXCEPT ![s] = [user |-> u, pdf |-> p,
                                                  status |-> "pending"]]
                 \/ UNCHANGED row
  BY DEF Upload
<1>2. UNCHANGED <<store, bank, pc, sid, held, content, upd, snap>>
  BY DEF Upload, taskVars
<1>3. TypeOK'
  <2>1. rq' \in [Clients -> Request]
    BY <1>1, <1>2 DEF IInv, TypeOK, Begin, Request
  <2>2. row' \in [Sids -> Row \cup {None}]
    BY <1>1 DEF IInv, TypeOK, Row, IsRowOf, OwnsRow, KeptStatus, Owners
  <2>3. origin' \in [Sids -> [user : Owners, pdf : Pdfs] \cup {None}]
    BY <1>1 DEF IInv, TypeOK
  <2> QED
    BY <1>2, <2>1, <2>2, <2>3 DEF IInv, TypeOK
<1>4. \A x \in Tasks : TaskState(x)'
  BY TasksAlone DEF Upload
<1>5. \A r \in Sids : origin[r] # None => origin'[r] = origin[r]
  BY <1>1 DEF IInv, TypeOK
<1>6. origin'[s] # None /\ origin'[s].user = u /\ origin'[s].pdf = p
  <2>1. CASE IsRowOf(s, u, p) /\ UNCHANGED origin
    BY <2>1 DEF IInv, Provenance, Of, IsRowOf, OwnsRow
  <2>2. CASE origin' = [origin EXCEPT ![s] = [user |-> u, pdf |-> p]]
    <3>1. [user |-> u, pdf |-> p] \in [user : Users \cup {Guest}, pdf : Pdfs]
      BY DEF Owners
    <3> QED
      BY <2>2, <3>1, ConstantsAssumption DEF IInv, TypeOK
  <2> QED
    BY <1>1, <2>1, <2>2
<1>7. Provenance'
  <2>1. \A r \in Sids : Genuine(store[r], r)'
    BY <1>2, <1>5 DEF IInv, Provenance, Genuine, About, Of
  <2>2. \A r \in Sids : row'[r] # None => Of(row[r], r)'
    BY <1>1, <1>5, <1>6 DEF IInv, TypeOK, Row, Provenance, Of, IsRowOf, OwnsRow
  <2>3. \A x \in Tasks : Genuine(held[x], sid[x])' /\ Genuine(snap[x], sid[x])'
    BY <1>2, <1>5 DEF IInv, TypeOK, TaskState, Live, Provenance, Genuine, About, Of
  <2>4. \A d \in Clients :
          /\ rq'[d].op \in {"save", "drop", "row", "bank"} => rq'[d].sid \in Sids
          /\ rq'[d].op \in {"save", "bank"} => Of(rq[d], rq[d].sid)'
    <3> SUFFICES ASSUME NEW d \in Clients
                 PROVE  /\ rq'[d].op \in {"save", "drop", "row", "bank"}
                             => rq'[d].sid \in Sids
                        /\ rq'[d].op \in {"save", "bank"} => Of(rq[d], rq[d].sid)'
      OBVIOUS
    <3>1. CASE d = c
      BY <1>1, <1>6, <3>1 DEF IInv, TypeOK, Of, Begin
    <3>2. CASE d # c
      BY <1>1, <1>5, <3>2 DEF IInv, TypeOK, Provenance, Of, Begin
    <3> QED
      BY <3>1, <3>2
  <2> QED
    BY <1>2, <2>1, <2>2, <2>3, <2>4 DEF IInv, Provenance, About
<1> QED
  BY <1>3, <1>4, <1>7 DEF IInv

LEMMA SaveUploadIInv ==
  ASSUME IInv, NEW c \in Clients, SaveUpload(c)
  PROVE  IInv'
<1> DEFINE new == FreshRecord(rq[c].user, rq[c].pdf)
<1>1. rq[c].sid \in Sids /\ Of(rq[c], rq[c].sid)
  BY DEF IInv, Provenance, SaveUpload
<1>2. new \in Record /\ new.user = rq[c].user /\ new.pdf = rq[c].pdf /\ new.result = Doc
  BY <1>1 DEF IInv, TypeOK, Of, FreshRecord, Record
<1> HIDE DEF new
<1>3. store' = [store EXCEPT ![rq[c].sid] = new]
  BY DEF SaveUpload, new
<1>4. /\ rq' = [rq EXCEPT ![c] = NoRequest]
      /\ UNCHANGED <<row, bank, origin, pc, sid, held, content, upd, snap>>
  BY DEF SaveUpload, End, taskVars
<1>5. TypeOK'
  BY <1>1, <1>2, <1>3, <1>4 DEF IInv, TypeOK, NoRequest, Request
<1>6. \A x \in Tasks : TaskState(x)'
  BY TasksAlone DEF SaveUpload
<1>7. Genuine(new, rq[c].sid)
  BY <1>1, <1>2, ConstantsAssumption DEF Genuine, Of, About
<1>8. Provenance'
  BY <1>1, <1>3, <1>4, <1>7
  DEF IInv, TypeOK, Provenance, Genuine, About, Of, NoRequest
<1> QED
  BY <1>5, <1>6, <1>8 DEF IInv

\* A request that only moves on, or ends, keeps the invariant.
LEMMA RequestMoves ==
  ASSUME IInv, NEW c \in Clients, NEW r \in Request,
         rq' = [rq EXCEPT ![c] = r],
         r.op \in {"save", "drop", "row", "bank"} => r.sid \in Sids,
         r.op \in {"save", "bank"} => Of(r, r.sid),
         UNCHANGED <<bank, origin, taskVars>>,
         row' \in [Sids -> Row \cup {None}],
         \A s \in Sids : row'[s] # None => Of(row'[s], s),
         store' \in [Sids -> Record \cup {None}],
         \A s \in Sids : store'[s] \in {store[s], None}
  PROVE  IInv'
<1>1. UNCHANGED <<pc, sid, held, content, upd, snap>>
  BY DEF taskVars
<1>2. TypeOK'
  BY <1>1 DEF IInv, TypeOK
<1>3. \A x \in Tasks : TaskState(x)'
  BY TasksAlone
<1>4. Provenance'
  BY <1>1 DEF IInv, TypeOK, Provenance, Genuine, About, Of
<1> QED
  BY <1>2, <1>3, <1>4 DEF IInv

LEMMA RequestIInv ==
  ASSUME IInv, NEW c \in Clients, RequestStep(c)
  PROVE  IInv'
<1> USE DEF IInv
<1>1. ASSUME NEW u \in Owners, NEW p \in Pdfs, Upload(c, u, p)  PROVE IInv'
  BY <1>1, UploadIInv
<1>2. CASE SaveUpload(c)
  BY <1>2, SaveUploadIInv
<1>3. /\ \A s \in Sids : row[s] # None => row[s] \in Row /\ Of(row[s], s)
      /\ \A s \in Sids : store[s] \in Record \cup {None}
      /\ row \in [Sids -> Row \cup {None}] /\ store \in [Sids -> Record \cup {None}]
      /\ rq \in [Clients -> Request] /\ NoRequest \in Request
  BY DEF TypeOK, Provenance, NoRequest, Request
<1>4. ASSUME rq' = [rq EXCEPT ![c] = NoRequest], UNCHANGED <<bank, origin, taskVars>>,
             UNCHANGED <<store, row>>
      PROVE  IInv'
  BY <1>3, <1>4, RequestMoves DEF NoRequest
<1>5. ASSUME NEW u \in Owners, NEW s \in Sids, FallBack(c, u, s) \/ DeleteSession(c, u, s)
      PROVE  IInv'
  <2>1. PICK o \in {"row", "drop"} :
          rq' = [rq EXCEPT ![c] = [op |-> o, user |-> u, sid |-> s, pdf |-> None,
                                   ids |-> {}]]
    BY <1>5 DEF FallBack, DeleteSession, Begin
  <2>2. [op |-> o, user |-> u, sid |-> s, pdf |-> None, ids |-> {}] \in Request
    BY DEF Request
  <2>3. UNCHANGED <<store, row, bank, origin, taskVars>>
    BY <1>5 DEF FallBack, DeleteSession
  <2> QED
    BY <1>3, <2>1, <2>2, <2>3, RequestMoves
<1>6. ASSUME NEW u \in Users, NEW s \in Sids, DeleteUserSession(c, u, s)
      PROVE  IInv'
  <2>1. [op |-> "drop", user |-> u, sid |-> s, pdf |-> None, ids |-> {}] \in Request
    BY DEF Request, Owners
  <2>2. row' = [row EXCEPT ![s] = None] /\ UNCHANGED <<store, bank, origin, taskVars>>
    BY <1>6 DEF DeleteUserSession
  <2> QED
    BY <1>3, <1>6, <2>1, <2>2, RequestMoves DEF DeleteUserSession, Begin
<1>7. ASSUME NEW u \in Users, ListSessions(c, u)
      PROVE  IInv'
  <2> DEFINE ids == {<<s, row[s].pdf>> :
                       s \in {s \in Sids : OwnsRow(u, s) /\ row[s].status = "pending"}}
  <2>1. ids \in SUBSET (Sids \X Pdfs)
    BY <1>3 DEF OwnsRow, Row
  <2>2. [op |-> "heal", user |-> u, sid |-> None, pdf |-> None, ids |-> ids] \in Request
    BY <2>1 DEF Request, Owners
  <2> HIDE DEF ids
  <2>3. /\ rq' = [rq EXCEPT ![c] = [op |-> "heal", user |-> u, sid |-> None,
                                    pdf |-> None, ids |-> ids]]
        /\ UNCHANGED <<store, row, bank, origin, taskVars>>
    BY <1>7 DEF ListSessions, ids
  <2> QED
    BY <1>3, <2>2, <2>3, RequestMoves
<1>8. CASE LoadRow(c)
  <2> DEFINE s == rq[c].sid
  <2> DEFINE r == [op |-> "bank", user |-> rq[c].user, sid |-> s,
                   pdf |-> row[s].pdf, ids |-> {}]
  <2>1. s \in Sids /\ rq[c].user \in Owners \cup {None}
    BY <1>3, <1>8 DEF LoadRow, Provenance, Request
  <2>2. CASE OwnsRow(rq[c].user, s) /\ rq' = [rq EXCEPT ![c] = r]
    <3>1. r \in Request /\ r.op = "bank" /\ r.sid = s /\ Of(r, s)
      BY <1>3, <2>1, <2>2 DEF Request, OwnsRow, Row, Of
    <3> HIDE DEF r
    <3> QED
      BY <1>3, <1>8, <2>1, <2>2, <3>1, RequestMoves DEF LoadRow
  <2> QED
    BY <1>4, <1>8, <2>2 DEF LoadRow, Begin, End
<1>9. CASE LoadBank(c) \/ StoreError(c)
  BY <1>4, <1>9 DEF LoadBank, StoreError, End
<1>10. CASE DropRecord(c)
  <2>1. /\ rq' = [rq EXCEPT ![c] = NoRequest] /\ UNCHANGED <<bank, origin, taskVars, row>>
        /\ store' = [store EXCEPT ![rq[c].sid] = None]
    BY <1>10 DEF DropRecord, End
  <2> QED
    BY <1>3, <2>1, RequestMoves DEF NoRequest
<1>11. CASE MatchBank(c)
  <2> DEFINE r == [rq[c] EXCEPT !.op = "promote", !.ids = Healable(rq[c].ids)]
  <2>1. r \in Request /\ r.op = "promote"
    BY <1>3 DEF Request, Healable
  <2> HIDE DEF r
  <2>2. UNCHANGED <<store, row, bank, origin, taskVars>>
    BY <1>11 DEF MatchBank
  <2>3. CASE rq' = [rq EXCEPT ![c] = r]
    BY <1>3, <2>1, <2>2, <2>3, RequestMoves
  <2>4. CASE rq' = [rq EXCEPT ![c] = NoRequest]
    BY <1>4, <2>2, <2>4
  <2>5. rq[c] \in Request
    BY <1>3
  <2> QED
    BY <1>3, <1>11, <2>3, <2>4, <2>5 DEF MatchBank, End, r, Request
<1>12. CASE PromoteRows(c)
  <2>1. /\ rq' = [rq EXCEPT ![c] = NoRequest] /\ UNCHANGED <<store, bank, origin, taskVars>>
        /\ \/ row' = [s \in Sids |->
                        IF OwnsRow(rq[c].user, s) /\ \E i \in rq[c].ids : i[1] = s
                        THEN [row[s] EXCEPT !.status = "ready"] ELSE row[s]]
           \/ row' = row
    BY <1>12 DEF PromoteRows, End
  <2>2. row' \in [Sids -> Row \cup {None}] /\ \A s \in Sids : row'[s] # None => Of(row'[s], s)
    BY <1>3, <2>1 DEF OwnsRow, Row, Of
  <2> QED
    BY <1>3, <2>1, <2>2, RequestMoves DEF NoRequest
<1> QED
  BY <1>1, <1>2, <1>5, <1>6, <1>7, <1>8, <1>9, <1>10, <1>11, <1>12 DEF RequestStep

\* Every step keeps the invariant.
LEMMA NextIInv == IInv /\ [Next]_vars => IInv'
<1> SUFFICES ASSUME IInv, [Next]_vars PROVE IInv'
  OBVIOUS
<1>1. ASSUME NEW t \in Tasks, TaskStep(t) \/ TaskDies(t)  PROVE IInv'
  BY <1>1, TaskIInv
<1>2. ASSUME NEW c \in Clients, RequestStep(c)  PROVE IInv'
  BY <1>2, RequestIInv
<1>3. ASSUME NEW u \in Owners, NEW s \in Sids, Generate(u, s)  PROVE IInv'
  <2>1. TypeOK'
    BY <1>3 DEF IInv, TypeOK, Generate, Goto, Labels
  <2>2. \A x \in Tasks : TaskState(x)'
    BY <1>3, ConstantsAssumption DEF IInv, TypeOK, TaskState, Generate, Goto, Live
  <2>3. Provenance'
    BY <1>3 DEF IInv, TypeOK, TaskState, Provenance, Genuine, About, Of, Generate, Goto
  <2> QED
    BY <2>1, <2>2, <2>3 DEF IInv
<1>4. ASSUME NEW s \in Sids, LoseRecord(s)  PROVE IInv'
  BY <1>4, TasksAlone
  DEF IInv, TypeOK, Provenance, Genuine, About, Of, LoseRecord, taskVars
<1>5. CASE Crash
  <2>1. TypeOK'
    BY <1>5 DEF IInv, TypeOK, Crash, Labels, NoRequest, Request
  <2>2. \A x \in Tasks : TaskState(x)'
    BY <1>5 DEF IInv, TypeOK, TaskState, Crash, Live
  <2>3. Provenance'
    BY <1>5 DEF IInv, TypeOK, Provenance, Genuine, About, Of, Crash, NoRequest
  <2> QED
    BY <2>1, <2>2, <2>3 DEF IInv
<1>6. CASE UNCHANGED vars
  BY <1>6 DEF IInv, TypeOK, TaskState, Provenance, Genuine, About, Of, Live, vars, taskVars
<1> QED
  BY <1>1, <1>2, <1>3, <1>4, <1>5, <1>6 DEF Next

\* The inductive invariant holds in every reachable state.
THEOREM Invariance == Spec => []IInv
BY InitIInv, NextIInv, PTL DEF Spec

\* Type correctness of the store, the tables, the tasks and the requests.
THEOREM TypeCorrect == Spec => []TypeOK
<1>1. IInv => TypeOK
  BY DEF IInv
<1> QED
  BY Invariance, <1>1, PTL

\* No caller is ever served content of a document that is not the one they
\* uploaded under that session, whatever interleaves and whatever fails.
THEOREM OwnDocumentServed == Spec => []ServesOwnDocument
<1>1. IInv => ServesOwnDocument
  BY ConstantsAssumption
  DEF IInv, TypeOK, Provenance, Genuine, About, Of, ServesOwnDocument, ResultCode,
      CheckOwnership, Record
<1> QED
  BY Invariance, <1>1, PTL

\* A step leaves a row's user and document, and its outcome once it has one.
LEMMA RowKept ==
  ASSUME IInv, Next, NEW s \in Sids, row[s] # None, row'[s] # None
  PROVE  /\ row'[s].user = row[s].user /\ row'[s].pdf = row[s].pdf
         /\ row[s].status # "pending" => row'[s].status # "pending"
<1>1. row \in [Sids -> Row \cup {None}] /\ row[s] \in Row /\ origin[s] # None
  BY DEF IInv, TypeOK, Provenance, Of
<1> SUFFICES ASSUME row'[s] # row[s]
             PROVE  /\ row'[s].user = row[s].user /\ row'[s].pdf = row[s].pdf
                    /\ row[s].status # "pending" => row'[s].status # "pending"
  OBVIOUS
<1>2. ASSUME NEW t \in Tasks, SyncReady(t) \/ SyncFailed(t)
      PROVE  row'[s] \in {[row[s] EXCEPT !.status = "ready"],
                          [row[s] EXCEPT !.status = "failed"]}
  BY <1>1, <1>2 DEF SyncReady, SyncFailed
<1>3. ASSUME NEW c \in Clients, NEW u \in Owners, NEW p \in Pdfs, Upload(c, u, p)
      PROVE  row'[s] = [row[s] EXCEPT !.status = KeptStatus(row[s].status)]
  BY <1>1, <1>3 DEF Upload
<1>4. ASSUME NEW c \in Clients, PromoteRows(c)
      PROVE  row'[s] = [row[s] EXCEPT !.status = "ready"]
  BY <1>1, <1>4 DEF PromoteRows
<1>5. ASSUME NEW c \in Clients, NEW u \in Users, NEW r \in Sids, DeleteUserSession(c, u, r)
      PROVE  FALSE
  BY <1>1, <1>5 DEF DeleteUserSession
<1>6. \/ \E t \in Tasks : SyncReady(t) \/ SyncFailed(t)
      \/ \E c \in Clients, u \in Owners, p \in Pdfs : Upload(c, u, p)
      \/ \E c \in Clients : PromoteRows(c)
      \/ \E c \in Clients, u \in Users, r \in Sids : DeleteUserSession(c, u, r)
  BY DEF Next, TaskStep, RequestStep, GetRecord, LookupBank, ReadRecord, WriteRecord,
         CallLlm, SaveToBank, TaskDies, FallBack, DeleteSession, ListSessions,
         SaveUpload, LoadRow, LoadBank, DropRecord, MatchBank, StoreError, Generate,
         LoseRecord, Crash
<1>7. CASE row'[s] \in {[row[s] EXCEPT !.status = "ready"],
                        [row[s] EXCEPT !.status = "failed"]}
  BY <1>1, <1>7 DEF Row
<1>8. CASE row'[s] = [row[s] EXCEPT !.status = KeptStatus(row[s].status)]
  BY <1>1, <1>8 DEF Row, KeptStatus
<1> QED
  BY <1>2, <1>3, <1>4, <1>5, <1>6, <1>7, <1>8

\* No step takes a row that is ready or failed back to pending, or gives it to
\* another user or document.
THEOREM OutcomesKept == Spec => RowsKeepOutcome
<1>1. IInv /\ [Next]_vars
        => [\A s \in Sids : (row[s] # None /\ row'[s] # None) =>
              /\ row'[s].user = row[s].user /\ row'[s].pdf = row[s].pdf
              /\ row[s].status # "pending" => row'[s].status # "pending"]_vars
  BY RowKept
<1> QED
  BY Invariance, <1>1, PTL DEF Spec, RowsKeepOutcome

\* Unless an uncaught exception or a restart ends a task, a record that says
\* processing has a task that will write its outcome.
THEOREM ProcessingIsAttended ==
  ASSUME Faults \cap {"redis", "bug", "crash"} = {}
  PROVE  Spec => []ProcessingHasTask
<1>1. Init => ProcessingHasTask
  BY DEF Init, ProcessingHasTask
<1>2. IInv /\ ProcessingHasTask /\ [Next]_vars => ProcessingHasTask'
  <2> SUFFICES ASSUME IInv, ProcessingHasTask, [Next]_vars,
                      NEW s \in Sids, store'[s] # None, store'[s].status = "processing"
               PROVE  \E t \in Tasks :
                        sid'[t] = s /\ pc'[t] \in Stages \cup {"read", "write"}
    BY DEF ProcessingHasTask
  <2> DEFINE Attends(t) == sid[t] = s /\ pc[t] \in Stages \cup {"read", "write"}
  <2>1. /\ store \in [Sids -> Record \cup {None}] /\ sid \in [Tasks -> Sids \cup {None}]
        /\ pc \in [Tasks -> Labels]
    BY DEF IInv, TypeOK
  <2>2. store[s] = store'[s] => \E t \in Tasks : Attends(t)
    BY DEF ProcessingHasTask
  <2>3. ASSUME UNCHANGED <<pc, sid>>, store[s] = store'[s]
        PROVE  \E t \in Tasks : Attends(t)'
    BY <2>2, <2>3
  <2>4. ASSUME NEW x \in Tasks, ~Attends(x) \/ Attends(x)', store[s] = store'[s],
               \A y \in Tasks \ {x} : pc'[y] = pc[y] /\ sid'[y] = sid[y]
        PROVE  \E t \in Tasks : Attends(t)'
    BY <2>2, <2>4
  <2>5. ASSUME NEW x \in Tasks, ReadRecord(x)
        PROVE  \E t \in Tasks : Attends(t)'
    <3>1. UNCHANGED <<store, sid>>
      BY <2>5 DEF ReadRecord
    <3>2. CASE store[sid[x]] # None
      BY <2>1, <2>4, <2>5, <3>1, <3>2 DEF ReadRecord
    <3>3. CASE store[sid[x]] = None /\ Resume(x)
      <4>1. ~Attends(x)
        BY <3>1, <3>3
      <4>2. \A y \in Tasks \ {x} : pc'[y] = pc[y]
        BY <2>5, <3>3, ResumeEffect DEF IInv, ReadRecord
      <4> QED
        BY <2>4, <3>1, <4>1, <4>2
    <3> QED
      BY <2>5, <3>2, <3>3 DEF ReadRecord
  <2>6. ASSUME NEW x \in Tasks, WriteRecord(x)
        PROVE  \E t \in Tasks : Attends(t)'
    <3>1. UNCHANGED sid /\ Resume(x) /\ store' = [store EXCEPT ![sid[x]] = UpdateStatus(x)]
      BY <2>6 DEF WriteRecord
    <3>2. TypeOK /\ TaskState(x) /\ pc[x] = "write" /\ sid[x] \in Sids
      BY <2>6 DEF IInv, TypeOK, TaskState, WriteRecord
    <3>3. CASE sid[x] # s
      <4>1. \A y \in Tasks \ {x} : pc'[y] = pc[y]
        BY <3>1, <3>2, ResumeEffect
      <4> QED
        BY <2>1, <2>4, <3>1, <3>3, <4>1
    <3>4. CASE sid[x] = s
      <4>1. UpdateStatus(x).status = "processing"
        BY <2>1, <3>1, <3>4
      <4>2. upd[x] \in Updates
        BY <3>2 DEF TypeOK, TaskState
      <4>3. UpdateStatus(x).status = CASE upd[x] \in Failures -> "failed"
                                       [] upd[x] = "complete" -> "complete"
                                       [] OTHER -> "processing"
        <5>1. snap[x] \in Record
          BY <3>2 DEF TypeOK, TaskState
        <5> QED
          BY <5>1 DEF UpdateStatus, Updated, Record
      <4>4. upd[x] \in {"begin", "prompted"} \cup Stages
        BY <4>1, <4>2, <4>3 DEF Updates, Failures
      <4>5. pc'[x] \in Stages \cup {"read", "write"}
        BY <2>1, <3>1, <4>4 DEF Resume, StartUpdate, Goto, Stages
      <4> QED
        BY <3>1, <3>4, <4>5
    <3> QED
      BY <3>3, <3>4
  <2>7. ASSUME NEW x \in Tasks, GetRecord(x) \/ LookupBank(x) \/ CallLlm(x)
                 \/ SyncReady(x) \/ SyncFailed(x) \/ SaveToBank(x)
        PROVE  \E t \in Tasks : Attends(t)'
    <3>1. UNCHANGED <<store, sid>> /\ (~Attends(x) \/ Attends(x)')
      BY <2>1, <2>7 DEF GetRecord, LookupBank, CallLlm, SyncReady, SyncFailed,
                        SaveToBank, StartUpdate, Goto, Stages
    <3>2. \A y \in Tasks \ {x} : pc'[y] = pc[y]
      BY <2>1, <2>7 DEF GetRecord, LookupBank, CallLlm, SyncReady, SyncFailed,
             SaveToBank, StartUpdate, Goto, AfterFinalize, RevertComplete
    <3> QED
      BY <2>4, <3>1, <3>2
  <2>8. ASSUME NEW u \in Owners, NEW r \in Sids, Generate(u, r)
        PROVE  \E t \in Tasks : Attends(t)'
    <3>1. PICK x \in Tasks : /\ pc[x] = "idle" /\ Goto(x, "start")
                             /\ sid' = [sid EXCEPT ![x] = r]
      BY <2>8 DEF Generate
    <3>2. ~Attends(x) /\ store' = store
      BY <2>8, <3>1 DEF Generate, Stages
    <3>3. \A y \in Tasks \ {x} : pc'[y] = pc[y] /\ sid'[y] = sid[y]
      BY <2>1, <3>1 DEF Goto
    <3> QED
      BY <2>4, <3>2, <3>3
  <2>9. ASSUME NEW c \in Clients, RequestStep(c)
        PROVE  \E t \in Tasks : Attends(t)'
    <3>1. UNCHANGED <<pc, sid>>
      BY <2>9 DEF RequestStep, Upload, FallBack, DeleteSession, DeleteUserSession,
           ListSessions, SaveUpload, LoadRow, LoadBank, DropRecord, MatchBank,
           PromoteRows, StoreError, taskVars
    <3>2. CASE SaveUpload(c) \/ DropRecord(c)
      BY <2>1, <2>3, <3>1, <3>2 DEF SaveUpload, DropRecord, FreshRecord
    <3>3. CASE store' = store
      BY <2>3, <3>1, <3>3
    <3> QED
      BY <2>9, <3>2, <3>3 DEF RequestStep, Upload, FallBack, DeleteSession,
           DeleteUserSession, ListSessions, LoadRow, LoadBank, MatchBank,
           PromoteRows, StoreError
  <2>10. ASSUME NEW r \in Sids, LoseRecord(r)
         PROVE  \E t \in Tasks : Attends(t)'
    BY <2>1, <2>3, <2>10 DEF LoseRecord, taskVars
  <2>11. CASE UNCHANGED vars
    BY <2>3, <2>11 DEF vars, taskVars
  <2>12. ASSUME NEW x \in Tasks, TaskDies(x) \/ Crash
         PROVE  FALSE
    BY <2>12 DEF TaskDies, Crash
  <2>13. ~Crash
    BY DEF Crash
  <2> QED
    BY <2>5, <2>6, <2>7, <2>8, <2>9, <2>10, <2>11, <2>12, <2>13 DEF Next, TaskStep
<1> QED
  BY Invariance, <1>1, <1>2, PTL DEF Spec
=============================================================================
