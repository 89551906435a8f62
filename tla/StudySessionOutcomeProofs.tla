---------------------- MODULE StudySessionOutcomeProofs ----------------------
(***************************************************************************)
(* Theorems about the outcomes of a generation: what is behind a row that  *)
(* says ready, and whether record and row agree once the task is over.     *)
(***************************************************************************)
EXTENDS StudySessionProofs

\* Content for document p has been generated.
Generated(p) == \E t \in Tasks : content[t] = t /\ held[t].pdf = p

\* A self-heal under way names each row with the document behind its id, and
\* has found in the bank what it is about to promote.
HealInv ==
  \A c \in Clients : \A i \in rq[c].ids :
    /\ origin[i[1]] # None /\ i[2] = origin[i[1]].pdf
    /\ rq[c].op = "promote" => bank[i[2]] # None

\* Whatever content is banked or published was generated by the task it is
\* named after, and a task looks into the bank before it has content.
SourceInv ==
  /\ \A p \in Pdfs : bank[p] # None => content[bank[p]] = bank[p]
  /\ \A t \in Tasks :
       /\ pc[t] = "lookup" => content[t] = None
       /\ content[t] # None => held[t] # None /\ content[content[t]] = content[t]
  /\ HealInv
  /\ ReadyWasGenerated

-----------------------------------------------------------------------------
(* What a step can do to the tasks, to the history and the bank, and to a  *)
(* row.                                                                    *)

\* A task gets its record once, and its content from the bank or itself.
LEMMA TaskEffect ==
  ASSUME IInv, [Next]_vars, NEW x \in Tasks
  PROVE  /\ \/ content'[x] = content[x]
            \/ content'[x] = x /\ pc[x] \in {"read", "write"}
            \/ /\ pc[x] = "lookup" /\ bank[held[x].pdf] # None
               /\ content'[x] = bank[held[x].pdf]
               /\ pc'[x] # "lookup"
         /\ held'[x] = held[x] \/ (pc[x] = "start" /\ content'[x] = content[x])
         /\ pc'[x] = "lookup" => pc[x] \in {"start", "lookup"}
<1>0. /\ TypeOK /\ TaskState(x)
      /\ pc \in [Tasks -> Labels] /\ content \in [Tasks -> Tasks \cup {None}]
      /\ held \in [Tasks -> Record \cup {None}]
  BY DEF IInv, TypeOK
<1>1. ASSUME NEW t \in Tasks, GetRecord(t)
      PROVE  /\ content' = content /\ (x # t => pc'[x] = pc[x])
             /\ held'[x] = held[x] \/ pc[x] = "start"
             /\ pc[t] = "start"
  BY <1>0, <1>1 DEF GetRecord, Goto
<1>2. ASSUME NEW t \in Tasks, LookupBank(t)
      PROVE  /\ held' = held /\ (x # t => pc'[x] = pc[x] /\ content'[x] = content[x])
             /\ pc[t] = "lookup" /\ pc'[t] = "read"
             /\ \/ content'[t] = content[t]
                \/ bank[held[t].pdf] # None /\ content'[t] = bank[held[t].pdf]
  BY <1>0, <1>2 DEF LookupBank, StartUpdate
<1>3. ASSUME NEW t \in Tasks, ReadRecord(t) \/ WriteRecord(t)
      PROVE  /\ held' = held /\ (x # t => pc'[x] = pc[x] /\ content'[x] = content[x])
             /\ pc[t] \in {"read", "write"} /\ pc'[t] # "lookup"
             /\ content'[t] \in {content[t], t}
  <2>1. CASE Resume(t)
    BY <1>0, <1>3, <2>1, ResumeEffect DEF IInv, ReadRecord, WriteRecord
  <2>2. CASE UNCHANGED content /\ pc' = [pc EXCEPT ![t] = "write"]
    BY <1>0, <1>3, <2>2 DEF ReadRecord, WriteRecord
  <2> QED  BY <1>3, <2>1, <2>2 DEF ReadRecord, WriteRecord
<1>4. ASSUME NEW t \in Tasks,
             CallLlm(t) \/ SyncReady(t) \/ SyncFailed(t) \/ SaveToBank(t) \/ TaskDies(t)
      PROVE  /\ held' = held /\ content' = content
             /\ pc'[x] = "lookup" => pc[x] = "lookup"
  BY <1>0, <1>4 DEF CallLlm, SyncReady, SyncFailed, SaveToBank, TaskDies, StartUpdate,
                    Goto, AfterFinalize, RevertComplete
<1>5. ASSUME NEW u \in Owners, NEW s \in Sids, Generate(u, s)
      PROVE  /\ held' = held /\ content' = content
             /\ pc'[x] = "lookup" => pc[x] = "lookup"
  BY <1>0, <1>5 DEF Generate, Goto
<1>6. CASE Crash
  BY <1>0, <1>6 DEF Crash
<1>7. CASE UNCHANGED taskVars
  BY <1>7 DEF taskVars
<1>8. ASSUME NEW c \in Clients, RequestStep(c)
      PROVE  UNCHANGED taskVars
  BY <1>8 DEF RequestStep, Upload, FallBack, DeleteSession, DeleteUserSession,
       ListSessions, SaveUpload, LoadRow, LoadBank, DropRecord, MatchBank,
       PromoteRows, StoreError
<1>9. UNCHANGED vars \/ (\E s \in Sids : LoseRecord(s)) => UNCHANGED taskVars
  BY DEF vars, LoseRecord
<1> QED
  BY <1>1, <1>2, <1>3, <1>4, <1>5, <1>6, <1>7, <1>8, <1>9 DEF Next, TaskStep

\* An id keeps its upload, and the bank keeps its first content.
LEMMA Lasting ==
  ASSUME IInv, [Next]_vars
  PROVE  /\ \A s \in Sids : origin[s] # None => origin'[s] = origin[s]
         /\ \A p \in Pdfs : bank[p] # None => bank'[p] = bank[p]
         /\ \A p \in Pdfs : bank'[p] # bank[p] => content[bank'[p]] = bank'[p]
<1>0. /\ origin \in [Sids -> [user : Owners, pdf : Pdfs] \cup {None}]
      /\ bank \in [Pdfs -> Tasks \cup {None}]
  BY DEF IInv, TypeOK
<1>1. ASSUME NEW t \in Tasks, SaveToBank(t)
      PROVE  /\ \A p \in Pdfs : \/ bank'[p] = bank[p]
                                \/ bank[p] = None /\ bank'[p] = t
             /\ content[t] = t /\ origin' = origin
  BY <1>0, <1>1 DEF SaveToBank, IInv, TaskState
<1>2. ASSUME NEW c \in Clients, NEW u \in Owners, NEW p \in Pdfs, Upload(c, u, p)
      PROVE  /\ \A s \in Sids : origin[s] # None => origin'[s] = origin[s]
             /\ bank' = bank
  BY <1>0, <1>2 DEF Upload
<1>3. \/ UNCHANGED <<origin, bank>>
      \/ \E t \in Tasks : SaveToBank(t)
      \/ \E c \in Clients, u \in Owners, p \in Pdfs : Upload(c, u, p)
  BY DEF Next, TaskStep, RequestStep, GetRecord, LookupBank, ReadRecord, WriteRecord,
         CallLlm, SyncReady, SyncFailed, TaskDies, FallBack, DeleteSession,
         DeleteUserSession, ListSessions, SaveUpload, LoadRow, LoadBank, DropRecord,
         MatchBank, PromoteRows, StoreError, Generate, LoseRecord, Crash, vars
<1> QED  BY <1>1, <1>2, <1>3

\* A row becomes ready by its task's sync or by a self-heal.
LEMMA RowEffect ==
  ASSUME IInv, HealInv, [Next]_vars,
         NEW s \in Sids, row'[s] # None, row'[s].status = "ready"
  PROVE  \/ /\ row[s] # None /\ row[s].status = "ready"
            /\ row'[s].pdf = row[s].pdf
         \/ \E t \in Tasks : /\ pc[t] = "ready" /\ held[t].pdf = row'[s].pdf
                             /\ AfterFinalize(t) /\ UNCHANGED content
         \/ bank[row'[s].pdf] # None /\ bank' = bank
<1>0. /\ row \in [Sids -> Row \cup {None}] /\ sid \in [Tasks -> Sids \cup {None}]
      /\ row[s] # None => row[s] \in Row /\ Of(row[s], s)
  BY DEF IInv, TypeOK, Provenance
<1>1. ASSUME NEW t \in Tasks, SyncReady(t), row'[s] # row[s]
      PROVE  /\ pc[t] = "ready" /\ held[t].pdf = row'[s].pdf
             /\ AfterFinalize(t) /\ UNCHANGED content
  <2>1. /\ RowMatches(t) /\ sid[t] = s /\ pc[t] = "ready"
        /\ row' = [row EXCEPT ![sid[t]].status = "ready"]
        /\ AfterFinalize(t) /\ UNCHANGED content
    BY <1>0, <1>1 DEF SyncReady
  <2>2. row[s] # None /\ row'[s].pdf = row[s].pdf
    BY <1>0, <2>1 DEF RowMatches, OwnsRow, Row
  <2>3. held[t] # None /\ Genuine(held[t], s)
    BY <2>1 DEF IInv, TaskState, Live, Provenance
  <2> QED  BY <1>0, <2>1, <2>2, <2>3 DEF Genuine, Of
<1>2. ASSUME NEW t \in Tasks, SyncFailed(t)
      PROVE  row'[s] = row[s]
  BY <1>0, <1>2 DEF SyncFailed, RowMatches, OwnsRow, Row
<1>3. ASSUME NEW c \in Clients, NEW u \in Owners, NEW p \in Pdfs, Upload(c, u, p)
      PROVE  /\ row[s] # None /\ row[s].status = "ready"
             /\ row'[s].pdf = row[s].pdf
  BY <1>0, <1>3 DEF Upload, IsRowOf, OwnsRow, KeptStatus, Row
<1>4. ASSUME NEW c \in Clients, PromoteRows(c), row'[s] # row[s]
      PROVE  bank[row'[s].pdf] # None /\ bank' = bank
  <2>1. /\ rq[c].op = "promote" /\ bank' = bank /\ row[s] # None
        /\ row'[s] = [row[s] EXCEPT !.status = "ready"]
        /\ \E i \in rq[c].ids : i[1] = s
    BY <1>0, <1>4 DEF PromoteRows, OwnsRow
  <2>2. row'[s].pdf = row[s].pdf /\ row[s].pdf = origin[s].pdf
    BY <1>0, <2>1 DEF Row, Of
  <2> QED  BY <2>1, <2>2 DEF HealInv
<1>5. ASSUME NEW c \in Clients, NEW u \in Users, NEW r \in Sids, DeleteUserSession(c, u, r)
      PROVE  row'[s] = row[s]
  BY <1>0, <1>5 DEF DeleteUserSession
<1>6. \/ row' = row
      \/ \E t \in Tasks : SyncReady(t) \/ SyncFailed(t)
      \/ \E c \in Clients, u \in Owners, p \in Pdfs : Upload(c, u, p)
      \/ \E c \in Clients : PromoteRows(c)
      \/ \E c \in Clients, u \in Users, r \in Sids : DeleteUserSession(c, u, r)
  BY DEF Next, TaskStep, RequestStep, GetRecord, LookupBank, ReadRecord, WriteRecord,
         CallLlm, SaveToBank, TaskDies, FallBack, DeleteSession, ListSessions,
         SaveUpload, LoadRow, LoadBank, DropRecord, MatchBank, StoreError, Generate,
         LoseRecord, Crash, vars
<1> QED  BY <1>1, <1>2, <1>3, <1>4, <1>5, <1>6

\* A self-heal takes its ids from rows, and its hits from the bank.
LEMMA HealKept ==
  ASSUME IInv, HealInv, [Next]_vars
  PROVE  HealInv'
<1> SUFFICES ASSUME NEW c \in Clients, NEW i \in rq'[c].ids
             PROVE  /\ origin'[i[1]] # None /\ i[2] = origin'[i[1]].pdf
                    /\ rq'[c].op = "promote" => bank'[i[2]] # None
  BY DEF HealInv
<1>0. rq \in [Clients -> Request] /\ row \in [Sids -> Row \cup {None}]
  BY DEF IInv, TypeOK
<1>1. ASSUME i \in rq[c].ids, rq'[c].op = "promote" => bank[i[2]] # None
      PROVE  /\ origin'[i[1]] # None /\ i[2] = origin'[i[1]].pdf
             /\ rq'[c].op = "promote" => bank'[i[2]] # None
  <2>1. i \in Sids \X Pdfs
    BY <1>0, <1>1 DEF Request
  <2> QED  BY <1>1, <2>1, Lasting DEF HealInv
<1>2. CASE rq'[c] = rq[c]
  BY <1>1, <1>2 DEF HealInv
<1>3. ASSUME NEW u \in Users, ListSessions(c, u)
      PROVE  /\ origin'[i[1]] # None /\ i[2] = origin'[i[1]].pdf
             /\ rq'[c].op # "promote"
  <2>1. PICK s \in Sids : OwnsRow(u, s) /\ i = <<s, row[s].pdf>>
    BY <1>0, <1>3 DEF ListSessions
  <2>2. Of(row[s], s) /\ origin' = origin
    BY <1>3, <2>1 DEF IInv, Provenance, OwnsRow, ListSessions
  <2> QED  BY <1>0, <1>3, <2>1, <2>2 DEF Of, ListSessions
<1>4. CASE MatchBank(c)
  BY <1>0, <1>1, <1>4 DEF MatchBank, Healable, End, NoRequest, Request
<1>5. \/ rq'[c] = rq[c] \/ rq'[c].ids = {}
      \/ \E u \in Users : ListSessions(c, u)
      \/ MatchBank(c)
  <2>1. ASSUME NEW d \in Clients, RequestStep(d)
        PROVE  \/ rq'[c] = rq[c] \/ rq'[c].ids = {}
               \/ \E u \in Users : ListSessions(c, u)
               \/ MatchBank(c)
    <3>1. CASE \E u \in Users : ListSessions(d, u)
      BY <1>0, <3>1 DEF ListSessions
    <3>2. CASE MatchBank(d)
      BY <1>0, <3>2 DEF MatchBank, End
    <3>3. CASE End(d) \/ \E o, u, s, p : Begin(d, o, u, s, p)
      BY <1>0, <3>3 DEF End, Begin, NoRequest
    <3> QED
      BY <2>1, <3>1, <3>2, <3>3 DEF RequestStep, Upload, FallBack, DeleteSession,
         DeleteUserSession, SaveUpload, LoadRow, LoadBank, DropRecord, PromoteRows,
         StoreError
  <2>2. CASE Crash
    BY <2>2 DEF Crash, NoRequest
  <2>3. CASE rq' = rq
    BY <2>3
  <2> QED
    BY <2>1, <2>2, <2>3 DEF Next, TaskStep, GetRecord, LookupBank, ReadRecord,
       WriteRecord, CallLlm, SyncReady, SyncFailed, SaveToBank, TaskDies, Generate,
       LoseRecord, vars
<1> QED  BY <1>2, <1>3, <1>4, <1>5

-----------------------------------------------------------------------------
(* A row that says ready has content.                                      *)

\* Content that was generated stays with the task that generated it.
LEMMA GeneratedStays ==
  ASSUME IInv, SourceInv, [Next]_vars
  PROVE  /\ \A t \in Tasks : content[t] = t => content'[t] = t /\ held'[t] = held[t]
         /\ \A p \in Pdfs : Generated(p) => Generated(p)'
<1>1. ASSUME NEW t \in Tasks, content[t] = t
      PROVE  content'[t] = t /\ held'[t] = held[t]
  <2>1. pc[t] \notin {"start", "lookup"}
    BY <1>1, ConstantsAssumption DEF IInv, TaskState, SourceInv
  <2> QED  BY <1>1, <2>1, TaskEffect
<1> QED  BY <1>1 DEF Generated

\* The content of a task, and that of the bank, is of the same document.
LEMMA SourceDocument ==
  ASSUME IInv, SourceInv
  PROVE  /\ \A t \in Tasks : content[t] # None => Generated(held[t].pdf)
         /\ \A p \in Pdfs : bank[p] # None => Generated(p)
BY DEF IInv, TypeOK, Provenance, About, SourceInv, Generated

\* Every step keeps the source of content.
LEMMA NextSource == IInv /\ SourceInv /\ [Next]_vars => SourceInv'
<1> SUFFICES ASSUME IInv, SourceInv, [Next]_vars PROVE SourceInv'
  OBVIOUS
<1>0. /\ bank \in [Pdfs -> Tasks \cup {None}] /\ content \in [Tasks -> Tasks \cup {None}]
      /\ IInv'
  BY NextIInv DEF IInv, TypeOK
<1>1. ASSUME NEW p \in Pdfs, bank'[p] # None
      PROVE  content'[bank'[p]] = bank'[p]
  <2>1. content[bank'[p]] = bank'[p]
    BY <1>1, Lasting DEF SourceInv
  <2>2. bank'[p] \in Tasks
    BY <1>0, <1>1 DEF IInv, TypeOK
  <2> QED  BY <2>1, <2>2, GeneratedStays
<1>2. ASSUME NEW t \in Tasks, pc'[t] = "lookup"
      PROVE  content'[t] = None
  BY <1>2, TaskEffect DEF IInv, TaskState, SourceInv
<1>3. ASSUME NEW t \in Tasks, content'[t] # None
      PROVE  held'[t] # None /\ content'[content'[t]] = content'[t]
  <2>0. held'[t] # None
    BY <1>3, TaskEffect DEF IInv, TaskState, Live, SourceInv
  <2>1. CASE content'[t] = t
    BY <2>0, <2>1
  <2>2. CASE content'[t] = content[t]
    <3>1. content[t] \in Tasks /\ content[content[t]] = content[t]
      BY <1>0, <1>3, <2>2 DEF SourceInv
    <3> QED  BY <2>0, <2>2, <3>1, GeneratedStays
  <2>3. CASE /\ pc[t] = "lookup" /\ bank[held[t].pdf] # None
             /\ content'[t] = bank[held[t].pdf]
    <3>1. held[t].pdf \in Pdfs
      BY <2>3 DEF IInv, TypeOK, TaskState, Live, Record
    <3>2. bank[held[t].pdf] \in Tasks
      BY <1>0, <2>3, <3>1
    <3>3. content[bank[held[t].pdf]] = bank[held[t].pdf]
      BY <2>3, <3>1 DEF SourceInv
    <3> QED  BY <2>0, <2>3, <3>2, <3>3, GeneratedStays
  <2> QED  BY <2>0, <2>1, <2>2, <2>3, TaskEffect
<1>4. HealInv'
  BY HealKept DEF SourceInv
<1>5. ASSUME NEW s \in Sids, row'[s] # None, row'[s].status = "ready"
      PROVE  Generated(row[s].pdf)'
  <2>1. row'[s].pdf \in Pdfs
    BY <1>0, <1>5 DEF IInv, TypeOK, Row
  <2>2. Generated(row'[s].pdf)
    <3>1. CASE /\ row[s] # None /\ row[s].status = "ready"
               /\ row'[s].pdf = row[s].pdf
      BY <3>1 DEF SourceInv, ReadyWasGenerated, Generated
    <3>2. ASSUME NEW t \in Tasks, pc[t] = "ready", held[t].pdf = row'[s].pdf
          PROVE  Generated(row'[s].pdf)
      <4>1. content[t] # None
        BY <3>2 DEF IInv, TaskState
      <4> QED  BY <3>2, <4>1, SourceDocument
    <3>3. CASE bank[row'[s].pdf] # None
      BY <2>1, <3>3, SourceDocument
    <3> QED  BY <1>5, <3>1, <3>2, <3>3, RowEffect DEF SourceInv
  <2> QED  BY <2>1, <2>2, GeneratedStays DEF Generated
<1> QED
  BY <1>1, <1>2, <1>3, <1>4, <1>5 DEF SourceInv, ReadyWasGenerated, Generated

LEMMA InitSource == Init => SourceInv
BY DEF Init, SourceInv, HealInv, ReadyWasGenerated, NoRequest

\* Content that is banked or published was generated by the task it names.
LEMMA SourceInvariance == Spec => []SourceInv
BY Invariance, InitSource, NextSource, PTL DEF Spec

\* A dashboard row never says ready without content that was generated for its
\* document, whatever fails and whichever of sync and self-heal has set it.
THEOREM ReadyHasContent == Spec => []ReadyWasGenerated
<1>1. SourceInv => ReadyWasGenerated
  BY DEF SourceInv
<1> QED  BY SourceInvariance, <1>1, PTL

-----------------------------------------------------------------------------
(* Content behind a ready row is banked, or about to be.                   *)

Recoverable(p) ==
  bank[p] # None \/ \E t \in Tasks : pc[t] = "save" /\ held[t].pdf = p

\* A task that publishes content of another has found it in the bank.
BankedInv ==
  /\ \A t \in Tasks : content[t] \notin {t, None} => bank[held[t].pdf] # None
  /\ ReadyRecoverable

\* A task at the save banks its content in its next step.
LEMMA SaveEnds ==
  ASSUME IInv, Faults \cap {"bank", "crash"} = {}, [Next]_vars, NEW x \in Tasks,
         pc[x] = "save"
  PROVE  (pc'[x] = "save" /\ held'[x] = held[x]) \/ bank'[held[x].pdf] # None
<1>0. pc \in [Tasks -> Labels] /\ bank \in [Pdfs -> Tasks \cup {None}]
      /\ held[x] \in Record /\ held[x].pdf \in Pdfs
  BY DEF IInv, TypeOK, TaskState, Live, Record
<1>1. held'[x] = held[x]
  BY TaskEffect
<1>2. CASE SaveToBank(x)
  BY <1>0, <1>2, ConstantsAssumption DEF SaveToBank
<1>3. ASSUME NEW t \in Tasks \ {x}, TaskStep(t) \/ TaskDies(t)
      PROVE  pc'[x] = "save"
  <2>1. CASE ReadRecord(t) \/ WriteRecord(t)
    <3>1. CASE Resume(t)
      BY <1>3, <2>1, <3>1, ResumeEffect DEF IInv, ReadRecord, WriteRecord
    <3> QED  BY <1>0, <2>1, <3>1 DEF ReadRecord, WriteRecord
  <2> QED
    BY <1>0, <1>3, <2>1 DEF TaskStep, GetRecord, LookupBank, CallLlm, SyncReady,
       SyncFailed, SaveToBank, TaskDies, StartUpdate, Goto, AfterFinalize,
       RevertComplete
<1>4. ASSUME TaskStep(x) \/ TaskDies(x)
      PROVE  SaveToBank(x)
  BY <1>4 DEF TaskStep, GetRecord, LookupBank, ReadRecord, WriteRecord, CallLlm,
     SyncReady, SyncFailed, TaskDies, Stages
<1>5. ASSUME NEW u \in Owners, NEW s \in Sids, Generate(u, s)
      PROVE  pc'[x] = "save"
  BY <1>0, <1>5 DEF Generate, Goto
<1>6. ASSUME NEW c \in Clients, RequestStep(c)
      PROVE  pc'[x] = "save"
  BY <1>6 DEF RequestStep, Upload, FallBack, DeleteSession, DeleteUserSession,
     ListSessions, SaveUpload, LoadRow, LoadBank, DropRecord, MatchBank, PromoteRows,
     StoreError, taskVars
<1>7. CASE UNCHANGED vars \/ \E s \in Sids : LoseRecord(s)
  BY <1>7 DEF vars, taskVars, LoseRecord
<1>8. ~Crash
  BY DEF Crash
<1> QED  BY <1>1, <1>2, <1>3, <1>4, <1>5, <1>6, <1>7, <1>8 DEF Next

\* Every step keeps ready rows recoverable.
LEMMA NextBanked ==
  ASSUME Faults \cap {"bank", "crash"} = {}
  PROVE  IInv /\ SourceInv /\ BankedInv /\ [Next]_vars => BankedInv'
<1> SUFFICES ASSUME IInv, SourceInv, BankedInv, [Next]_vars PROVE BankedInv'
  OBVIOUS
<1>0. IInv' /\ \A t \in Tasks : held[t] \in Record \cup {None}
  BY NextIInv DEF IInv, TypeOK
<1>1. ASSUME NEW t \in Tasks, content'[t] \notin {t, None}
      PROVE  bank'[held'[t].pdf] # None
  <2>1. held[t] # None /\ held'[t] = held[t]
    BY <1>1, TaskEffect DEF IInv, TaskState, Live, SourceInv
  <2>2. bank[held[t].pdf] # None
    BY <1>1, TaskEffect DEF BankedInv
  <2>3. held[t].pdf \in Pdfs
    BY <1>0, <2>1 DEF Record
  <2> QED  BY <2>1, <2>2, <2>3, Lasting
<1>2. ASSUME NEW p \in Pdfs, Recoverable(p)
      PROVE  Recoverable(p)'
  BY <1>2, Lasting, SaveEnds DEF Recoverable
<1>3. ASSUME NEW s \in Sids, row'[s] # None, row'[s].status = "ready"
      PROVE  Recoverable(row[s].pdf)'
  <2>1. row'[s].pdf \in Pdfs
    BY <1>0, <1>3 DEF IInv, TypeOK, Row
  <2>2. CASE /\ row[s] # None /\ row[s].status = "ready"
             /\ row'[s].pdf = row[s].pdf
    <3>1. Recoverable(row'[s].pdf)
      BY <2>2 DEF BankedInv, ReadyRecoverable, Recoverable
    <3> QED  BY <1>2, <2>1, <3>1 DEF Recoverable
  <2>3. ASSUME NEW t \in Tasks, pc[t] = "ready", held[t].pdf = row'[s].pdf,
               AfterFinalize(t)
        PROVE  Recoverable(row[s].pdf)'
    <3>1. content[t] # None /\ held'[t] = held[t]
      BY <2>3, TaskEffect DEF IInv, TaskState
    <3>2. CASE content[t] = t
      <4>1. pc'[t] = "save"
        BY <2>3, <3>2 DEF AfterFinalize, Goto, IInv, TypeOK
      <4> QED  BY <2>3, <3>1, <4>1 DEF Recoverable
    <3>3. CASE content[t] # t
      BY <2>1, <2>3, <3>1, <3>3, Lasting DEF BankedInv, Recoverable
    <3> QED  BY <3>2, <3>3
  <2>4. CASE bank[row'[s].pdf] # None
    BY <2>1, <2>4, Lasting DEF Recoverable
  <2> QED  BY <1>3, <2>2, <2>3, <2>4, RowEffect DEF SourceInv
<1> QED  BY <1>1, <1>3 DEF BankedInv, ReadyRecoverable, Recoverable

\* Unless saving to the bank fails or the process stops before it, a ready row
\* can be opened again whatever happens to the store.
THEOREM ReadyIsRecoverable ==
  ASSUME Faults \cap {"bank", "crash"} = {}
  PROVE  Spec => []ReadyRecoverable
<1>1. Init => BankedInv
  BY DEF Init, BankedInv, ReadyRecoverable
<1>2. BankedInv => ReadyRecoverable
  BY DEF BankedInv
<1> QED  BY Invariance, SourceInvariance, NextBanked, <1>1, <1>2, PTL DEF Spec

-----------------------------------------------------------------------------
(* Record and row agree once a session's only generation is over.          *)

\* Where the task of a complete record stands, and what the row says by then.
Settled(t) ==
  \/ pc[t] = "ready"
  \/ pc[t] \in {"read", "write"} /\ upd[t] = "unsynced"
  \/ /\ pc[t] \in {"save", "done"}
     /\ row[sid[t]] # None => row[sid[t]].status = "ready"

\* A record is complete only from the task's write to the end of its sync, or
\* when that sync has succeeded: a failed one takes the record back.
SettlingInv ==
  \A t \in Tasks :
    /\ pc[t] = "idle" => sid[t] = None
    /\ (OnlyTask(t) /\ store[sid[t]] # None /\ store[sid[t]].status = "complete")
         => Settled(t)

\* A task writes complete in the one update whose arguments say so.
LEMMA UpdatedWord ==
  ASSUME NEW t \in Tasks, NEW rec \in Record, upd[t] \in Updates,
         Updated(t, rec).status = "complete"
  PROVE  upd[t] = "complete"
<1>1. Updated(t, rec).status = CASE upd[t] \in Failures -> "failed"
                                 [] upd[t] = "complete" -> "complete"
                                 [] OTHER -> "processing"
  BY DEF Updated, Record
<1> QED  BY <1>1 DEF Updates, Failures, Stages

\* A guest's session has no row.
LEMMA GuestHasNoRow ==
  ASSUME IInv, NEW t \in Tasks, sid[t] \in Sids,
         held[t] # None, held[t].user = Guest
  PROVE  row[sid[t]] = None
BY ConstantsAssumption DEF IInv, TypeOK, Provenance, Genuine, Of, Row

\* The task that has written complete goes to its sync, if there is a row.
LEMMA CompleteSettles ==
  ASSUME IInv, NEW t \in Tasks, pc[t] \in {"read", "write"}, upd[t] = "complete",
         Resume(t), UNCHANGED <<row, sid>>
  PROVE  Settled(t)'
<1>1. sid[t] \in Sids /\ held[t] # None /\ pc \in [Tasks -> Labels]
  BY DEF IInv, TypeOK, TaskState, Live
<1>2. CASE held[t].user = Guest
  BY <1>1, <1>2, GuestHasNoRow DEF Resume, AfterFinalize, Goto, Settled
<1>3. CASE held[t].user # Guest
  BY <1>1, <1>3 DEF Resume, Goto, Settled
<1> QED  BY <1>2, <1>3

\* What the task's own step leaves of a complete record.
LEMMA OwnStepSettles ==
  ASSUME IInv, Faults \cap {"redis"} = {}, NEW t \in Tasks, TaskStep(t) \/ TaskDies(t),
         store[sid[t]] # None /\ store[sid[t]].status = "complete" => Settled(t),
         store'[sid[t]] # None, store'[sid[t]].status = "complete"
  PROVE  Settled(t)'
<1>0. /\ pc \in [Tasks -> Labels] /\ upd \in [Tasks -> Updates \cup {"none"}]
      /\ row \in [Sids -> Row \cup {None}] /\ sid' = sid
  BY DEF IInv, TypeOK, TaskStep, GetRecord, LookupBank, ReadRecord, WriteRecord,
         CallLlm, SyncReady, SyncFailed, SaveToBank, TaskDies
<1>1. CASE WriteRecord(t)
  <2>1. snap[t] \in Record /\ upd[t] \in Updates /\ sid[t] \in Sids
    BY <1>1 DEF WriteRecord, IInv, TypeOK, TaskState
  <2>2. Updated(t, snap[t]).status = "complete"
    BY <1>1, <2>1 DEF WriteRecord, UpdateStatus, IInv, TypeOK
  <2>3. upd[t] = "complete"
    BY <2>1, <2>2, UpdatedWord
  <2> QED  BY <1>1, <2>3, CompleteSettles DEF WriteRecord
<1>2. CASE SyncReady(t)
  <2>1. sid[t] \in Sids
    BY <1>2 DEF SyncReady, IInv, TypeOK, TaskState
  <2>2. CASE RevertComplete(t)
    BY <1>0, <2>2 DEF RevertComplete, StartUpdate, Settled
  <2>3. CASE /\ RowMatches(t) /\ row' = [row EXCEPT ![sid[t]].status = "ready"]
             /\ AfterFinalize(t)
    BY <1>0, <2>1, <2>3
    DEF AfterFinalize, Goto, RowMatches, OwnsRow, Row, Settled
  <2> QED  BY <1>2, <2>2, <2>3 DEF SyncReady
<1>3. CASE ~WriteRecord(t) /\ ~SyncReady(t)
  <2>1. store' = store
    BY <1>3 DEF TaskStep, GetRecord, LookupBank, ReadRecord, CallLlm, SyncFailed,
                SaveToBank, TaskDies
  <2>2. Settled(t)
    BY <2>1
  <2>3. CASE ReadRecord(t)
    BY <1>0, <2>1, <2>2, <2>3 DEF ReadRecord, Settled
  <2>4. CASE SaveToBank(t)
    BY <1>0, <2>2, <2>4 DEF SaveToBank, Goto, Settled
  <2> QED
    BY <1>3, <2>2, <2>3, <2>4 DEF TaskStep, GetRecord, LookupBank, CallLlm,
       SyncFailed, TaskDies, Stages, Settled
<1> QED  BY <1>1, <1>2, <1>3

\* Every step keeps it, but for a restart.
LEMMA StepSettles ==
  ASSUME IInv, SettlingInv, Faults \cap {"redis"} = {},
         \/ \E t \in Tasks : TaskStep(t) \/ TaskDies(t)
         \/ \E c \in Clients : RequestStep(c)
         \/ \E u \in Owners, s \in Sids : Generate(u, s)
         \/ \E s \in Sids : LoseRecord(s)
         \/ UNCHANGED vars
  PROVE  SettlingInv'
<1> SUFFICES ASSUME NEW t \in Tasks
             PROVE  /\ pc'[t] = "idle" => sid'[t] = None
                    /\ (OnlyTask(t)' /\ store'[sid'[t]] # None
                          /\ store'[sid'[t]].status = "complete") => Settled(t)'
  BY DEF SettlingInv
<1> DEFINE s == sid[t]
<1> DEFINE Before == store[s] # None /\ store[s].status = "complete"
<1> DEFINE After == store'[s] # None /\ store'[s].status = "complete"
<1>0. /\ pc \in [Tasks -> Labels] /\ upd \in [Tasks -> Updates \cup {"none"}]
      /\ row \in [Sids -> Row \cup {None}] /\ store \in [Sids -> Record \cup {None}]
      /\ sid \in [Tasks -> Sids \cup {None}] /\ rq \in [Clients -> Request]
  BY DEF IInv, TypeOK
<1>1. pc[t] = "idle" => sid[t] = None
  BY DEF SettlingInv
<1>2. OnlyTask(t) /\ Before => Settled(t)
  BY DEF SettlingInv
<1>3. CASE TaskStep(t) \/ TaskDies(t)
  <2>1. sid' = sid /\ pc[t] # "idle"
    BY <1>3 DEF TaskStep, GetRecord, LookupBank, ReadRecord, WriteRecord, CallLlm,
                SyncReady, SyncFailed, SaveToBank, TaskDies, Stages
  <2>2. pc'[t] # "idle"
    <3>1. CASE (ReadRecord(t) \/ WriteRecord(t)) /\ Resume(t)
      BY <3>1, ResumeEffect DEF IInv, ReadRecord, WriteRecord
    <3> QED
      BY <1>0, <1>3, <3>1 DEF TaskStep, GetRecord, LookupBank, ReadRecord, WriteRecord,
         CallLlm, SyncReady, SyncFailed, SaveToBank, TaskDies, StartUpdate, Goto,
         AfterFinalize, RevertComplete
  <2>3. OnlyTask(t)' => OnlyTask(t)
    BY <2>1 DEF OnlyTask
  <2> QED  BY <1>2, <1>3, <2>1, <2>2, <2>3, OwnStepSettles
<1>4. ASSUME pc'[t] = pc[t], upd'[t] = upd[t], sid'[t] = sid[t],
             OnlyTask(t)' => OnlyTask(t),
             OnlyTask(t) /\ After => Before,
             OnlyTask(t) /\ After /\ row'[s] # None
               => row'[s].status = "ready" \/ row'[s] = row[s]
      PROVE  /\ pc'[t] = "idle" => sid'[t] = None
             /\ (OnlyTask(t)' /\ store'[sid'[t]] # None
                   /\ store'[sid'[t]].status = "complete") => Settled(t)'
  BY <1>1, <1>2, <1>4 DEF Settled
<1>5. ASSUME NEW x \in Tasks \ {t}, TaskStep(x) \/ TaskDies(x)
      PROVE  /\ pc'[t] = pc[t] /\ upd'[t] = upd[t] /\ sid'[t] = sid[t]
             /\ OnlyTask(t)' => OnlyTask(t)
             /\ OnlyTask(t) => store'[s] = store[s] /\ row'[s] = row[s]
  <2>1. sid' = sid
    BY <1>5 DEF TaskStep, GetRecord, LookupBank, ReadRecord, WriteRecord, CallLlm,
                SyncReady, SyncFailed, SaveToBank, TaskDies
  <2>2. pc'[t] = pc[t] /\ upd'[t] = upd[t]
    <3>1. CASE (ReadRecord(x) \/ WriteRecord(x)) /\ Resume(x)
      BY <1>5, <3>1, ResumeEffect DEF IInv, ReadRecord, WriteRecord
    <3> QED
      BY <1>0, <1>5, <3>1 DEF TaskStep, GetRecord, LookupBank, ReadRecord, WriteRecord,
         CallLlm, SyncReady, SyncFailed, SaveToBank, TaskDies, StartUpdate, Goto,
         AfterFinalize, RevertComplete
  <2>3. s \in Sids /\ sid[x] # s => store'[s] = store[s] /\ row'[s] = row[s]
    BY <1>0, <1>5 DEF TaskStep, GetRecord, LookupBank, ReadRecord, WriteRecord,
       CallLlm, SyncReady, SyncFailed, SaveToBank, TaskDies, RowMatches, OwnsRow
  <2> QED  BY <1>0, <1>5, <2>1, <2>2, <2>3 DEF OnlyTask
<1>6. ASSUME NEW u \in Owners, NEW r \in Sids, Generate(u, r)
      PROVE  /\ pc'[t] = "idle" => sid'[t] = None
             /\ (OnlyTask(t)' /\ store'[sid'[t]] # None
                   /\ store'[sid'[t]].status = "complete") => Settled(t)'
  <2>1. PICK x \in Tasks : /\ pc[x] = "idle" /\ Goto(x, "start")
                           /\ sid' = [sid EXCEPT ![x] = r]
    BY <1>6 DEF Generate
  <2>2. store' = store /\ row' = row /\ store[r].status # "complete"
    BY <1>6 DEF Generate
  <2>3. CASE x = t
    BY <1>0, <2>1, <2>2, <2>3 DEF Goto
  <2>4. CASE x # t
    <3>1. sid[x] = None
      BY <2>1 DEF SettlingInv
    <3>2. OnlyTask(t)' => OnlyTask(t)
      BY <1>0, <2>1, <2>4, <3>1 DEF OnlyTask
    <3> QED  BY <1>0, <1>4, <2>1, <2>2, <2>4, <3>2 DEF Goto
  <2> QED  BY <2>3, <2>4
<1>7. ASSUME UNCHANGED <<taskVars>>
      PROVE  /\ pc'[t] = pc[t] /\ upd'[t] = upd[t] /\ sid'[t] = sid[t]
             /\ OnlyTask(t)' => OnlyTask(t)
  BY <1>7 DEF taskVars, OnlyTask
<1>8. ASSUME NEW c \in Clients, RequestStep(c)
      PROVE  /\ UNCHANGED taskVars
             /\ OnlyTask(t) /\ After => Before
             /\ OnlyTask(t) /\ After /\ row'[s] # None
                  => row'[s].status = "ready" \/ row'[s] = row[s]
  <2>0. OnlyTask(t) => s \in Sids
    BY <1>0 DEF OnlyTask
  <2>1. UNCHANGED taskVars
    BY <1>8 DEF RequestStep, Upload, FallBack, DeleteSession, DeleteUserSession,
       ListSessions, SaveUpload, LoadRow, LoadBank, DropRecord, MatchBank,
       PromoteRows, StoreError
  <2>2. ASSUME NEW u \in Owners, NEW p \in Pdfs, Upload(c, u, p), s \in Sids, Before
        PROVE  store' = store /\ row'[s] = row[s]
    <3>1. store' = store /\ origin[s] # None
      BY <2>2 DEF Upload, IInv, Provenance, Genuine, Of
    <3>2. ASSUME NEW r \in Sids, row' = [row EXCEPT ![r].status = KeptStatus(@)],
                 IsRowOf(r, u, p)
          PROVE  row' = row
      BY <1>0, <3>2 DEF IsRowOf, OwnsRow, KeptStatus, Row
    <3> QED  BY <1>0, <2>2, <3>1, <3>2 DEF Upload
  <2>3. CASE SaveUpload(c) \/ DropRecord(c)
    <3>1. PICK new : /\ store' = [store EXCEPT ![rq[c].sid] = new] /\ row' = row
                     /\ new = None \/ new.status = "uploaded"
      BY <2>3 DEF SaveUpload, DropRecord, FreshRecord
    <3>2. s \in Sids => store'[s] = store[s] \/ store'[s] = new
      BY <1>0, <3>1
    <3> QED  BY <2>0, <2>1, <3>1, <3>2
  <2>4. CASE PromoteRows(c)
    <3>1. row[s] \in Row /\ OwnsRow(rq[c].user, s)
             => [row[s] EXCEPT !.status = "ready"].status = "ready"
      BY DEF Row
    <3>2. s \in Sids => (row'[s] = row[s] \/ row'[s].status = "ready")
      BY <1>0, <2>4, <3>1 DEF PromoteRows, OwnsRow
    <3> QED  BY <2>0, <2>1, <2>4, <3>2 DEF PromoteRows
  <2>5. ASSUME NEW u \in Users, NEW r \in Sids, DeleteUserSession(c, u, r),
               s \in Sids
        PROVE  store' = store /\ (row'[s] = None \/ row'[s] = row[s])
    BY <1>0, <2>5 DEF DeleteUserSession
  <2>6. CASE UNCHANGED <<store, row>>
    BY <2>1, <2>6
  <2> QED
    BY <1>8, <2>0, <2>1, <2>2, <2>3, <2>4, <2>5, <2>6 DEF RequestStep, Upload, FallBack,
       DeleteSession, ListSessions, LoadRow, LoadBank, MatchBank, StoreError
<1>9. ASSUME NEW r \in Sids, LoseRecord(r)
      PROVE  UNCHANGED taskVars /\ row' = row /\ (OnlyTask(t) /\ After => Before)
  BY <1>0, <1>9 DEF LoseRecord, OnlyTask
<1> HIDE DEF s, Before, After
<1> QED
  BY <1>0, <1>3, <1>4, <1>5, <1>6, <1>7, <1>8, <1>9 DEF vars, s, Before, After

\* Unless a store call raises or the process stops in between, record and row
\* of a session agree after its only generation, whatever its sync has met and
\* whatever uploads, deletes, expiries and self-heals cross it.
THEOREM RecordAndRowAgree ==
  ASSUME Faults \cap {"redis", "crash"} = {}
  PROVE  Spec => []SettledAgreement
<1>1. Init => SettlingInv
  BY DEF Init, SettlingInv, OnlyTask
<1>2. IInv /\ SettlingInv /\ [Next]_vars => SettlingInv'
  BY StepSettles DEF Next, Crash
<1>3. IInv /\ SettlingInv => SettledAgreement
  BY DEF IInv, TypeOK, SettlingInv, SettledAgreement, Settled, Live, Labels
<1> QED  BY Invariance, <1>1, <1>2, <1>3, PTL DEF Spec

=============================================================================
