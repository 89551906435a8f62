--------------------------- MODULE UserStoreProofs ---------------------------
(***************************************************************************)
(* Theorems about UserStore: the tables keep their references for any      *)
(* number of users, devices and rows.                                      *)
(***************************************************************************)
EXTENDS UserStore, TLAPS

\* The next phase of a sync has something to send, or there is none.
LEMMA PhaseHasItems ==
  ASSUME NEW p \in Payload, NEW k \in Nat
  PROVE  /\ PhaseFrom(p, k) \in 1..4
         /\ PhaseFrom(p, k) = 1 => 1 \in DOMAIN p.subjects
         /\ PhaseFrom(p, k) = 2 => 1 \in DOMAIN p.sessions
         /\ PhaseFrom(p, k) = 3 => 1 \in DOMAIN p.reviews
<1>1. /\ p.subjects \in Seq(Names) /\ p.sessions \in Seq(Entry)
      /\ p.reviews \in Seq(Item)
  BY DEF Payload
<1>2. /\ p.subjects # <<>> => 1 \in DOMAIN p.subjects
      /\ p.sessions # <<>> => 1 \in DOMAIN p.sessions
      /\ p.reviews # <<>> => 1 \in DOMAIN p.reviews
  BY <1>1
<1> QED  BY <1>2 DEF PhaseFrom

\* Start sets the position and the step of a request and nothing else.
LEMMA StartFields ==
  ASSUME NEW r \in Request
  PROVE  /\ Start(r) \in Request
         /\ Start(r).op = r.op /\ Start(r).user = r.user
         /\ Start(r).entry = r.entry /\ Start(r).pay = r.pay
         /\ Start(r).phase = r.phase /\ Start(r).i = 1
         /\ Start(r).step = IF r.phase = 4 THEN "ok"
                            ELSE IF r.op \in {"session", "upload"}
                                      \/ r.phase = 2
                                 THEN "check" ELSE "exec"
  BY DEF Start, Request

LEMMA NoRequestType == NoRequest \in Request
  BY DEF NoRequest, Request

-----------------------------------------------------------------------------
(* What the three kinds of change leave intact.                            *)

\* A subject that was drawn stays its user's until it is gone.
SubjectsKept ==
  /\ drawn \subseteq drawn'
  /\ \A g \in drawn : subject'[g] = subject[g] \/ subject'[g] = None

\* So the requests that do not move know as much as before.
LEMMA OthersKnow ==
  ASSUME UserInv, SubjectsKept, NEW c \in Slots, NEW d \in Slots \ {c},
         NEW x, rq' = [rq EXCEPT ![c] = x]
  PROVE  AtStatement(d)'
<1>1. rq'[d] = rq[d] /\ AtStatement(d)
  BY DEF UserInv, TypeOK
<1>2. ASSUME NEW u, NEW g, Checked(u, g) PROVE Checked(u, g)'
  BY <1>2 DEF SubjectsKept, Checked
<1> QED  BY <1>1, <1>2 DEF AtStatement

\* A request that ends, or moves to a statement it may be at.
LEMMA RequestMoves ==
  ASSUME UserInv, SubjectsKept, NEW c \in Slots, NEW x \in Request,
         rq' = [rq EXCEPT ![c] = x], AtStatement(c)'
  PROVE  rq' \in [Slots -> Request] /\ \A d \in Slots : AtStatement(d)'
<1>1. rq' \in [Slots -> Request]
  BY DEF UserInv, TypeOK
<1>2. ASSUME NEW d \in Slots \ {c} PROVE AtStatement(d)'
  BY <1>2, OthersKnow
<1> QED  BY <1>1, <1>2

LEMMA RequestEnds ==
  ASSUME UserInv, SubjectsKept, NEW c \in Slots, End(c)
  PROVE  rq' \in [Slots -> Request] /\ \A d \in Slots : AtStatement(d)'
<1>1. rq' = [rq EXCEPT ![c] = NoRequest] /\ rq'[c] = NoRequest
  BY DEF End, UserInv, TypeOK
<1>2. AtStatement(c)'
  BY <1>1 DEF AtStatement, NoRequest
<1> QED  BY <1>1, <1>2, NoRequestType, RequestMoves

\* A new row refers to a subject of its user: what the check has seen is
\* still true if the foreign key holds.
LEMMA InsertKeeps ==
  ASSUME UserInv, NEW u \in Users, NEW e \in Entry, Checked(u, e.subject),
         InsertRow(u, e), UNCHANGED <<subject, review>>
  PROVE  /\ session' \in [SessionIds -> Session \cup {None}]
         /\ SubjectOwned' /\ ReviewsLive' /\ OneRowPerDocument'
<1>1. PICK s \in SessionIds :
        session[s] = None /\ session' = [session EXCEPT ![s] = Row(u, e)]
  BY DEF InsertRow
<1>2. /\ SubjectExists(e.subject) /\ ~HasRow(u, e.hash)
      /\ session \in [SessionIds -> Session \cup {None}]
  BY DEF InsertRow, UserInv, TypeOK
<1>3. /\ Row(u, e) \in Session /\ Row(u, e) # None
      /\ Row(u, e).user = u /\ Row(u, e).hash = e.hash
      /\ Row(u, e).subject = e.subject
  BY UserStoreAssumption DEF Row, Entry, Session
<1>4. /\ session'[s] = Row(u, e)
      /\ \A r \in SessionIds : r # s => session'[r] = session[r]
  BY <1>1, <1>2
<1>5. session' \in [SessionIds -> Session \cup {None}]
  BY <1>1, <1>2, <1>3
<1>6. SubjectOwned'
  BY <1>2, <1>3, <1>4 DEF SubjectOwned, Checked, SubjectExists, UserInv
<1>7. ReviewsLive'
  BY <1>1, <1>3, <1>4 DEF ReviewsLive, UserInv
<1>8. OneRowPerDocument'
  BY <1>1, <1>2, <1>3, <1>4 DEF OneRowPerDocument, IsRowOf, HasRow, UserInv
<1> QED  BY <1>5, <1>6, <1>7, <1>8

\* Rows and reviews that did not change still refer to what exists, if no
\* subject is gone that a row refers to.
LEMMA RowsStay ==
  ASSUME UserInv, UNCHANGED <<session, review>>,
         \A s \in SessionIds :
           (session[s] # None /\ session[s].subject # None) =>
             subject'[session[s].subject] = subject[session[s].subject]
  PROVE  SubjectOwned' /\ ReviewsLive' /\ OneRowPerDocument'
<1>1. SubjectOwned'
  BY DEF UserInv, SubjectOwned
<1>2. ReviewsLive' /\ OneRowPerDocument'
  BY DEF UserInv, ReviewsLive, OneRowPerDocument, IsRowOf
<1> QED  BY <1>1, <1>2

\* An insert into user_subjects draws a fresh id or none.
LEMMA PutKeeps ==
  ASSUME UserInv, NEW u \in Users, NEW n \in Names, PutSubject(u, n),
         UNCHANGED <<session, review>>
  PROVE  /\ subject' \in [SubjectIds -> Subject \cup {None}]
         /\ drawn' \subseteq SubjectIds
         /\ SubjectsKept /\ SubjectsDrawn'
         /\ SubjectOwned' /\ ReviewsLive' /\ OneRowPerDocument'
<1>1. CASE UNCHANGED <<subject, drawn>>
  <2>1. SubjectsKept /\ SubjectsDrawn'
    BY <1>1 DEF SubjectsKept, SubjectsDrawn, UserInv
  <2> QED  BY <1>1, <2>1, RowsStay DEF UserInv, TypeOK
<1>2. CASE \E g \in SubjectIds \ drawn :
             /\ subject' = [subject EXCEPT ![g] = [user |-> u, name |-> n]]
             /\ drawn' = drawn \cup {g}
  <2>1. PICK g \in SubjectIds \ drawn :
          /\ subject' = [subject EXCEPT ![g] = [user |-> u, name |-> n]]
          /\ drawn' = drawn \cup {g}
    BY <1>2
  <2>2. /\ subject \in [SubjectIds -> Subject \cup {None}]
        /\ drawn \subseteq SubjectIds /\ subject[g] = None
        /\ [user |-> u, name |-> n] \in Subject
    BY DEF UserInv, TypeOK, SubjectsDrawn, Subject
  <2>3. \A h \in SubjectIds : h # g => subject'[h] = subject[h]
    BY <2>1, <2>2
  <2>4. SubjectsKept /\ SubjectsDrawn'
    BY <2>1, <2>2, <2>3 DEF SubjectsKept, SubjectsDrawn, UserInv
  <2>5. \A s \in SessionIds :
          (session[s] # None /\ session[s].subject # None) =>
             subject'[session[s].subject] = subject[session[s].subject]
    <3> SUFFICES ASSUME NEW s \in SessionIds, session[s] # None,
                        session[s].subject # None
                 PROVE  subject'[session[s].subject]
                          = subject[session[s].subject]
      OBVIOUS
    <3>1. /\ session[s] \in Session
          /\ subject[session[s].subject] # None
      BY DEF UserInv, TypeOK, SubjectOwned
    <3>2. session[s].subject \in SubjectIds
      BY <3>1 DEF Session
    <3> QED  BY <2>2, <2>3, <3>1, <3>2
  <2> QED  BY <2>1, <2>2, <2>4, <2>5, RowsStay
<1> QED  BY <1>1, <1>2 DEF PutSubject

-----------------------------------------------------------------------------
(* One lemma per action that changes more than its request.                *)

\* A step that leaves the subjects alone.
LEMMA SameSubjects ==
  ASSUME UserInv, UNCHANGED <<subject, drawn>>
  PROVE  /\ SubjectsKept /\ SubjectsDrawn'
         /\ subject' \in [SubjectIds -> Subject \cup {None}]
         /\ drawn' \subseteq SubjectIds
  BY DEF UserInv, TypeOK, SubjectsKept, SubjectsDrawn

\* A step that touches no table.
LEMMA SameTables ==
  ASSUME UserInv, UNCHANGED tables
  PROVE  /\ SubjectsKept /\ SubjectsDrawn' /\ SubjectOwned' /\ ReviewsLive'
         /\ OneRowPerDocument'
         /\ subject' \in [SubjectIds -> Subject \cup {None}]
         /\ session' \in [SessionIds -> Session \cup {None}]
         /\ review' \in [Users \X SessionIds \X Questions
                           -> Plans \cup {None}]
         /\ drawn' \subseteq SubjectIds
<1>1. UNCHANGED <<subject, session, review, drawn>>
  BY DEF tables
<1>2. SubjectOwned' /\ ReviewsLive' /\ OneRowPerDocument'
  BY <1>1, RowsStay
<1> QED  BY <1>1, <1>2, SameSubjects DEF UserInv, TypeOK

LEMMA BeginKeeps ==
  ASSUME UserInv, NEW c \in Slots, NEW u \in Users, NEW op \in Ops,
         Begin(c, u, op)
  PROVE  UserInv'
<1>1. PICK p \in IF op = "sync" THEN Payloads ELSE {None} :
        rq' = [rq EXCEPT ![c] = Start(
                 [NoRequest EXCEPT !.op = op, !.user = u, !.pay = p,
                    !.phase = IF op = "sync" THEN PhaseFrom(p, 1) ELSE 0])]
  BY DEF Begin
<1> DEFINE phase == IF op = "sync" THEN PhaseFrom(p, 1) ELSE 0
<1> DEFINE r == [NoRequest EXCEPT !.op = op, !.user = u, !.pay = p,
                                  !.phase = phase]
<1>2. op \in OpKinds
  BY UserStoreAssumption
<1>3. ASSUME op = "sync"
      PROVE  /\ p \in Payloads
             /\ PhaseFrom(p, 1) \in 1..4
             /\ PhaseFrom(p, 1) = 1 => 1 \in DOMAIN p.subjects
             /\ PhaseFrom(p, 1) = 2 => 1 \in DOMAIN p.sessions
             /\ PhaseFrom(p, 1) = 3 => 1 \in DOMAIN p.reviews
  <2>1. p \in Payloads /\ p \in Payload
    BY <1>3, UserStoreAssumption
  <2> QED  BY <2>1, PhaseHasItems
<1>3a. phase \in 0..4 /\ p \in Payloads \cup {None}
  BY <1>3
<1>4. /\ r \in Request
      /\ r.op = op /\ r.user = u /\ r.pay = p /\ r.entry = None
      /\ r.phase = phase
  <2> HIDE DEF phase
  <2> QED  BY <1>2, <1>3a DEF NoRequest, Request
<1>5. Start(r) \in Request /\ rq' = [rq EXCEPT ![c] = Start(r)]
  BY <1>1, <1>4, StartFields
<1>6. rq'[c] = Start(r)
  BY <1>5 DEF UserInv, TypeOK
<1>7. AtStatement(c)'
  <2> DEFINE q == Start(r)
  <2>1. /\ q.op = op /\ q.user = u /\ q.pay = p /\ q.i = 1
        /\ q.phase = phase
        /\ q.step = IF q.phase = 4 THEN "ok"
                    ELSE IF op \in {"session", "upload"} \/ q.phase = 2
                         THEN "check" ELSE "exec"
    <3> HIDE DEF phase, r
    <3> QED  BY <1>4, StartFields
  <2> HIDE DEF q
  <2>2. rq'[c] = q
    BY <1>6 DEF q
  <2> QED  BY <2>1, <2>2, <1>3 DEF AtStatement
<1>8. UNCHANGED tables /\ clean' \in [Slots -> BOOLEAN]
  BY DEF Begin, UserInv, TypeOK
<1>9. rq' \in [Slots -> Request] /\ \A d \in Slots : AtStatement(d)'
  <2> HIDE DEF r
  <2> QED  BY <1>5, <1>7, <1>8, SameTables, RequestMoves
<1> QED  BY <1>8, <1>9, SameTables DEF UserInv, TypeOK

\* A request that ends without having written.
LEMMA EndKeeps ==
  ASSUME UserInv, NEW c \in Slots, End(c), UNCHANGED <<tables, clean>>
  PROVE  UserInv'
<1>1. UNCHANGED tables /\ clean' = clean
  OBVIOUS
<1> QED  BY <1>1, SameTables, RequestEnds DEF UserInv, TypeOK

LEMMA CreateSubjectKeeps ==
  ASSUME UserInv, NEW c \in Slots, CreateSubject(c)
  PROVE  UserInv'
<1>1. PICK n \in Names : PutSubject(rq[c].user, n)
  BY DEF CreateSubject
<1>2. rq[c].user \in Users
  BY DEF CreateSubject, UserInv, AtStatement
<1>3. UNCHANGED <<session, review, clean>> /\ End(c)
  BY DEF CreateSubject
<1> QED  BY <1>1, <1>2, <1>3, PutKeeps, RequestEnds DEF UserInv, TypeOK

LEMMA DeleteSubjectKeeps ==
  ASSUME UserInv, NEW c \in Slots, DeleteSubject(c)
  PROVE  UserInv'
<1>1. CASE UNCHANGED <<tables, clean>>
  BY <1>1, EndKeeps DEF DeleteSubject
<1>2. CASE \E g \in SubjectIds :
             /\ subject[g] # None /\ ~Referenced(g)
             /\ subject' = [subject EXCEPT ![g] = None]
             /\ Disturb /\ UNCHANGED <<session, review, drawn>>
  <2>1. PICK g \in SubjectIds :
          /\ subject[g] # None /\ ~Referenced(g)
          /\ subject' = [subject EXCEPT ![g] = None]
          /\ Disturb /\ UNCHANGED <<session, review, drawn>>
    BY <1>2
  <2>2. /\ subject' \in [SubjectIds -> Subject \cup {None}]
        /\ subject'[g] = None
        /\ \A h \in SubjectIds : h # g => subject'[h] = subject[h]
        /\ clean' \in [Slots -> BOOLEAN]
    BY <2>1 DEF UserInv, TypeOK, Disturb
  <2>3. SubjectsKept /\ SubjectsDrawn'
    BY <2>1, <2>2 DEF SubjectsKept, SubjectsDrawn, UserInv, TypeOK
  <2>4. \A s \in SessionIds :
          (session[s] # None /\ session[s].subject # None) =>
             subject'[session[s].subject] = subject[session[s].subject]
    <3> SUFFICES ASSUME NEW s \in SessionIds, session[s] # None,
                        session[s].subject # None
                 PROVE  subject'[session[s].subject]
                          = subject[session[s].subject]
      OBVIOUS
    <3>1. session[s].subject \in SubjectIds
      BY DEF UserInv, TypeOK, Session
    <3>2. session[s].subject # g
      BY <2>1 DEF Referenced
    <3> QED  BY <2>2, <3>1, <3>2
  <2>5. SubjectOwned' /\ ReviewsLive' /\ OneRowPerDocument'
    BY <2>1, <2>4, RowsStay
  <2>6. End(c)
    BY DEF DeleteSubject
  <2> QED  BY <2>1, <2>2, <2>3, <2>5, <2>6, RequestEnds DEF UserInv, TypeOK
<1> QED  BY <1>1, <1>2 DEF DeleteSubject

LEMMA CheckSubjectKeeps ==
  ASSUME UserInv, NEW c \in Slots, CheckSubject(c)
  PROVE  UserInv'
<1>1. CASE End(c) /\ UNCHANGED <<tables, clean>>
  BY <1>1, EndKeeps
<1>2. CASE \E e \in Entries :
             /\ OwnsSubject(rq[c].user, e.subject)
             /\ rq' = [rq EXCEPT ![c].step = "exec", ![c].entry = e]
  <2>1. PICK e \in Entries :
          /\ OwnsSubject(rq[c].user, e.subject)
          /\ rq' = [rq EXCEPT ![c].step = "exec", ![c].entry = e]
    BY <1>2
  <2>2. /\ rq[c] \in Request /\ rq \in [Slots -> Request]
        /\ rq[c].step = "check" /\ rq[c].op \in {"session", "upload"}
        /\ rq[c].phase = 0 /\ rq[c].user \in Users
        /\ e \in Entry /\ e # None
    BY UserStoreAssumption DEF CheckSubject, UserInv, TypeOK, AtStatement
  <2>3. PICK x \in Request :
          /\ rq' = [rq EXCEPT ![c] = x]
          /\ x.step = "exec" /\ x.entry = e
          /\ x.op = rq[c].op /\ x.user = rq[c].user /\ x.phase = 0
    <3> DEFINE q == [rq[c] EXCEPT !.step = "exec", !.entry = e]
    <3>1. rq' = [rq EXCEPT ![c] = q]
      BY <2>1, <2>2
    <3>2. /\ q \in Request /\ q.step = "exec" /\ q.entry = e
          /\ q.op = rq[c].op /\ q.user = rq[c].user /\ q.phase = 0
      BY <2>2 DEF Request
    <3> QED  BY <3>1, <3>2
  <2>4. rq'[c] = x
    BY <2>2, <2>3
  <2>5. UNCHANGED tables /\ clean' = clean
    BY DEF CheckSubject
  <2>6. /\ e.subject # None => e.subject \in drawn'
        /\ e.subject # None => \/ subject'[e.subject] = None
                               \/ subject'[e.subject].user = x.user
    BY <2>1, <2>2, <2>3, <2>5 DEF OwnsSubject, UserInv, SubjectsDrawn, Entry,
                                  tables
  <2>7. AtStatement(c)'
    BY <2>2, <2>3, <2>4, <2>6 DEF AtStatement, Checked
  <2>8. SubjectsKept
    BY <2>5, SameTables
  <2>9. rq' \in [Slots -> Request] /\ \A d \in Slots : AtStatement(d)'
    BY <2>3, <2>7, <2>8, RequestMoves
  <2> QED  BY <2>5, <2>9, SameTables DEF UserInv, TypeOK
<1> QED  BY <1>1, <1>2 DEF CheckSubject

\* A request that ends and leaves the subjects alone.
LEMMA WriteKeeps ==
  ASSUME UserInv, NEW c \in Slots, End(c), UNCHANGED <<subject, drawn>>,
         session' \in [SessionIds -> Session \cup {None}],
         review' \in [Users \X SessionIds \X Questions -> Plans \cup {None}],
         clean' \in [Slots -> BOOLEAN],
         SubjectOwned', ReviewsLive', OneRowPerDocument'
  PROVE  UserInv'
  BY SameSubjects, RequestEnds DEF UserInv, TypeOK

LEMMA CreateSessionKeeps ==
  ASSUME UserInv, NEW c \in Slots, CreateSession(c)
  PROVE  UserInv'
<1>1. /\ rq[c].user \in Users /\ rq[c].entry \in Entry
      /\ Checked(rq[c].user, rq[c].entry.subject)
  BY DEF CreateSession, UserInv, TypeOK, AtStatement, Request
<1>2. End(c) /\ UNCHANGED <<subject, review, drawn, clean>>
  BY DEF CreateSession
<1>3. CASE UNCHANGED session
  BY <1>2, <1>3, EndKeeps DEF tables
<1>4. CASE InsertRow(rq[c].user, rq[c].entry)
  BY <1>1, <1>2, <1>4, InsertKeeps, WriteKeeps DEF UserInv, TypeOK
<1> QED  BY <1>3, <1>4 DEF CreateSession

LEMMA UpsertSessionKeeps ==
  ASSUME UserInv, NEW c \in Slots, UpsertSession(c)
  PROVE  UserInv'
<1> DEFINE u == rq[c].user
           e == rq[c].entry
<1>1. u \in Users /\ e \in Entry /\ Checked(u, e.subject)
  BY DEF UpsertSession, UserInv, TypeOK, AtStatement, Request
<1>2. End(c) /\ UNCHANGED <<subject, review, drawn, clean>>
  BY DEF UpsertSession
<1>3. CASE UNCHANGED session
  BY <1>2, <1>3, EndKeeps DEF tables
<1>4. CASE InsertRow(u, e)
  BY <1>1, <1>2, <1>4, InsertKeeps, WriteKeeps DEF UserInv, TypeOK
<1>5. CASE /\ SubjectExists(e.subject)
           /\ \E s \in SessionIds :
                /\ IsRowOf(s, u, e.hash)
                /\ session' = [session EXCEPT ![s].subject = e.subject]
  <2>1. PICK s \in SessionIds :
          /\ IsRowOf(s, u, e.hash)
          /\ session' = [session EXCEPT ![s].subject = e.subject]
    BY <1>5
  <2>2. /\ session \in [SessionIds -> Session \cup {None}]
        /\ session[s] # None /\ session[s] \in Session
        /\ session[s].user = u
    BY <2>1 DEF UserInv, TypeOK, IsRowOf
  <2> DEFINE x == [session[s] EXCEPT !.subject = e.subject]
  <2>3. /\ x \in Session /\ x # None /\ x.user = session[s].user
        /\ x.hash = session[s].hash /\ x.subject = e.subject
    BY <1>1, <2>2, UserStoreAssumption DEF Session, Entry
  <2>4. /\ session' = [session EXCEPT ![s] = x] /\ session'[s] = x
        /\ \A r \in SessionIds : r # s => session'[r] = session[r]
    BY <2>1, <2>2
  <2> HIDE DEF x
  <2>5. session' \in [SessionIds -> Session \cup {None}]
    BY <2>2, <2>3, <2>4
  <2>6. SubjectOwned'
    BY <1>1, <1>2, <1>5, <2>2, <2>3, <2>4
       DEF SubjectOwned, SubjectExists, Checked, UserInv
  <2>7. ReviewsLive'
    BY <1>2, <2>3, <2>4, <2>2 DEF ReviewsLive, UserInv
  <2>8. OneRowPerDocument'
    BY <2>2, <2>3, <2>4 DEF OneRowPerDocument, IsRowOf, UserInv
  <2> QED  BY <1>2, <2>5, <2>6, <2>7, <2>8, WriteKeeps DEF UserInv, TypeOK
<1> QED  BY <1>3, <1>4, <1>5 DEF UpsertSession

LEMMA DeleteSessionKeeps ==
  ASSUME UserInv, NEW c \in Slots, DeleteSession(c)
  PROVE  UserInv'
<1>1. End(c) /\ UNCHANGED <<subject, drawn>>
  BY DEF DeleteSession
<1>2. CASE UNCHANGED <<session, review, clean>>
  BY <1>1, <1>2, EndKeeps DEF tables
<1>3. CASE \E s \in SessionIds :
             /\ session' = [session EXCEPT ![s] = None]
             /\ review' = Cascade(s) /\ Disturb
  <2>1. PICK s \in SessionIds :
          /\ session' = [session EXCEPT ![s] = None]
          /\ review' = Cascade(s) /\ Disturb
    BY <1>3
  <2>2. /\ session' \in [SessionIds -> Session \cup {None}]
        /\ session'[s] = None
        /\ \A r \in SessionIds : r # s => session'[r] = session[r]
        /\ clean' \in [Slots -> BOOLEAN]
    BY <2>1 DEF UserInv, TypeOK, Disturb
  <2>3. /\ review \in [Users \X SessionIds \X Questions -> Plans \cup {None}]
        /\ DOMAIN review = Users \X SessionIds \X Questions
        /\ review' \in [Users \X SessionIds \X Questions
                          -> Plans \cup {None}]
        /\ DOMAIN review' = DOMAIN review
        /\ \A k \in DOMAIN review :
             review'[k] = IF k[2] = s THEN None ELSE review[k]
    BY <2>1 DEF UserInv, TypeOK, Cascade
  <2>4. SubjectOwned'
    BY <1>1, <2>2 DEF SubjectOwned, UserInv
  <2>5. ReviewsLive'
    BY <2>2, <2>3 DEF ReviewsLive, UserInv
  <2>6. OneRowPerDocument'
    BY <2>2 DEF OneRowPerDocument, IsRowOf, UserInv
  <2> QED  BY <1>1, <2>2, <2>3, <2>4, <2>5, <2>6, WriteKeeps
<1> QED  BY <1>2, <1>3 DEF DeleteSession

LEMMA UpsertReviewKeeps ==
  ASSUME UserInv, NEW c \in Slots, UpsertReview(c)
  PROVE  UserInv'
<1>1. End(c) /\ UNCHANGED <<subject, session, drawn, clean>>
  BY DEF UpsertReview
<1>2. CASE UNCHANGED review
  BY <1>1, <1>2, EndKeeps DEF tables
<1>3. CASE \E x \in Item :
             /\ session[x.session] # None
             /\ review' = [k \in DOMAIN review |->
                  IF k \in ReviewKeys(rq[c].user, x.session, x.question)
                  THEN x.plan ELSE review[k]]
  <2>1. PICK x \in Item :
          /\ session[x.session] # None
          /\ review' = [k \in DOMAIN review |->
               IF k \in ReviewKeys(rq[c].user, x.session, x.question)
               THEN x.plan ELSE review[k]]
    BY <1>3
  <2>2. /\ review \in [Users \X SessionIds \X Questions -> Plans \cup {None}]
        /\ DOMAIN review = Users \X SessionIds \X Questions
        /\ x.plan \in Plans
    BY DEF UserInv, TypeOK, Item
  <2>3. review' \in [Users \X SessionIds \X Questions -> Plans \cup {None}]
    BY <2>1, <2>2
  <2>4. \A k \in DOMAIN review' :
          review'[k] = review[k] \/ k[2] = x.session
    BY <2>1, <2>2 DEF ReviewKeys
  <2>5. ReviewsLive'
    BY <1>1, <2>1, <2>2, <2>3, <2>4 DEF ReviewsLive, UserInv
  <2>6. SubjectOwned' /\ OneRowPerDocument'
    BY <1>1 DEF SubjectOwned, OneRowPerDocument, IsRowOf, UserInv
  <2> QED  BY <1>1, <2>3, <2>5, <2>6, WriteKeeps DEF UserInv, TypeOK
<1> QED  BY <1>2, <1>3 DEF UpsertReview

\* The loops of sync leave the request at an item of its payload, checked as
\* before, or at the start of the next phase.
LEMMA NextItemMoves ==
  ASSUME UserInv, SubjectsKept, NEW c \in Slots, NEW list,
         rq[c].step = "exec", rq[c].phase \in 1..3,
         list = CASE rq[c].phase = 1 -> rq[c].pay.subjects
                  [] rq[c].phase = 2 -> rq[c].pay.sessions
                  [] OTHER -> rq[c].pay.reviews,
         NextItem(c, list)
  PROVE  rq' \in [Slots -> Request] /\ \A d \in Slots : AtStatement(d)'
<1> DEFINE p == rq[c].pay
<1>1. /\ rq \in [Slots -> Request] /\ rq[c] \in Request
      /\ AtStatement(c) /\ rq[c].op = "sync" /\ p \in Payloads
      /\ rq[c].user \in Users
  BY DEF UserInv, TypeOK, AtStatement
<1>2. p \in Payload
  BY <1>1, UserStoreAssumption
<1>3. CASE rq[c].i < Len(list)
  <2>1. PICK x \in Request :
          /\ rq' = [rq EXCEPT ![c] = x]
          /\ x.step = "exec" /\ x.op = "sync" /\ x.user = rq[c].user
          /\ x.pay = p /\ x.phase = rq[c].phase /\ x.i = rq[c].i + 1
    <3> DEFINE q == [rq[c] EXCEPT !.i = @ + 1]
    <3>1. rq' = [rq EXCEPT ![c] = q]
      BY <1>1, <1>3 DEF NextItem
    <3>2. /\ q \in Request /\ q.step = "exec" /\ q.op = "sync"
          /\ q.user = rq[c].user /\ q.pay = p /\ q.phase = rq[c].phase
          /\ q.i = rq[c].i + 1
      BY <1>1 DEF Request
    <3> QED  BY <3>1, <3>2
  <2>2. /\ x.phase = 1 => x.i \in DOMAIN p.subjects
        /\ x.phase = 2 => x.i \in DOMAIN p.sessions
        /\ x.phase = 3 => x.i \in DOMAIN p.reviews
    <3>1. /\ p.subjects \in Seq(Names) /\ p.sessions \in Seq(Entry)
          /\ p.reviews \in Seq(Item) /\ rq[c].i \in Nat
      BY <1>1, <1>2 DEF Payload, Request
    <3>2. /\ rq[c].phase = 1 => list = p.subjects
          /\ rq[c].phase = 2 => list = p.sessions
          /\ rq[c].phase = 3 => list = p.reviews
      OBVIOUS
    <3> QED  BY <2>1, <3>1, <3>2, <1>3
  <2>3. rq'[c] = x
    BY <1>1, <2>1
  <2>4. x.phase = 2 => \A j \in DOMAIN p.sessions :
          LET g == p.sessions[j].subject IN
          g # None => /\ g \in drawn'
                      /\ subject'[g] = None \/ subject'[g].user = x.user
    BY <1>1, <2>1 DEF AtStatement, Checked, SubjectsKept
  <2>5. AtStatement(c)'
    BY <1>1, <2>1, <2>2, <2>3, <2>4 DEF AtStatement, Checked
  <2> QED  BY <2>1, <2>5, RequestMoves
<1>4. CASE ~(rq[c].i < Len(list))
  <2> DEFINE k == PhaseFrom(p, rq[c].phase + 1)
  <2>1. /\ k \in 1..4
        /\ k = 1 => 1 \in DOMAIN p.subjects
        /\ k = 2 => 1 \in DOMAIN p.sessions
        /\ k = 3 => 1 \in DOMAIN p.reviews
    BY <1>2, PhaseHasItems
  <2>2. PICK x \in Request :
          /\ rq' = [rq EXCEPT ![c] = Start(x)]
          /\ x.op = "sync" /\ x.user = rq[c].user /\ x.pay = p /\ x.phase = k
    <3> DEFINE q == [rq[c] EXCEPT !.phase = k]
    <3>1. rq' = [rq EXCEPT ![c] = Start(q)]
      BY <1>1, <1>4 DEF NextItem
    <3>2. /\ q \in Request /\ q.op = "sync" /\ q.user = rq[c].user
          /\ q.pay = p /\ q.phase = k
      <4> HIDE DEF k
      <4> QED  BY <1>1, <2>1 DEF Request
    <3> QED  BY <3>1, <3>2
  <2> HIDE DEF k
  <2>3. /\ Start(x) \in Request /\ Start(x).op = "sync"
        /\ Start(x).user = rq[c].user /\ Start(x).pay = p
        /\ Start(x).phase = k /\ Start(x).i = 1
        /\ Start(x).step = IF k = 4 THEN "ok"
                           ELSE IF k = 2 THEN "check" ELSE "exec"
    BY <2>2, StartFields
  <2>4. rq'[c] = Start(x)
    BY <1>1, <2>2
  <2>5. AtStatement(c)'
    BY <1>1, <2>1, <2>3, <2>4 DEF AtStatement
  <2> QED  BY <2>2, <2>3, <2>5, RequestMoves
<1> QED  BY <1>3, <1>4

LEMMA SyncSubjectKeeps ==
  ASSUME UserInv, NEW c \in Slots, SyncSubject(c)
  PROVE  UserInv'
<1>1. /\ rq[c].step = "exec" /\ rq[c].phase = 1
      /\ NextItem(c, rq[c].pay.subjects)
      /\ PutSubject(rq[c].user, rq[c].pay.subjects[rq[c].i])
      /\ UNCHANGED <<session, review, clean>>
  BY DEF SyncSubject
<1>2. /\ rq[c].user \in Users /\ rq[c].pay \in Payload
      /\ rq[c].i \in DOMAIN rq[c].pay.subjects
  BY <1>1, UserStoreAssumption DEF UserInv, AtStatement
<1>3. rq[c].pay.subjects[rq[c].i] \in Names
  BY <1>2 DEF Payload
<1>4. /\ subject' \in [SubjectIds -> Subject \cup {None}]
      /\ drawn' \subseteq SubjectIds
      /\ SubjectsKept /\ SubjectsDrawn'
      /\ SubjectOwned' /\ ReviewsLive' /\ OneRowPerDocument'
  BY <1>1, <1>2, <1>3, PutKeeps
<1>5. rq' \in [Slots -> Request] /\ \A d \in Slots : AtStatement(d)'
  BY <1>1, <1>4, NextItemMoves
<1> QED  BY <1>1, <1>4, <1>5 DEF UserInv, TypeOK

LEMMA CheckSubjectsKeeps ==
  ASSUME UserInv, NEW c \in Slots, CheckSubjects(c)
  PROVE  UserInv'
<1> DEFINE list == rq[c].pay.sessions
<1>1. CASE End(c)
  BY <1>1, EndKeeps DEF CheckSubjects
<1>2. CASE /\ \A j \in DOMAIN list : OwnsSubject(rq[c].user, list[j].subject)
           /\ rq' = [rq EXCEPT ![c].step = "exec"]
  <2>1. /\ rq[c] \in Request /\ rq \in [Slots -> Request]
        /\ rq[c].step = "check" /\ rq[c].phase = 2
        /\ rq[c].user \in Users /\ rq[c].op = "sync"
        /\ rq[c].pay \in Payloads /\ rq[c].i \in DOMAIN list
    BY DEF CheckSubjects, UserInv, TypeOK, AtStatement
  <2>2. PICK x \in Request :
          /\ rq' = [rq EXCEPT ![c] = x]
          /\ x.step = "exec" /\ x.op = "sync" /\ x.user = rq[c].user
          /\ x.pay = rq[c].pay /\ x.phase = 2 /\ x.i = rq[c].i
    <3> DEFINE q == [rq[c] EXCEPT !.step = "exec"]
    <3>1. rq' = [rq EXCEPT ![c] = q]
      BY <1>2, <2>1
    <3>2. /\ q \in Request /\ q.step = "exec" /\ q.op = "sync"
          /\ q.user = rq[c].user /\ q.pay = rq[c].pay /\ q.phase = 2
          /\ q.i = rq[c].i
      BY <2>1 DEF Request
    <3> QED  BY <3>1, <3>2
  <2>3. UNCHANGED <<subject, drawn>> /\ UNCHANGED tables /\ clean' = clean
    BY DEF CheckSubjects, tables
  <2>4. \A j \in DOMAIN list : list[j].subject \in SubjectIds \cup {None}
    <3>1. list \in Seq(Entry)
      BY <2>1, UserStoreAssumption DEF Payload
    <3>2. ASSUME NEW j \in DOMAIN list PROVE list[j] \in Entry
      <4> HIDE DEF list
      <4> QED  BY <3>1
    <3> QED  BY <3>2 DEF Entry
  <2>5. \A j \in DOMAIN list :
          LET g == list[j].subject IN
          g # None => /\ g \in drawn'
                      /\ subject'[g] = None \/ subject'[g].user = x.user
    BY <1>2, <2>1, <2>2, <2>3, <2>4 DEF OwnsSubject, UserInv, SubjectsDrawn
  <2>6. rq'[c] = x
    BY <2>1, <2>2
  <2>7. AtStatement(c)'
    BY <2>1, <2>2, <2>5, <2>6 DEF AtStatement, Checked
  <2>8. SubjectsKept
    BY <2>3, SameTables
  <2>9. rq' \in [Slots -> Request] /\ \A d \in Slots : AtStatement(d)'
    BY <2>2, <2>7, <2>8, RequestMoves
  <2> QED  BY <2>3, <2>9, SameTables DEF UserInv, TypeOK
<1> QED  BY <1>1, <1>2 DEF CheckSubjects

LEMMA SyncSessionKeeps ==
  ASSUME UserInv, NEW c \in Slots, SyncSession(c)
  PROVE  UserInv'
<1> DEFINE u == rq[c].user
           e == rq[c].pay.sessions[rq[c].i]
<1>1. /\ rq[c].step = "exec" /\ rq[c].phase = 2
      /\ UNCHANGED <<subject, review, drawn, clean>>
  BY DEF SyncSession
<1>2. /\ u \in Users /\ rq[c].pay \in Payload
      /\ rq[c].i \in DOMAIN rq[c].pay.sessions /\ Checked(u, e.subject)
  BY <1>1, UserStoreAssumption DEF UserInv, AtStatement
<1>3. e \in Entry
  BY <1>2 DEF Payload
<1>4. CASE End(c) /\ UNCHANGED session
  BY <1>1, <1>4, EndKeeps DEF tables
<1>5. ASSUME NextItem(c, rq[c].pay.sessions)
      PROVE  rq' \in [Slots -> Request] /\ \A d \in Slots : AtStatement(d)'
  BY <1>1, <1>5, SameSubjects, NextItemMoves
<1>6. CASE NextItem(c, rq[c].pay.sessions) /\ UNCHANGED session
  <2>1. UNCHANGED tables
    BY <1>1, <1>6 DEF tables
  <2> QED  BY <1>1, <1>5, <1>6, <2>1, SameTables DEF UserInv, TypeOK
<1>7. CASE NextItem(c, rq[c].pay.sessions) /\ InsertRow(u, e)
  <2> HIDE DEF u, e
  <2>1. /\ session' \in [SessionIds -> Session \cup {None}]
        /\ SubjectOwned' /\ ReviewsLive' /\ OneRowPerDocument'
    BY <1>1, <1>2, <1>3, <1>7, InsertKeeps
  <2> QED  BY <1>1, <1>5, <1>7, <2>1, SameSubjects DEF UserInv, TypeOK
<1> QED  BY <1>4, <1>6, <1>7 DEF SyncSession

LEMMA SyncReviewKeeps ==
  ASSUME UserInv, NEW c \in Slots, SyncReview(c)
  PROVE  UserInv'
<1> DEFINE x == rq[c].pay.reviews[rq[c].i]
           k == <<rq[c].user, x.session, x.question>>
<1>1. /\ rq[c].step = "exec" /\ rq[c].phase = 3
      /\ UNCHANGED <<subject, session, drawn, clean>>
  BY DEF SyncReview
<1>2. CASE End(c) /\ UNCHANGED review
  BY <1>1, <1>2, EndKeeps DEF tables
<1>3. CASE /\ session[x.session] # None
           /\ review' = [review EXCEPT ![k] = IF @ = None THEN x.plan ELSE @]
           /\ NextItem(c, rq[c].pay.reviews)
  <2>1. /\ rq[c].user \in Users /\ rq[c].pay \in Payload
        /\ rq[c].i \in DOMAIN rq[c].pay.reviews
    BY <1>1, UserStoreAssumption DEF UserInv, AtStatement
  <2>2. x \in Item
    BY <2>1 DEF Payload
  <2>3. /\ x.plan \in Plans /\ k[2] = x.session
        /\ k \in Users \X SessionIds \X Questions
    BY <2>1, <2>2 DEF Item
  <2>4. review \in [Users \X SessionIds \X Questions -> Plans \cup {None}]
    BY DEF UserInv, TypeOK
  <2>5. /\ review' \in [Users \X SessionIds \X Questions
                          -> Plans \cup {None}]
        /\ \A j \in Users \X SessionIds \X Questions :
             j # k => review'[j] = review[j]
    <3> HIDE DEF k, x
    <3> QED  BY <1>3, <2>3, <2>4
  <2>6. ReviewsLive'
    <3> HIDE DEF k, x
    <3> QED  BY <1>1, <1>3, <2>3, <2>4, <2>5 DEF ReviewsLive, UserInv
  <2>7. SubjectOwned' /\ OneRowPerDocument'
    BY <1>1 DEF SubjectOwned, OneRowPerDocument, IsRowOf, UserInv
  <2>8. rq' \in [Slots -> Request] /\ \A d \in Slots : AtStatement(d)'
    BY <1>1, <1>3, SameSubjects, NextItemMoves
  <2> QED  BY <1>1, <2>5, <2>6, <2>7, <2>8, SameSubjects DEF UserInv, TypeOK
<1> QED  BY <1>2, <1>3 DEF SyncReview

-----------------------------------------------------------------------------
LEMMA InitInv == Init => UserInv
<1> SUFFICES ASSUME Init PROVE UserInv
  OBVIOUS
<1>1. TypeOK
  BY NoRequestType DEF Init, TypeOK
<1>2. \A c \in Slots : AtStatement(c)
  BY DEF Init, AtStatement, NoRequest
<1> QED  BY <1>1, <1>2 DEF Init, UserInv, SubjectsDrawn, SubjectOwned,
                           ReviewsLive, OneRowPerDocument

LEMMA NextInv == UserInv /\ [Next]_vars => UserInv'
<1> SUFFICES ASSUME UserInv, [Next]_vars PROVE UserInv'
  OBVIOUS
<1>1. CASE UNCHANGED vars
  BY <1>1 DEF vars, tables, UserInv, TypeOK, SubjectsDrawn, AtStatement,
              Checked, SubjectOwned, ReviewsLive, OneRowPerDocument, IsRowOf
<1>2. ASSUME NEW c \in Slots, NEW u \in Users, NEW op \in Ops, Begin(c, u, op)
      PROVE  UserInv'
  BY <1>2, BeginKeeps
<1>3. ASSUME NEW c \in Slots, Statement(c) PROVE UserInv'
  <2>1. CASE Fail(c)
    BY <2>1, EndKeeps DEF Fail
  <2> QED  BY <1>3, <2>1, CreateSubjectKeeps, DeleteSubjectKeeps,
              CheckSubjectKeeps, CreateSessionKeeps, UpsertSessionKeeps,
              DeleteSessionKeeps, UpsertReviewKeeps, SyncSubjectKeeps,
              CheckSubjectsKeeps, SyncSessionKeeps, SyncReviewKeeps
           DEF Statement
<1> QED  BY <1>1, <1>2, <1>3 DEF Next

\* The tables keep their references and their keys, whatever requests
\* interleave and whichever of their statements fail.
THEOREM UserInvariance == Spec => []UserInv
<1> QED  BY InitInv, NextInv, PTL DEF Spec

\* A session is filed under a subject of its own user.
THEOREM SubjectsOwned == Spec => []SubjectOwned
<1>1. UserInv => SubjectOwned
  BY DEF UserInv
<1> QED  BY <1>1, UserInvariance, PTL

\* No review outlives its session.
THEOREM NoOrphanReviews == Spec => []ReviewsLive
<1>1. UserInv => ReviewsLive
  BY DEF UserInv
<1> QED  BY <1>1, UserInvariance, PTL

\* A user has one row per document.
THEOREM DocumentsUnique == Spec => []OneRowPerDocument
<1>1. UserInv => OneRowPerDocument
  BY DEF UserInv
<1> QED  BY <1>1, UserInvariance, PTL

-----------------------------------------------------------------------------
(* Whose requests change a review schedule.                                *)

\* A step of c at a statement changes c's request.
LEMMA EndMoves ==
  ASSUME UserInv, NEW c \in Slots, rq[c].step = "exec", End(c)
  PROVE  rq'[c] # rq[c]
  BY DEF End, NoRequest, UserInv, TypeOK

LEMMA NextItemChanges ==
  ASSUME UserInv, NEW c \in Slots, rq[c].step = "exec", rq[c].phase = 3,
         NextItem(c, rq[c].pay.reviews)
  PROVE  rq'[c] # rq[c]
<1>1. /\ rq \in [Slots -> Request] /\ rq[c] \in Request
      /\ rq[c].i \in Nat /\ rq[c].op = "sync" /\ rq[c].pay \in Payload
  BY UserStoreAssumption DEF UserInv, TypeOK, AtStatement, Request
<1>2. CASE rq[c].i < Len(rq[c].pay.reviews)
  <2> DEFINE q == [rq[c] EXCEPT !.i = @ + 1]
  <2>1. rq'[c] = q
    BY <1>1, <1>2 DEF NextItem
  <2>2. q.i = rq[c].i + 1
    BY <1>1 DEF Request
  <2>3. q # rq[c]
    <3> HIDE DEF q
    <3> QED  BY <1>1, <2>2
  <2> QED  BY <2>1, <2>3
<1>3. CASE ~(rq[c].i < Len(rq[c].pay.reviews))
  <2>1. PhaseFrom(rq[c].pay, rq[c].phase + 1) = 4
    BY DEF PhaseFrom
  <2>2. PICK x \in Request : rq' = [rq EXCEPT ![c] = Start(x)] /\ x.phase = 4
    <3> DEFINE q == [rq[c] EXCEPT !.phase = 4]
    <3>1. q \in Request /\ q.phase = 4
      BY <1>1 DEF Request
    <3> QED  BY <1>1, <1>3, <2>1, <3>1 DEF NextItem
  <2> QED  BY <1>1, <2>2, StartFields
<1> QED  BY <1>2, <1>3

\* One user's review schedule is not changed by another's request, unless the
\* session itself goes.
THEOREM OwnReviewsOnly == Spec => OwnReviews
<1> DEFINE Allowed(k) ==
             \/ session'[k[2]] = None
             \/ \E c \in Slots : /\ rq[c].user = k[1] /\ rq[c].step = "exec"
                                 /\ rq'[c] # rq[c]
<1>1. ASSUME UserInv, [Next]_vars, NEW k \in DOMAIN review,
             review'[k] # review[k]
      PROVE  Allowed(k)
  <2>1. PICK c \in Slots :
          UpsertReview(c) \/ DeleteSession(c) \/ SyncReview(c)
    BY <1>1 DEF vars, tables, Next, Statement, Begin, Fail, CreateSubject,
                DeleteSubject, CheckSubject, CreateSession, UpsertSession,
                SyncSubject, CheckSubjects, SyncSession
  <2>2. DOMAIN review = Users \X SessionIds \X Questions
    BY <1>1 DEF UserInv, TypeOK
  <2>3. CASE UpsertReview(c)
    <3>1. k[1] = rq[c].user
      BY <1>1, <2>3 DEF UpsertReview, ReviewKeys
    <3>2. rq[c].step = "exec" /\ rq'[c] # rq[c]
      BY <1>1, <2>3, EndMoves DEF UpsertReview
    <3> QED  BY <3>1, <3>2
  <2>4. CASE DeleteSession(c)
    <3>1. PICK s \in SessionIds :
            /\ session' = [session EXCEPT ![s] = None]
            /\ review' = Cascade(s)
      BY <1>1, <2>4 DEF DeleteSession
    <3>2. k[2] = s
      BY <1>1, <3>1 DEF Cascade
    <3>3. session'[s] = None
      BY <1>1, <3>1 DEF UserInv, TypeOK
    <3> QED  BY <3>2, <3>3
  <2>5. CASE SyncReview(c)
    <3>1. NextItem(c, rq[c].pay.reviews)
      BY <1>1, <2>5 DEF SyncReview
    <3>2. rq[c].step = "exec" /\ rq[c].phase = 3 /\ rq'[c] # rq[c]
      BY <1>1, <2>5, <3>1, NextItemChanges DEF SyncReview
    <3>3. k[1] = rq[c].user
      <4> DEFINE x == rq[c].pay.reviews[rq[c].i]
                 j == <<rq[c].user, x.session, x.question>>
      <4>1. review' = [review EXCEPT ![j] = IF @ = None THEN x.plan ELSE @]
        BY <1>1, <2>5 DEF SyncReview
      <4>2. k = j
        <5> HIDE DEF j, x
        <5> QED  BY <1>1, <2>2, <4>1
      <4> QED  BY <4>2
    <3> QED  BY <3>2, <3>3
  <2> QED  BY <2>1, <2>3, <2>4, <2>5
<1>2. UserInv /\ [Next]_vars =>
        [\A k \in DOMAIN review : review'[k] # review[k] => Allowed(k)]_vars
  BY <1>1
<1> QED  BY <1>2, UserInvariance, PTL DEF Spec, OwnReviews

-----------------------------------------------------------------------------
(* A sync that is answered has left what it was sent.                      *)

SubjectSent(u, n) == \E s \in SubjectIds : IsSubject(s, u, n)
SessionSent(u, h) ==
  \E s \in SessionIds :
    session[s] # None /\ session[s].user = u /\ session[s].hash = h
ReviewSent(u, x) == review[<<u, x.session, x.question>>] # None

\* Request r is past item i of phase k.
Past(r, k, i) == r.phase > k \/ (r.phase = k /\ i < r.i)

\* The inductive invariant behind SyncComplete: of an undisturbed sync, every
\* item it is past is in the tables.
SentSoFar(c) ==
  LET r == rq[c]  p == r.pay IN
  (r.step # "idle" /\ r.op = "sync" /\ clean[c]) =>
    /\ p \in Payloads
    /\ r.step = "ok" => r.phase = 4
    /\ \A i \in DOMAIN p.subjects :
         Past(r, 1, i) => SubjectSent(r.user, p.subjects[i])
    /\ \A i \in DOMAIN p.sessions :
         Past(r, 2, i) => SessionSent(r.user, p.sessions[i].hash)
    /\ \A i \in DOMAIN p.reviews :
         Past(r, 3, i) => ReviewSent(r.user, p.reviews[i])
SyncInv == \A c \in Slots : SentSoFar(c)

\* What is in the tables stays there.
NothingGone ==
  /\ \A s \in SubjectIds : subject[s] # None => subject'[s] = subject[s]
  /\ \A s \in SessionIds : session[s] # None =>
       /\ session'[s] # None /\ session'[s].user = session[s].user
       /\ session'[s].hash = session[s].hash
  /\ \A k \in Users \X SessionIds \X Questions :
       review[k] # None => review'[k] # None

\* Only a deletion takes something away, and it marks every sync under way.
LEMMA GoneIsDisturbed ==
  ASSUME UserInv, NEW c \in Slots, Statement(c)
  PROVE  (NothingGone /\ UNCHANGED clean) \/ (Disturb /\ End(c))
<1>0. /\ subject \in [SubjectIds -> Subject \cup {None}]
      /\ session \in [SessionIds -> Session \cup {None}]
      /\ review \in [Users \X SessionIds \X Questions -> Plans \cup {None}]
  BY DEF UserInv, TypeOK
<1>1. ASSUME NEW u, NEW n, PutSubject(u, n), UNCHANGED <<session, review>>
      PROVE  NothingGone
  BY <1>0, <1>1 DEF PutSubject, NothingGone, UserInv, SubjectsDrawn
<1>2. ASSUME NEW u, NEW e, InsertRow(u, e), UNCHANGED <<subject, review>>
      PROVE  NothingGone
  BY <1>0, <1>2 DEF InsertRow, NothingGone
<1>3. ASSUME UNCHANGED <<subject, session, review>>
      PROVE  NothingGone
  BY <1>3 DEF NothingGone
<1>4. ASSUME UpsertSession(c)
      PROVE  NothingGone
  <2>1. rq[c].entry \in Entry /\ rq[c].entry.subject \in SubjectIds \cup {None}
    BY <1>4 DEF UpsertSession, UserInv, TypeOK, AtStatement, Request, Entry
  <2>2. ASSUME NEW s \in SessionIds, NEW g \in SubjectIds \cup {None},
               session[s] # None, session' = [session EXCEPT ![s].subject = g]
        PROVE  \A r \in SessionIds : session[r] # None =>
                 /\ session'[r] # None /\ session'[r].user = session[r].user
                 /\ session'[r].hash = session[r].hash
    <3>1. session[s] \in Session
      BY <1>0, <2>2
    <3>2. /\ [session[s] EXCEPT !.subject = g] \in Session
          /\ [session[s] EXCEPT !.subject = g].user = session[s].user
          /\ [session[s] EXCEPT !.subject = g].hash = session[s].hash
      BY <3>1 DEF Session
    <3> QED  BY <1>0, <2>2, <3>2, UserStoreAssumption
  <2>3. UNCHANGED <<subject, review>>
    BY <1>4 DEF UpsertSession
  <2>4. CASE \E s \in SessionIds :
               /\ IsRowOf(s, rq[c].user, rq[c].entry.hash)
               /\ session' = [session EXCEPT ![s].subject = rq[c].entry.subject]
    <3>1. PICK s \in SessionIds :
            /\ session[s] # None
            /\ session' = [session EXCEPT ![s].subject = rq[c].entry.subject]
      BY <2>4 DEF IsRowOf
    <3> QED  BY <2>1, <2>2, <2>3, <3>1 DEF NothingGone
  <2> QED  BY <1>2, <1>3, <1>4, <2>3, <2>4 DEF UpsertSession
<1>5. ASSUME NEW plan \in Plans, NEW K,
             review' = [k \in DOMAIN review |-> IF k \in K THEN plan ELSE review[k]],
             UNCHANGED <<subject, session>>
      PROVE  NothingGone
  BY <1>0, <1>5, UserStoreAssumption DEF NothingGone
<1>6. ASSUME NEW plan \in Plans, NEW j,
             review' = [review EXCEPT ![j] = IF @ = None THEN plan ELSE @],
             UNCHANGED <<subject, session>>
      PROVE  NothingGone
  BY <1>0, <1>6, UserStoreAssumption DEF NothingGone
<1>7. ASSUME UpsertReview(c)
      PROVE  NothingGone
  BY <1>3, <1>5, <1>7 DEF UpsertReview, Item
<1>8. ASSUME SyncReview(c)
      PROVE  NothingGone
  <2>1. rq[c].pay \in Payload /\ rq[c].i \in DOMAIN rq[c].pay.reviews
    BY <1>8, UserStoreAssumption DEF SyncReview, UserInv, AtStatement
  <2>2. rq[c].pay.reviews[rq[c].i] \in Item
    BY <2>1 DEF Payload
  <2>3. rq[c].pay.reviews[rq[c].i].plan \in Plans
    BY <2>2 DEF Item
  <2> QED  BY <1>3, <1>6, <1>8, <2>3 DEF SyncReview
<1>9. CASE DeleteSubject(c) \/ DeleteSession(c)
  BY <1>3, <1>9 DEF DeleteSubject, DeleteSession, tables
<1>10. CASE CreateSubject(c) \/ SyncSubject(c)
  BY <1>1, <1>10 DEF CreateSubject, SyncSubject
<1>11. CASE CreateSession(c) \/ SyncSession(c)
  BY <1>2, <1>3, <1>11 DEF CreateSession, SyncSession
<1>12. CASE CheckSubject(c) \/ CheckSubjects(c) \/ Fail(c)
  BY <1>3, <1>12 DEF CheckSubject, CheckSubjects, Fail, tables
<1>13. UpsertSession(c) \/ UpsertReview(c) \/ SyncReview(c) => UNCHANGED clean
  BY DEF UpsertSession, UpsertReview, SyncReview
<1> QED
  BY <1>4, <1>7, <1>8, <1>9, <1>10, <1>11, <1>12, <1>13 DEF Statement

\* The phases that a sync skips have nothing to send.
LEMMA SkippedPhases ==
  ASSUME NEW p, NEW k \in Nat
  PROVE  /\ k <= 1 /\ PhaseFrom(p, k) > 1 => p.subjects = <<>>
         /\ k <= 2 /\ PhaseFrom(p, k) > 2 => p.sessions = <<>>
         /\ k <= 3 /\ PhaseFrom(p, k) > 3 => p.reviews = <<>>
  BY DEF PhaseFrom

\* The next phase is after the one before it, or it is the first.
LEMMA NextPhaseIsLater ==
  ASSUME NEW p, NEW k \in 1..4
  PROVE  PhaseFrom(p, k) \in k..4
  BY DEF PhaseFrom

\* Where NextItem takes a sync.
LEMMA NextItemFields ==
  ASSUME UserInv, NEW c \in Slots, rq[c].step = "exec", rq[c].phase \in 1..3,
         NEW list, NextItem(c, list)
  PROVE  /\ rq'[c].op = "sync" /\ rq'[c].user = rq[c].user /\ rq'[c].pay = rq[c].pay
         /\ \/ /\ rq[c].i < Len(list) /\ rq'[c].step = "exec"
               /\ rq'[c].phase = rq[c].phase /\ rq'[c].i = rq[c].i + 1
            \/ /\ ~(rq[c].i < Len(list)) /\ rq'[c].i = 1
               /\ rq'[c].phase = PhaseFrom(rq[c].pay, rq[c].phase + 1)
               /\ rq'[c].step = "ok" => rq'[c].phase = 4
         /\ rq'[c].step # "idle" /\ \A d \in Slots \ {c} : rq'[d] = rq[d]
<1>1. /\ rq \in [Slots -> Request] /\ rq[c] \in Request /\ rq[c].op = "sync"
  BY DEF UserInv, TypeOK, AtStatement
<1>2. CASE rq[c].i < Len(list)
  <2> DEFINE q == [rq[c] EXCEPT !.i = @ + 1]
  <2>1. rq' = [rq EXCEPT ![c] = q]
    BY <1>1, <1>2 DEF NextItem
  <2>2. /\ q.step = "exec" /\ q.op = "sync" /\ q.user = rq[c].user
        /\ q.pay = rq[c].pay /\ q.phase = rq[c].phase /\ q.i = rq[c].i + 1
    BY <1>1 DEF Request
  <2> HIDE DEF q
  <2> QED  BY <1>1, <1>2, <2>1, <2>2
<1>3. CASE ~(rq[c].i < Len(list))
  <2> DEFINE k == PhaseFrom(rq[c].pay, rq[c].phase + 1)
             q == [rq[c] EXCEPT !.phase = k]
  <2>1. rq' = [rq EXCEPT ![c] = Start(q)]
    BY <1>1, <1>3 DEF NextItem
  <2>2. k \in 1..4
    BY NextPhaseIsLater
  <2>3. /\ q \in Request /\ q.op = "sync" /\ q.user = rq[c].user
        /\ q.pay = rq[c].pay /\ q.phase = k
    <3> HIDE DEF k
    <3> QED  BY <1>1, <2>2 DEF Request
  <2> HIDE DEF k, q
  <2>4. /\ Start(q).op = "sync" /\ Start(q).user = rq[c].user
        /\ Start(q).pay = rq[c].pay /\ Start(q).phase = k /\ Start(q).i = 1
        /\ Start(q).step # "idle" /\ (Start(q).step = "ok" => k = 4)
    BY <2>3, StartFields
  <2> QED  BY <1>1, <1>3, <2>1, <2>4 DEF k
<1> QED  BY <1>2, <1>3

\* What was sent stays sent.
LEMMA SentStays ==
  ASSUME UserInv, NothingGone, NEW u \in Users
  PROVE  /\ \A n \in Names : SubjectSent(u, n) => SubjectSent(u, n)'
         /\ \A h : SessionSent(u, h) => SessionSent(u, h)'
         /\ \A x \in Item : ReviewSent(u, x) => ReviewSent(u, x)'
<1>1. ASSUME NEW n \in Names, SubjectSent(u, n) PROVE SubjectSent(u, n)'
  <2>1. [user |-> u, name |-> n] \in Subject
    BY DEF Subject
  <2> QED  BY <1>1, <2>1, UserStoreAssumption DEF SubjectSent, IsSubject, NothingGone
<1>2. ASSUME NEW h, SessionSent(u, h) PROVE SessionSent(u, h)'
  BY <1>2 DEF SessionSent, NothingGone
<1>3. ASSUME NEW x \in Item, ReviewSent(u, x) PROVE ReviewSent(u, x)'
  BY <1>3 DEF ReviewSent, NothingGone, Item
<1> QED  BY <1>1, <1>2, <1>3

\* A sync whose item is in the tables may go on.
LEMMA NextItemSends ==
  ASSUME NEW c \in Slots, NEW u, NEW p, NEW i, NEW list,
         UserInv, SentSoFar(c), rq[c].step = "exec", rq[c].phase \in 1..3,
         rq[c].user = u, rq[c].pay = p, rq[c].i = i,
         list = CASE rq[c].phase = 1 -> p.subjects
                  [] rq[c].phase = 2 -> p.sessions
                  [] OTHER -> p.reviews,
         NextItem(c, list), NothingGone, UNCHANGED clean,
         rq[c].phase = 1 => SubjectSent(u, p.subjects[i])',
         rq[c].phase = 2 => SessionSent(u, p.sessions[i].hash)',
         rq[c].phase = 3 => ReviewSent(u, p.reviews[i])'
  PROVE  SentSoFar(c)'
<1> SUFFICES ASSUME clean[c] PROVE SentSoFar(c)'
  BY DEF SentSoFar
<1>0. /\ p \in Payloads /\ p \in Payload /\ i \in Nat /\ u \in Users
      /\ rq[c].op = "sync"
  BY UserStoreAssumption DEF UserInv, TypeOK, AtStatement, Request
<1>1. /\ p.subjects \in Seq(Names) /\ p.sessions \in Seq(Entry)
      /\ p.reviews \in Seq(Item)
  BY <1>0 DEF Payload
<1>2. /\ \A n \in Names : SubjectSent(u, n) => SubjectSent(u, n)'
      /\ \A h : SessionSent(u, h) => SessionSent(u, h)'
      /\ \A x \in Item : ReviewSent(u, x) => ReviewSent(u, x)'
  BY <1>0, SentStays
<1>3. /\ rq'[c].op = "sync" /\ rq'[c].user = u /\ rq'[c].pay = p
      /\ rq'[c].step = "ok" => rq'[c].phase = 4
      /\ \/ rq'[c].phase = rq[c].phase /\ rq'[c].i = i + 1
         \/ /\ ~(i < Len(list)) /\ rq'[c].i = 1
            /\ rq'[c].phase = PhaseFrom(p, rq[c].phase + 1)
  BY NextItemFields
<1>4. CASE rq'[c].phase = rq[c].phase /\ rq'[c].i = i + 1
  <2>1. ASSUME NEW k \in 1..3, NEW j \in Nat, Past(rq'[c], k, j)
        PROVE  Past(rq[c], k, j) \/ (rq[c].phase = k /\ j = i)
    BY <1>0, <1>4, <2>1 DEF Past
  <2>2. ASSUME NEW j \in DOMAIN p.subjects, Past(rq'[c], 1, j)
        PROVE  SubjectSent(u, p.subjects[j])'
    <3>1. p.subjects[j] \in Names
      BY <1>1, <2>2
    <3> QED  BY <1>0, <1>1, <1>2, <2>1, <2>2, <3>1 DEF SentSoFar
  <2>3. ASSUME NEW j \in DOMAIN p.sessions, Past(rq'[c], 2, j)
        PROVE  SessionSent(u, p.sessions[j].hash)'
    BY <1>0, <1>1, <1>2, <2>1, <2>3 DEF SentSoFar
  <2>4. ASSUME NEW j \in DOMAIN p.reviews, Past(rq'[c], 3, j)
        PROVE  ReviewSent(u, p.reviews[j])'
    <3>1. p.reviews[j] \in Item
      BY <1>1, <2>4
    <3> QED  BY <1>0, <1>1, <1>2, <2>1, <2>4, <3>1 DEF SentSoFar
  <2> QED  BY <1>0, <1>3, <2>2, <2>3, <2>4 DEF SentSoFar
<1>5. CASE /\ ~(i < Len(list)) /\ rq'[c].i = 1
           /\ rq'[c].phase = PhaseFrom(p, rq[c].phase + 1)
  <2>1. /\ rq[c].phase < 2 /\ rq'[c].phase > 2 => p.sessions = <<>>
        /\ rq[c].phase < 3 /\ rq'[c].phase > 3 => p.reviews = <<>>
    BY <1>5, SkippedPhases
  <2>2. rq'[c].phase \in (rq[c].phase + 1)..4
    BY <1>5, NextPhaseIsLater
  <2>3. ASSUME NEW j \in DOMAIN p.subjects, Past(rq'[c], 1, j)
        PROVE  SubjectSent(u, p.subjects[j])'
    <3>1. Past(rq[c], 1, j) \/ (rq[c].phase = 1 /\ j = i)
      BY <1>0, <1>1, <1>5, <2>2, <2>3 DEF Past
    <3>2. p.subjects[j] \in Names
      BY <1>1, <2>3
    <3> QED  BY <1>0, <1>2, <2>3, <3>1, <3>2 DEF SentSoFar
  <2>4. ASSUME NEW j \in DOMAIN p.sessions, Past(rq'[c], 2, j)
        PROVE  SessionSent(u, p.sessions[j].hash)'
    <3>1. Past(rq[c], 2, j) \/ (rq[c].phase = 2 /\ j = i)
      BY <1>0, <1>1, <1>5, <2>1, <2>2, <2>4 DEF Past
    <3> QED  BY <1>0, <1>2, <3>1 DEF SentSoFar
  <2>5. ASSUME NEW j \in DOMAIN p.reviews, Past(rq'[c], 3, j)
        PROVE  ReviewSent(u, p.reviews[j])'
    <3>1. Past(rq[c], 3, j) \/ (rq[c].phase = 3 /\ j = i)
      BY <1>0, <1>1, <1>5, <2>1, <2>2, <2>5 DEF Past
    <3>2. p.reviews[j] \in Item
      BY <1>1, <2>5
    <3> QED  BY <1>0, <1>2, <3>1, <3>2 DEF SentSoFar
  <2> QED  BY <1>0, <1>3, <2>3, <2>4, <2>5 DEF SentSoFar
<1> QED  BY <1>3, <1>4, <1>5

\* A sync that begins is past the phases that have nothing to send.
LEMMA BeginSends ==
  ASSUME UserInv, NEW c \in Slots, NEW u \in Users, NEW op \in Ops, Begin(c, u, op)
  PROVE  SentSoFar(c)' /\ \A d \in Slots \ {c} : rq'[d] = rq[d]
<1>1. PICK p \in IF op = "sync" THEN Payloads ELSE {None} :
        rq' = [rq EXCEPT ![c] = Start(
                 [NoRequest EXCEPT !.op = op, !.user = u, !.pay = p,
                    !.phase = IF op = "sync" THEN PhaseFrom(p, 1) ELSE 0])]
  BY DEF Begin
<1> DEFINE k == IF op = "sync" THEN PhaseFrom(p, 1) ELSE 0
           r == [NoRequest EXCEPT !.op = op, !.user = u, !.pay = p, !.phase = k]
<1>2. k \in 0..4 /\ op \in OpKinds /\ p \in Payloads \cup {None}
  BY <1>1, NextPhaseIsLater, UserStoreAssumption
<1>3. r \in Request /\ r.op = op /\ r.user = u /\ r.pay = p /\ r.phase = k
  <2> HIDE DEF k
  <2> QED  BY <1>2 DEF NoRequest, Request
<1>4. rq \in [Slots -> Request] /\ rq' = [rq EXCEPT ![c] = Start(r)]
  BY <1>1 DEF UserInv, TypeOK
<1> HIDE DEF r
<1>5. /\ Start(r).op = op /\ Start(r).user = u /\ Start(r).pay = p
      /\ Start(r).phase = k /\ Start(r).i = 1
      /\ Start(r).step = "ok" => k = 4
  BY <1>3, StartFields
<1>6. rq'[c] = Start(r)
  BY <1>4
<1>7. CASE op = "sync"
  <2>1. k = PhaseFrom(p, 1) /\ k \in 1..4 /\ p \in Payload /\ p \in Payloads
    BY <1>1, <1>7, NextPhaseIsLater, UserStoreAssumption
  <2>2. /\ p.subjects \in Seq(Names) /\ p.sessions \in Seq(Entry)
        /\ p.reviews \in Seq(Item)
    BY <2>1 DEF Payload
  <2>3. /\ k > 1 => p.subjects = <<>>
        /\ k > 2 => p.sessions = <<>>
        /\ k > 3 => p.reviews = <<>>
    BY <2>1, SkippedPhases
  <2> HIDE DEF k
  <2>4. /\ \A i \in DOMAIN p.subjects : ~Past(Start(r), 1, i)
        /\ \A i \in DOMAIN p.sessions : ~Past(Start(r), 2, i)
        /\ \A i \in DOMAIN p.reviews : ~Past(Start(r), 3, i)
    BY <1>5, <2>1, <2>2, <2>3 DEF Past
  <2> QED  BY <1>4, <1>5, <1>6, <2>1, <2>4 DEF SentSoFar
<1>8. CASE op # "sync"
  BY <1>4, <1>5, <1>6, <1>8 DEF SentSoFar
<1> QED  BY <1>7, <1>8

\* Each statement leaves its own request with what it has sent.
LEMMA StatementSends ==
  ASSUME UserInv, NEW c \in Slots, SentSoFar(c), Statement(c), NothingGone,
         UNCHANGED clean
  PROVE  SentSoFar(c)'
<1>0. /\ rq \in [Slots -> Request] /\ rq[c] \in Request
      /\ rq[c].step \in {"check", "exec"} =>
           rq[c].phase # 0 <=> rq[c].op = "sync"
  BY DEF UserInv, TypeOK, AtStatement
<1>1. CASE End(c)
  BY <1>0, <1>1 DEF End, SentSoFar, NoRequest
<1>2. CASE CheckSubject(c)
  <2>1. ASSUME NEW e, rq' = [rq EXCEPT ![c].step = "exec", ![c].entry = e]
        PROVE  rq'[c].op = rq[c].op
    BY <1>0, <2>1 DEF Request
  <2> QED  BY <1>1, <1>2, <2>1 DEF CheckSubject, SentSoFar
<1>3. CASE CheckSubjects(c)
  <2>1. ASSUME rq' = [rq EXCEPT ![c].step = "exec"]
        PROVE  SentSoFar(c)'
    <3> DEFINE q == [rq[c] EXCEPT !.step = "exec"]
    <3>1. /\ q.op = rq[c].op /\ q.user = rq[c].user /\ q.pay = rq[c].pay
          /\ q.phase = rq[c].phase /\ q.i = rq[c].i /\ q.step = "exec"
      BY <1>0 DEF Request
    <3>2. rq'[c] = q
      BY <1>0, <2>1
    <3> HIDE DEF q
    <3>3. UNCHANGED <<subject, session, review, clean>> /\ rq[c].step = "check"
      BY <1>3 DEF CheckSubjects, tables
    <3> QED
      BY <3>1, <3>2, <3>3 DEF SentSoFar, Past, SubjectSent, IsSubject, SessionSent,
                              ReviewSent
  <2> QED  BY <1>1, <1>3, <2>1 DEF CheckSubjects
<1> DEFINE u == rq[c].user
           p == rq[c].pay
           i == rq[c].i
<1>4. CASE SyncSubject(c)
  <2>1. u \in Users /\ p \in Payload /\ i \in DOMAIN p.subjects
    BY <1>4, UserStoreAssumption DEF SyncSubject, UserInv, AtStatement
  <2>2. \E s \in SubjectIds : subject'[s] = [user |-> u, name |-> p.subjects[i]]
    BY <1>4 DEF SyncSubject, PutSubject, IsSubject, UserInv, TypeOK
  <2>3. PICK v, l, j : v = u /\ l = p /\ j = i
    OBVIOUS
  <2>4. SubjectSent(v, l.subjects[j])'
    BY <2>2, <2>3 DEF SubjectSent, IsSubject
  <2> QED  BY <1>4, <2>3, <2>4, NextItemSends DEF SyncSubject
<1>5. CASE SyncSession(c) /\ NextItem(c, p.sessions)
  <2>1. session \in [SessionIds -> Session \cup {None}]
    BY DEF UserInv, TypeOK
  <2>2. PICK e : e = p.sessions[i]
    OBVIOUS
  <2>3. \E s \in SessionIds : /\ session'[s] # None /\ session'[s].user = u
                              /\ session'[s].hash = e.hash
    <3>1. CASE InsertRow(u, e)
      <4>1. u \in Users /\ e \in Entry
        BY <1>5, <2>2, UserStoreAssumption DEF SyncSession, UserInv, AtStatement, Payload
      <4>2. /\ Row(u, e) \in Session /\ Row(u, e).user = u
            /\ Row(u, e).hash = e.hash
        BY <4>1 DEF Row, Entry, Session
      <4>3. PICK s \in SessionIds : session' = [session EXCEPT ![s] = Row(u, e)]
        BY <3>1 DEF InsertRow
      <4> QED  BY <2>1, <4>2, <4>3, UserStoreAssumption
    <3>2. CASE HasRow(u, e.hash) /\ UNCHANGED session
      BY <3>2 DEF HasRow, IsRowOf
    <3>3. ~End(c)
      <4>1. rq'[c].step # "idle"
        BY <1>5, NextItemFields DEF SyncSession
      <4> QED  BY <1>0, <4>1 DEF End, NoRequest
    <3> QED  BY <1>5, <2>2, <3>1, <3>2, <3>3 DEF SyncSession
  <2>4. PICK v, l, j : v = u /\ l = p /\ j = i
    OBVIOUS
  <2>5. SessionSent(v, l.sessions[j].hash)'
    BY <2>2, <2>3, <2>4 DEF SessionSent
  <2> QED  BY <1>5, <2>4, <2>5, NextItemSends DEF SyncSession
<1>6. CASE SyncReview(c) /\ NextItem(c, p.reviews)
  <2>1. u \in Users /\ p \in Payload /\ i \in DOMAIN p.reviews
    BY <1>6, UserStoreAssumption DEF SyncReview, UserInv, AtStatement
  <2>2. PICK x \in Item : x = p.reviews[i]
    BY <2>1 DEF Payload
  <2>3. review' = [review EXCEPT ![<<u, x.session, x.question>>] =
                     IF @ = None THEN x.plan ELSE @]
    <3>1. rq'[c].step # "idle"
      BY <1>6, NextItemFields DEF SyncReview
    <3>2. ~End(c)
      BY <1>0, <3>1 DEF End, NoRequest
    <3> QED  BY <1>6, <2>2, <3>2 DEF SyncReview
  <2>4. /\ <<u, x.session, x.question>> \in Users \X SessionIds \X Questions
        /\ x.plan \in Plans
        /\ review \in [Users \X SessionIds \X Questions -> Plans \cup {None}]
    BY <2>1, <2>2 DEF Item, UserInv, TypeOK
  <2>5. review'[<<u, x.session, x.question>>] # None
    BY <2>3, <2>4, UserStoreAssumption
  <2>6. PICK v, l, j : v = u /\ l = p /\ j = i
    OBVIOUS
  <2>7. ReviewSent(v, l.reviews[j])'
    BY <2>2, <2>5, <2>6 DEF ReviewSent
  <2> QED  BY <1>6, <2>6, <2>7, NextItemSends DEF SyncReview
<1>7. CASE ~End(c) /\ ~CheckSubject(c) /\ ~CheckSubjects(c)
  BY <1>4, <1>5, <1>6, <1>7 DEF Statement, CreateSubject, DeleteSubject, CreateSession,
     UpsertSession, DeleteSession, UpsertReview, SyncSession, SyncReview, Fail
<1> QED  BY <1>1, <1>2, <1>3, <1>7

\* Every step keeps it: of the request that moves by what it has written, of
\* the others as nothing is gone unless they are marked.
LEMMA NextSyncInv == UserInv /\ SyncInv /\ [Next]_vars => SyncInv'
<1> SUFFICES ASSUME UserInv, SyncInv, [Next]_vars, NEW d \in Slots
             PROVE  SentSoFar(d)'
  BY DEF SyncInv
<1>0. SentSoFar(d) /\ rq \in [Slots -> Request]
  BY DEF SyncInv, UserInv, TypeOK
<1>1. ASSUME NothingGone, rq'[d] = rq[d], clean'[d] = clean[d]
      PROVE  SentSoFar(d)'
  <2>1. PICK r : r = rq[d] /\ rq'[d] = r
    BY <1>1
  <2> SUFFICES ASSUME r.step # "idle", r.op = "sync", clean[d]
               PROVE  SentSoFar(d)'
    BY <1>1, <2>1 DEF SentSoFar
  <2>2. r.user \in Users /\ r.pay \in Payloads /\ r.pay \in Payload
    BY <1>0, <2>1, UserStoreAssumption DEF UserInv, AtStatement, SentSoFar
  <2>3. /\ \A i \in DOMAIN r.pay.subjects : r.pay.subjects[i] \in Names
        /\ \A i \in DOMAIN r.pay.reviews : r.pay.reviews[i] \in Item
    BY <2>2 DEF Payload
  <2> QED  BY <1>0, <1>1, <2>1, <2>2, <2>3, SentStays DEF SentSoFar
<1>2. CASE Disturb /\ rq'[d] = rq[d]
  BY <1>2 DEF Disturb, SentSoFar
<1>3. ASSUME NEW c \in Slots, Statement(c), d # c
      PROVE  SentSoFar(d)'
  <2>1. rq'[d] = rq[d]
    <3>1. ASSUME NEW list, NextItem(c, list), rq[c].step = "exec", rq[c].phase \in 1..3
          PROVE  rq'[d] = rq[d]
      BY <1>3, <3>1, NextItemFields
    <3>2. CASE End(c)
      BY <1>0, <1>3, <3>2 DEF End
    <3>3. CASE CheckSubject(c) \/ CheckSubjects(c)
      BY <1>0, <1>3, <3>2, <3>3 DEF CheckSubject, CheckSubjects
    <3>4. CASE SyncSubject(c)
      BY <3>1, <3>4 DEF SyncSubject
    <3>5. CASE SyncSession(c)
      BY <3>1, <3>2, <3>5 DEF SyncSession
    <3>6. CASE SyncReview(c)
      BY <3>1, <3>2, <3>6 DEF SyncReview
    <3> QED
      BY <1>3, <3>2, <3>3, <3>4, <3>5, <3>6 DEF Statement, CreateSubject, DeleteSubject,
         CreateSession, UpsertSession, DeleteSession, UpsertReview, Fail
  <2> QED  BY <1>1, <1>2, <1>3, <2>1, GoneIsDisturbed
<1>4. CASE Statement(d)
  <2>1. CASE NothingGone /\ UNCHANGED clean
    BY <1>0, <1>4, <2>1, StatementSends
  <2>2. CASE End(d)
    BY <1>0, <2>2 DEF End, NoRequest, SentSoFar
  <2> QED  BY <1>4, <2>1, <2>2, GoneIsDisturbed
<1>5. ASSUME NEW c \in Slots, NEW u \in Users, NEW op \in Ops, Begin(c, u, op)
      PROVE  SentSoFar(d)'
  <2>1. CASE c = d
    BY <1>5, <2>1, BeginSends
  <2>2. CASE c # d
    <3>1. rq'[d] = rq[d]
      BY <1>5, <2>2, BeginSends
    <3>2. clean'[d] = clean[d] /\ NothingGone
      BY <1>5, <2>2 DEF Begin, NothingGone, tables, UserInv, TypeOK
    <3> QED  BY <1>1, <3>1, <3>2
  <2> QED  BY <2>1, <2>2
<1>6. CASE UNCHANGED vars
  BY <1>1, <1>6 DEF vars, tables, NothingGone
<1> QED  BY <1>3, <1>4, <1>5, <1>6 DEF Next

\* A sync that is answered 200 has left all it was sent, unless something was
\* deleted meanwhile: for any number of devices and any payloads.
THEOREM SyncsComplete == Spec => []SyncComplete
<1>1. Init => SyncInv
  BY DEF Init, SyncInv, SentSoFar, NoRequest
<1>2. ASSUME UserInv, SyncInv, NEW c \in Slots, rq[c].step = "ok", rq[c].op = "sync",
             clean[c]
      PROVE  Sent(rq[c].user, rq[c].pay)
  <2>1. SentSoFar(c) /\ rq[c].pay \in Payload /\ rq[c].phase = 4
    BY <1>2, UserStoreAssumption DEF SyncInv, SentSoFar
  <2>2. \A k \in 1..3 : \A i : Past(rq[c], k, i)
    BY <2>1 DEF Past
  <2> QED
    BY <1>2, <2>1, <2>2 DEF SentSoFar, Sent, SubjectSent, SessionSent, ReviewSent
<1>3. UserInv /\ SyncInv => SyncComplete
  BY <1>2 DEF SyncComplete
<1> QED  BY UserInvariance, NextSyncInv, <1>1, <1>3, PTL DEF Spec
=============================================================================
