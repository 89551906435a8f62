------------------------------ MODULE UserStore ------------------------------
(***************************************************************************)
(* The tables behind /user/*: a user's subjects, sessions and review       *)
(* schedule, written by user_store.py.                                     *)
(*                                                                         *)
(* Every statement commits by itself, so a handler that sends several (the *)
(* ownership check and the insert, the three loops of /user/sync) leaves   *)
(* what it has written when a later one fails, and other requests run      *)
(* between two of them.  An action is one statement.  The wait for one of  *)
(* the pool's five connections is part of the time before it.              *)
(***************************************************************************)
EXTENDS Naturals, Sequences, FiniteSets

CONSTANTS
  Users,       \* users with an account
  Names,       \* subject names
  Hashes,      \* PDF hashes
  SubjectIds,  \* ids gen_random_uuid can draw: the bound on new subjects
  SessionIds,  \* ids of session rows, drawn or chosen by the client
  Questions,   \* question ids
  Plans,       \* review states: interval, next date, ease, repetitions
  Entries,     \* the sessions that clients describe
  Payloads,    \* the bodies of /user/sync that devices send
  Slots,       \* requests in flight
  Ops,         \* the kinds of request a model admits
  None         \* SQL NULL, Python None, no row

OpKinds == {"subject", "dropSubject", "session", "upload", "dropSession",
            "review", "sync"}

Subject == [user : Users, name : Names]
\* What a client says of a session.  Names, counts and status are left out.
Entry == [hash : Hashes \cup {None}, subject : SubjectIds \cup {None}]
Session == [user : Users, hash : Hashes \cup {None},
            subject : SubjectIds \cup {None}]
Item == [session : SessionIds, question : Questions, plan : Plans]
Payload == [subjects : Seq(Names), sessions : Seq(Entry), reviews : Seq(Item)]

ASSUME UserStoreAssumption ==
  /\ Entries \subseteq Entry
  /\ Payloads \subseteq Payload
  /\ Ops \subseteq OpKinds
  /\ None \notin Hashes \cup SubjectIds \cup Plans \cup Entry \cup Payloads
  /\ None \notin Subject \cup Session

VARIABLES
  subject,  \* subject id -> row of user_subjects or None
  session,  \* session id -> row of user_sessions or None
  review,   \* (user, session, question) -> plan in user_review_schedule
  drawn,    \* subject ids handed out so far: a UUID is not drawn twice
  rq,       \* slot -> its request
  clean     \* slot -> nothing was deleted since its request began (history)

tables == <<subject, session, review, drawn>>
vars == <<tables, rq, clean>>

Request == [step : {"idle", "check", "exec", "ok"},
            op : OpKinds \cup {None}, user : Users \cup {None},
            entry : Entry \cup {None}, pay : Payloads \cup {None},
            phase : 0..4, i : Nat]
NoRequest == [step |-> "idle", op |-> None, user |-> None, entry |-> None,
              pay |-> None, phase |-> 0, i |-> 0]

Init ==
  /\ subject = [s \in SubjectIds |-> None]
  /\ session = [s \in SessionIds |-> None]
  /\ review = [k \in Users \X SessionIds \X Questions |-> None]
  /\ drawn = {}
  /\ rq = [c \in Slots |-> NoRequest]
  /\ clean = [c \in Slots |-> TRUE]

-----------------------------------------------------------------------------
(* The constraints of the schema.                                          *)

\* user_subjects: UNIQUE (user_id, name).
IsSubject(s, u, n) == subject[s] = [user |-> u, name |-> n]

\* user_sessions: UNIQUE (user_id, pdf_hash); NULLs do not conflict.
IsRowOf(s, u, h) ==
  /\ h # None
  /\ session[s] # None
  /\ session[s].user = u
  /\ session[s].hash = h

\* Mutant: the schema before migration 003.
MutHasRow(u, h) == FALSE

HasRow(u, h) == \E s \in SessionIds : IsRowOf(s, u, h)

\* user_sessions.subject_id REFERENCES user_subjects(id).
SubjectExists(s) == s # None => subject[s] # None

\* The ownership check before a session is inserted: SELECT 1 FROM
\* user_subjects WHERE id = ... AND user_id = ...
OwnsSubject(u, s) == s # None => subject[s] # None /\ subject[s].user = u

\* Mutant: the key of migration 001, without the user.
MutReviewKeys(u, s, q) ==
  {k \in Users \X SessionIds \X Questions :
     k[2] = s /\ k[3] = q /\ review[k] # None} \cup {<<u, s, q>>}

\* The row of user_review_schedule that ON CONFLICT (user_id, session_id,
\* question_id) writes.
ReviewKeys(u, s, q) == {<<u, s, q>>}

-----------------------------------------------------------------------------
(* A request and the statement it is at.                                   *)

\* The first phase of sync from k on that has anything to send.
PhaseFrom(p, k) ==
  IF k <= 1 /\ p.subjects # <<>> THEN 1
  ELSE IF k <= 2 /\ p.sessions # <<>> THEN 2
  ELSE IF k <= 3 /\ p.reviews # <<>> THEN 3 ELSE 4

\* The first statement of an operation, or of a phase of sync: the ownership
\* check where there is one.  A sync with nothing left to send is answered.
Start(r) ==
  [r EXCEPT !.i = 1,
            !.step = IF r.phase = 4 THEN "ok"
                     ELSE IF r.op \in {"session", "upload"} \/ r.phase = 2
                          THEN "check" ELSE "exec"]

Begin(c, u, op) ==
  /\ rq[c].step \in {"idle", "ok"}
  /\ \E p \in IF op = "sync" THEN Payloads ELSE {None} :
       rq' = [rq EXCEPT ![c] = Start(
                [NoRequest EXCEPT !.op = op, !.user = u, !.pay = p,
                   !.phase = IF op = "sync" THEN PhaseFrom(p, 1) ELSE 0])]
  /\ clean' = [clean EXCEPT ![c] = TRUE]
  /\ UNCHANGED tables

\* The handler returns, or raises: 403, or 500 for a constraint or a lost
\* connection.  Only the answer of a sync is kept, for SyncComplete.
End(c) == rq' = [rq EXCEPT ![c] = NoRequest]

\* A row was deleted: what a sync has sent may be gone again.
Disturb == clean' = [c \in Slots |-> clean[c] /\ rq[c].op # "sync"]

\* The connection is lost: the statement raises.
Fail(c) ==
  /\ rq[c].step \in {"check", "exec"}
  /\ End(c)
  /\ UNCHANGED <<tables, clean>>

-----------------------------------------------------------------------------
(* Subjects.                                                               *)

\* INSERT ... ON CONFLICT (user_id, name): an existing row keeps its id.
PutSubject(u, n) ==
  \/ /\ \E s \in SubjectIds : IsSubject(s, u, n)
     /\ UNCHANGED <<subject, drawn>>
  \/ /\ \A s \in SubjectIds : ~IsSubject(s, u, n)
     /\ \E s \in SubjectIds \ drawn :
          /\ subject' = [subject EXCEPT ![s] = [user |-> u, name |-> n]]
          /\ drawn' = drawn \cup {s}

CreateSubject(c) ==
  /\ rq[c].step = "exec" /\ rq[c].op = "subject"
  /\ \E n \in Names : PutSubject(rq[c].user, n)
  /\ End(c)
  /\ UNCHANGED <<session, review, clean>>

\* Mutant: ON DELETE is not checked.
MutReferenced(s) == FALSE

\* A session refers to subject s, so the foreign key refuses its deletion.
Referenced(s) ==
  \E r \in SessionIds : session[r] # None /\ session[r].subject = s

DeleteSubject(c) ==
  /\ rq[c].step = "exec" /\ rq[c].op = "dropSubject"
  /\ \E s \in SubjectIds :
       IF subject[s] # None /\ subject[s].user = rq[c].user
       THEN IF Referenced(s)
            THEN End(c) /\ UNCHANGED <<tables, clean>>
            ELSE /\ subject' = [subject EXCEPT ![s] = None]
                 /\ Disturb /\ End(c)
                 /\ UNCHANGED <<session, review, drawn>>
       ELSE End(c) /\ UNCHANGED <<tables, clean>>

-----------------------------------------------------------------------------
(* Sessions.                                                               *)

\* Mutant: the check's answer is not looked at.
MutCheckSubject(c) ==
  /\ rq[c].step = "check" /\ rq[c].op \in {"session", "upload"}
  /\ \E e \in Entries :
       /\ rq[c].op = "upload" => e.hash # None
       /\ rq' = [rq EXCEPT ![c].step = "exec", ![c].entry = e]
  /\ UNCHANGED <<tables, clean>>

\* create_session and upsert_session, first statement.  An upload has a hash.
CheckSubject(c) ==
  /\ rq[c].step = "check" /\ rq[c].op \in {"session", "upload"}
  /\ \E e \in Entries :
       /\ rq[c].op = "upload" => e.hash # None
       /\ IF OwnsSubject(rq[c].user, e.subject)
          THEN rq' = [rq EXCEPT ![c].step = "exec", ![c].entry = e]
          ELSE End(c)
  /\ UNCHANGED <<tables, clean>>

Row(u, e) == [user |-> u, hash |-> e.hash, subject |-> e.subject]

InsertRow(u, e) ==
  /\ SubjectExists(e.subject)
  /\ ~HasRow(u, e.hash)
  /\ \E s \in SessionIds :
       /\ session[s] = None
       /\ session' = [session EXCEPT ![s] = Row(u, e)]

\* create_session, second statement: a plain INSERT, with the id the client
\* chose if it sent one; the constraints may refuse it.
CreateSession(c) ==
  /\ rq[c].step = "exec" /\ rq[c].op = "session"
  /\ \/ InsertRow(rq[c].user, rq[c].entry) /\ End(c)
     \/ /\ \/ ~SubjectExists(rq[c].entry.subject)
           \/ HasRow(rq[c].user, rq[c].entry.hash)
           \/ \E s \in SessionIds : session[s] # None   \* the id is taken
        /\ End(c)
        /\ UNCHANGED session
  /\ UNCHANGED <<subject, review, drawn, clean>>

\* upsert_session, second statement: the row of this document, if there is
\* one, gets the subject of the new upload, or none.
UpsertSession(c) ==
  LET u == rq[c].user  e == rq[c].entry IN
  /\ rq[c].step = "exec" /\ rq[c].op = "upload"
  /\ \/ InsertRow(u, e) /\ End(c)
     \/ /\ SubjectExists(e.subject)
        /\ \E s \in SessionIds :
             /\ IsRowOf(s, u, e.hash)
             /\ session' = [session EXCEPT ![s].subject = e.subject]
        /\ End(c)
     \/ /\ ~SubjectExists(e.subject)
        /\ End(c)
        /\ UNCHANGED session
  /\ UNCHANGED <<subject, review, drawn, clean>>

\* Mutant: the reviews of a deleted session stay.
MutCascade(s) == review

\* ON DELETE CASCADE takes everyone's reviews of the session along.
Cascade(s) == [k \in DOMAIN review |-> IF k[2] = s THEN None ELSE review[k]]

DeleteSession(c) ==
  /\ rq[c].step = "exec" /\ rq[c].op = "dropSession"
  /\ \E s \in SessionIds :
       IF session[s] # None /\ session[s].user = rq[c].user
       THEN /\ session' = [session EXCEPT ![s] = None]
            /\ review' = Cascade(s)
            /\ Disturb
       ELSE UNCHANGED <<session, review, clean>>
  /\ End(c)
  /\ UNCHANGED <<subject, drawn>>

-----------------------------------------------------------------------------
(* Reviews.                                                                *)

\* The later write wins.  The session may be anyone's, but must exist.
UpsertReview(c) ==
  /\ rq[c].step = "exec" /\ rq[c].op = "review"
  /\ \E x \in Item :
       IF session[x.session] # None
       THEN /\ review' = [k \in DOMAIN review |->
                 IF k \in ReviewKeys(rq[c].user, x.session, x.question)
                 THEN x.plan ELSE review[k]]
            /\ End(c)
       ELSE End(c) /\ UNCHANGED review
  /\ UNCHANGED <<subject, session, drawn, clean>>

-----------------------------------------------------------------------------
(* POST /user/sync: three loops, one connection each, no transaction.      *)

\* The loop goes on, or the next phase starts.
NextItem(c, list) ==
  IF rq[c].i < Len(list)
  THEN rq' = [rq EXCEPT ![c].i = @ + 1]
  ELSE rq' = [rq EXCEPT ![c] = Start(
         [@ EXCEPT !.phase = PhaseFrom(rq[c].pay, rq[c].phase + 1)])]

SyncSubject(c) ==
  /\ rq[c].step = "exec" /\ rq[c].phase = 1
  /\ PutSubject(rq[c].user, rq[c].pay.subjects[rq[c].i])
  /\ NextItem(c, rq[c].pay.subjects)
  /\ UNCHANGED <<session, review, clean>>

\* sync_sessions refuses the whole list if one subject is not the user's.
CheckSubjects(c) ==
  LET list == rq[c].pay.sessions IN
  /\ rq[c].step = "check" /\ rq[c].phase = 2
  /\ IF \A i \in DOMAIN list : OwnsSubject(rq[c].user, list[i].subject)
     THEN rq' = [rq EXCEPT ![c].step = "exec"]
     ELSE End(c)
  /\ UNCHANGED <<tables, clean>>

\* INSERT ... ON CONFLICT (user_id, pdf_hash) DO NOTHING.
SyncSession(c) ==
  LET u == rq[c].user  e == rq[c].pay.sessions[rq[c].i] IN
  /\ rq[c].step = "exec" /\ rq[c].phase = 2
  /\ \/ InsertRow(u, e) /\ NextItem(c, rq[c].pay.sessions)
     \/ /\ HasRow(u, e.hash)
        /\ NextItem(c, rq[c].pay.sessions)
        /\ UNCHANGED session
     \/ /\ ~HasRow(u, e.hash)
        /\ ~SubjectExists(e.subject)
        /\ End(c)
        /\ UNCHANGED session
  /\ UNCHANGED <<subject, review, drawn, clean>>

\* Mutant: a review that cannot be inserted is skipped.
MutSyncReview(c) ==
  LET x == rq[c].pay.reviews[rq[c].i]
      k == <<rq[c].user, x.session, x.question>> IN
  /\ rq[c].step = "exec" /\ rq[c].phase = 3
  /\ IF session[x.session] # None
     THEN review' = [review EXCEPT ![k] = IF @ = None THEN x.plan ELSE @]
     ELSE UNCHANGED review
  /\ NextItem(c, rq[c].pay.reviews)
  /\ UNCHANGED <<subject, session, drawn, clean>>

\* INSERT ... ON CONFLICT (user_id, session_id, question_id) DO NOTHING.
SyncReview(c) ==
  LET x == rq[c].pay.reviews[rq[c].i]
      k == <<rq[c].user, x.session, x.question>> IN
  /\ rq[c].step = "exec" /\ rq[c].phase = 3
  /\ IF session[x.session] # None
     THEN /\ review' = [review EXCEPT ![k] = IF @ = None THEN x.plan ELSE @]
          /\ NextItem(c, rq[c].pay.reviews)
     ELSE End(c) /\ UNCHANGED review
  /\ UNCHANGED <<subject, session, drawn, clean>>

-----------------------------------------------------------------------------
Statement(c) ==
  \/ CreateSubject(c) \/ DeleteSubject(c) \/ CheckSubject(c)
  \/ CreateSession(c) \/ UpsertSession(c) \/ DeleteSession(c)
  \/ UpsertReview(c) \/ SyncSubject(c) \/ CheckSubjects(c)
  \/ SyncSession(c) \/ SyncReview(c) \/ Fail(c)

Next ==
  \E c \in Slots :
    \/ \E u \in Users, op \in Ops : Begin(c, u, op)
    \/ Statement(c)

Spec == Init /\ [][Next]_vars

-----------------------------------------------------------------------------
(* What the tables promise.                                                *)

\* Every variable has its type.
TypeOK ==
  /\ subject \in [SubjectIds -> Subject \cup {None}]
  /\ session \in [SessionIds -> Session \cup {None}]
  /\ review \in [Users \X SessionIds \X Questions -> Plans \cup {None}]
  /\ drawn \subseteq SubjectIds
  /\ rq \in [Slots -> Request]
  /\ clean \in [Slots -> BOOLEAN]

\* A session is filed under a subject of its own user, although the check and
\* the insert are two statements and subjects are deleted between them.
SubjectOwned ==
  \A s \in SessionIds : (session[s] # None /\ session[s].subject # None) =>
    /\ subject[session[s].subject] # None
    /\ subject[session[s].subject].user = session[s].user

\* No review outlives its session, whoever deletes it and whoever writes a
\* review at the same time.
ReviewsLive ==
  \A k \in DOMAIN review : review[k] # None => session[k[2]] # None

\* However syncs, retries and uploads of two devices interleave, a user has
\* one row per document.
OneRowPerDocument ==
  \A s, r \in SessionIds :
    (session[s] # None /\ IsRowOf(r, session[s].user, session[s].hash)) => r = s

\* Only a drawn id is a subject's.
SubjectsDrawn == \A g \in SubjectIds : subject[g] # None => g \in drawn

\* A subject that was user u's when it was checked: as ids are not drawn
\* twice, it can be gone since, but not become another user's.
Checked(u, g) ==
  g # None => g \in drawn /\ (subject[g] = None \/ subject[g].user = u)

\* What a request knows at the statement it is at.
AtStatement(c) ==
  LET r == rq[c] IN
  /\ r.step # "idle" => r.user \in Users
  /\ r.step \in {"check", "exec"} /\ r.phase = 0 => r.op # "sync"
  /\ r.step \in {"check", "exec"} /\ r.phase # 0 =>
       /\ r.op = "sync" /\ r.pay \in Payloads
       /\ r.phase = 1 => r.i \in DOMAIN r.pay.subjects
       /\ r.phase = 2 => r.i \in DOMAIN r.pay.sessions
       /\ r.phase = 3 => r.i \in DOMAIN r.pay.reviews
  /\ r.step = "exec" /\ r.op \in {"session", "upload"} =>
       r.entry # None /\ Checked(r.user, r.entry.subject)
  /\ r.step = "exec" /\ r.phase = 2 =>
       \A j \in DOMAIN r.pay.sessions :
         Checked(r.user, r.pay.sessions[j].subject)

\* The inductive invariant: between the check of a subject and the insert the
\* request's state keeps what the check has seen.
UserInv ==
  /\ TypeOK
  /\ SubjectsDrawn
  /\ \A c \in Slots : AtStatement(c)
  /\ SubjectOwned
  /\ ReviewsLive
  /\ OneRowPerDocument

\* A user's review schedule is changed by that user's requests, or goes with
\* its session: what migration 002 is for.
OwnReviews ==
  [][\A k \in DOMAIN review : review'[k] # review[k] =>
       \/ session'[k[2]] = None
       \/ \E c \in Slots : /\ rq[c].user = k[1] /\ rq[c].step = "exec"
                           /\ rq'[c] # rq[c]]_vars

\* A sync that is answered 200 has left all it was sent, unless something
\* was deleted meanwhile: failed attempts before it, a second device and the
\* server's own rows notwithstanding.
Sent(u, p) ==
  /\ \A i \in DOMAIN p.subjects :
       \E s \in SubjectIds : IsSubject(s, u, p.subjects[i])
  /\ \A i \in DOMAIN p.sessions :
       \E s \in SessionIds : /\ session[s] # None /\ session[s].user = u
                             /\ session[s].hash = p.sessions[i].hash
  /\ \A i \in DOMAIN p.reviews :
       review[<<u, p.reviews[i].session, p.reviews[i].question>>] # None
SyncComplete ==
  \A c \in Slots :
    (rq[c].step = "ok" /\ rq[c].op = "sync" /\ clean[c]) =>
      Sent(rq[c].user, rq[c].pay)

\* user.py:188 says of /user/sync: the same data sent again is not created
\* again.  A user then has at most the rows without a hash that one payload
\* names; but NULL conflicts with nothing, so each call inserts them again.
SyncIdempotent ==
  \A u \in Users : \E p \in Payloads :
    Cardinality({s \in SessionIds : /\ session[s] # None /\ session[s].user = u
                                    /\ session[s].hash = None})
      <= Cardinality({i \in DOMAIN p.sessions : p.sessions[i].hash = None})
=============================================================================
