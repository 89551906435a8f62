# A verification of study-helper-backend

TLA+ models of the study-helper backend (`app/`), their TLC runs and their
TLAPS proofs.  The backend takes a PDF, has an LLM write study notes and
questions about it in a background task, and keeps the result in three places
that share no transaction.  Most of what can go wrong in it goes wrong between
those three places, so they are the core of the models; the user's tables, the
clients of the LLM providers, authentication and the pure functions are around it.

## The system

| Component | State | Operations | Modelled in |
|---|---|---|---|
| Upload endpoint (`routers/upload.py`) | none of its own | `POST /upload`: parse, upsert the row, save the record | `StudySession` |
| Generation endpoints (`routers/generate.py`) | none of their own | `POST /generate`, `GET /status`, `GET /result`, `DELETE /session` | `StudySession` |
| Pipeline (`_run_generation`) | one background task per accepted `/generate` | three LLM stages, `_fail`, `_finalize_ready` | `StudySession` |
| Session store (`services/session_store.py`) | a `SessionRecord` per id, in Redis (TTL 2 h) or in process memory | `save`, `get`, `update_status`, `delete` | `StudySession` (Redis), `StudySessionMemory` (in process), `SessionStore` (what both are taken for) |
| Question bank (`services/question_bank.py`) | table `question_bank`: content by PDF hash | `get_cached`, `save_to_bank` | `StudySession` |
| User store (`services/user_store.py`, `routers/user.py`, `migrations/`) | tables `user_subjects`, `user_sessions`, `user_review_schedule` | upsert, status sync, delete, list with self-heal; subjects, reviews, `POST /user/sync` | `StudySession` (a row's status), `UserStore` (keys, subjects, reviews, sync) |
| Anthropic and OpenAI clients | a circuit breaker per worker | `generate_with_retry` | `LlmClient`, `LlmCall` |
| TimelyGPT client | the same, and a token cache with a lock | `generate_with_retry` | `TimelyClient` |
| Authentication (`core/auth.py`) | the JWKS cache | `get_current_user` | `JwksCache` |
| Validation and JSON recovery (`response_validator.py`, `json_utils.py`) | none | `extract_json`, `validate_notes`, `validate_mcq`, `validate_fill` | `ResponseValidator`, `JsonRecovery` |
| Prompt builder (`prompt_builder.py`) | none | the three prompts, question counts | the concept list, in `ResponseValidator` |
| PDF parser (`pdf_parser.py`) | none | `parse_pdf` | `PdfParser` |
| Shell: settings, logging, errors, start-up, deployment | none that matters here | | no |

How they interact.  `/upload` upserts a row of `user_sessions` (conflict target
`(user_id, pdf_hash)`), takes the id of the row as the session id, and saves a
record under it.  `/generate` checks the record and starts a task.  The task
asks the bank for the document's hash; on a hit it publishes that content, and
otherwise it makes three LLM calls, writing the record after each.  To publish
is to write `complete` to the record, then `ready` to the row; if the row
cannot be written the record goes back to `failed`.  Own content is put in the
bank after that.  `/result` answers from the record or, when there is none,
from the row and the bank.  Listing the sessions promotes `pending` rows whose
document is in the bank.  A mobile device that logs in sends its subjects,
sessions and reviews in one `POST /user/sync`.  Every `/user/*` request, and
any other that carries a token, is authenticated first.

What is hard.  Everything runs in one event loop per worker, so code
interleaves at each `await` and only there.  `update_status` is a read, an
await and a write of the whole record.  Tasks hold the record that they read
first for minutes.  Nothing marks a session as taken until a task's first
write.  Each of the three stores can fail alone, records expire, and a restart
takes tasks and requests with it.  Concurrent LLM calls share one breaker.
Every SQL statement commits by itself, so a check and the insert it allows,
and the loops of a sync, are open to other requests and to half failures.

## Modules

| Module | What it is |
|---|---|
| `StudySession` | the pipeline, the handlers and the three stores |
| `StudySessionClaims` | what documents, comments and tests say and the code does not do |
| `StudySessionProofs` | theorems about `StudySession`: whose content is where, and who is at work |
| `StudySessionOutcomeProofs` | theorems about the outcome of a generation: that of row, record and bank together |
| `LlmClient` | `generate_with_retry` and its circuit breaker, with time |
| `LlmCall` | what the pipeline relies on: a call ends, once, with one outcome |
| `LlmClientProofs` | theorems about `LlmClient`, and that it implements `LlmCall` |
| `TimelyClient` | the same with the token cache and the lock of `timely_client.py`; extends `LlmClient` |
| `TimelyClientProofs` | theorems about `TimelyClient`: token, lock, breaker, contract |
| `StudySessionMemory`, `StudySessionMemoryProofs` | the same pipeline over the in-process store, and theorems about it |
| `SessionStore` | what `session_store.py` promises: atomic save, update, delete |
| `UserStore`, `UserStoreProofs` | the tables behind `/user/*`, and theorems about them |
| `JwksCache`, `JwksCacheProofs` | authentication and its key cache, and theorems about them |
| `JsonRecovery`, `ResponseValidator`, `PdfParser` | the pure functions, as operators |
| `Content`, `ContentProofs` | every input of those up to a bound, what must come of it, and theorems for inputs of any length |
| `MCStudySession`, `MCStudySessionMemory`, `MCUserStore`, `MCJwksCache`, `MCContent`, `MCLlmClient`, `MCTimelyClient` | symmetry sets and inputs for TLC |

### StudySession

An action is the code between two awaits.  `store`, `row` and `bank` are the
three stores; a record keeps its owner, hash, status and `result_json`, which
is either `Doc`, the parsed text of the upload, or the name of the task that
generated the content.  Progress and error message are left out: they are only
shown.  A task's `pc` is the await it
stands at, `held` the record of line 73, `upd` and `snap` the `update_status`
call it is in and the record this call has read.  `rq[c]` is what is left of a
request that spans several awaits; a request that reads once and answers needs
no slot, and `GET /status`, which changes nothing, is left out.
`origin` is history: who uploaded what under an id.

| Actions | Code |
|---|---|
| `Upload`, `SaveUpload` | `upload_pdf` before and after the upsert |
| `Generate` | `start_generation` |
| `GetRecord`, `LookupBank`, `CallLlm` | `_run_generation` at its own awaits |
| `ReadRecord`, `WriteRecord` | `update_status`; `Resume` is the code that then runs up to the next await |
| `SyncReady`, `SyncFailed` | `_sync_user_session_status` in `_finalize_ready` and `_fail` |
| `SaveToBank` | `save_to_bank` |
| `FallBack`, `LoadRow`, `LoadBank` | `get_result` and `_load_result_from_db`; `ResultCode` is what the record alone answers |
| `DeleteSession`, `DeleteUserSession`, `DropRecord` | the two delete endpoints |
| `ListSessions`, `MatchBank`, `PromoteRows` | `get_sessions` with its self-heal |
| `TaskDies`, `StoreError`, `LoseRecord`, `Crash` | exceptions nobody catches, a failing store, the TTL, a restart |

The constant `Faults` names the faults a run admits.  Failing queries are
choices inside the actions that make them, as the code handles them there.
The number of session ids, tasks and request slots are the bounds; a task is
never used twice, nor an id drawn twice, as `uuid4` is meant to guarantee.

Assumed of the surroundings: one Redis, with commands applied in the order they
are sent; rows come from `/upload` only (`POST /user/sessions` and `/user/sync`
insert rows with a status the client chooses, and `ReadyWasGenerated` and
`ReadyRecoverable` say nothing of those); a query that raises has changed
nothing (an `UPDATE` that commits and whose reply is then lost is not
modelled); the bank keeps what it is given; a document in the bank parses as
`StudyContent`.

### StudySessionMemory

The actions of `StudySession` with the in-process store in place of Redis.  No
call of that store suspends, so `UpdateObject` is the whole of `update_status`
and `DeleteObject` the whole of `DELETE /session`.  `get` hands out the stored
object: `shared[t]` says that the record a task holds is that object, which
every `update_status` then changes under it (`GetObject`, `UpdateObject`),
until a new upload or a delete takes it out of the dict (`Detach`).  A restart
(`Restart`) loses the dict.  `KeepsPromise` is the refinement of
`SessionStore`, which Redis' get-then-setex is not (`claim_delete`).

### UserStore

An action is one SQL statement, of a request in one of `Slots`.  `rq[c].step`
is `check` at an ownership query and `exec` at the statement after it; a sync
also keeps its phase (subjects, sessions, reviews) and position.  The schema
appears as the conditions its constraints put on a statement: `IsSubject`,
`IsRowOf` and `ReviewKeys` are the unique keys, `SubjectExists`, `Referenced`
and `Cascade` the foreign keys.  `Fail` is a lost connection, at any statement.

| Actions | Code |
|---|---|
| `CreateSubject`, `DeleteSubject` | `create_subject`, `delete_subject` |
| `CheckSubject`, `CreateSession`, `UpsertSession` | the two statements of `create_session` and `upsert_session` |
| `DeleteSession`, `UpsertReview` | `delete_session`, `upsert_review` |
| `SyncSubject`, `CheckSubjects`, `SyncSession`, `SyncReview` | the three loops of `POST /user/sync` |

Names, colours, counts and the status of a row are left out, the last being
`StudySession`'s.  A review's schedule is a model value (`Plans`).  Subject ids
are drawn once (`drawn`), as `gen_random_uuid` is meant to guarantee.  Accounts
are never deleted.

### JwksCache

The requests' tokens against `_JWKS_CACHE`.  The fetch is a synchronous call in
a coroutine, so the event loop stands still: `pending` is the fetch under way,
with the time `_get_jwks` read before it, and only the issuer and the clock
(`Serve`, `Publish`, `Withdraw`, `Tick`) move until it ends.

| Actions | Code |
|---|---|
| `GetCurrentUser` (`Verify`, `Other`) | `get_current_user` up to its answer or the first fetch |
| `Serve` | the issuer makes its reply, from the keys it has then |
| `Receive` | the reply is cached, under the time from before the fetch; the key is found, or asked for once more, or missing for good |
| `FetchFails` | `httpx.get` or `resp.json()` raises |

`answer` is the outcome just given; `withdrawn` and `lasting` (the keys served
ever since the request came) are history.  An answer of 500 is an exception
that nothing catches: a body that is not JSON, claims without `sub`, an
algorithm jose does not have.  All tokens are of one issuer, so the comparison
of the cached url is left out; a signature is good or not.  A fetch takes at
most `MaxFetch`, less than the lifetime: httpx gives each of connecting,
writing and reading 5 s, against an hour.

### JsonRecovery, ResponseValidator, PdfParser, Content

Operators without state.  `Content` builds inputs one element at a time, so
that TLC visits each of them up to the bound, and states the properties of the
results.  Four functions of the code are loops over their input: the brace
count, `validate_notes`, `validate_mcq` and the PDF parser.  Of these the
modules define the loop body, and `acc` is the state of the loop, so that what
the loop keeps is an invariant of `Content` and can be proved for inputs of any
length.  Replies, notes and quizzes are read as they grow (`Count`,
`TakeConcept`, `TakeQuestion`), and what comes after the loop (`Recover`,
`McqRaises`) is applied to `acc`.  `acc.escaped` says that an exception has ended
a validator's loop: pydantic refuses an `id` that is no string (`Odd`; for a
question, `typed` is FALSE), `int` an infinite level, the set of question types
an unhashable one, and `generate.py` catches none of these, so the task dies as
`StudySession`'s `TaskDies` does.  A document is built first and then opened
(`OpenFile`); `acc.step` says which loop it is in: `_extract_sections` takes a
line or turns the page (`ReadOn`), its end sorts out the headings-only document
(`EndReading`), and the chunking cuts one chunk at a time off the sections
(`CutOn`).  `Introduction` and `Whole` are the titles the parser itself gives:
to what precedes the first heading, and to a text without any section.  Only
sentences are read whole, by folds over the input, and do not use `acc`.
A reply is reduced to brackets and braces, inside and outside of strings; a
question's text to its set of keywords; a sentence to `_` and other characters;
a page to lines of one word each.  `CompleteObjects` is the reference definition of the questions that
a cut-off reply holds in full, from how JSON nests; the code's count knows
nothing of strings.

### LlmClient

Concurrent calls of one worker, with time in seconds.  `age` is the time since
`_opened_at`, counted up to `RecoveryTimeout`, since `is_open` compares it with
that and nothing else reads it; an `age` of `RecoveryTimeout` is an open
breaker that the next look will close.  `is_open`, `record_success` and
`record_failure` take a thread lock and never await inside, so each is part of
one action.  `since` is history: the time since a failure that reached the
threshold.  `Success`, `Rejected` and `Failure` are the answers that reset the
breaker, leave it alone and count against it.  The two clients differ in the
HTTP statuses they sort into these, and in nothing the model keeps.
The numbers are small: threshold 2 for 5, recovery 2 s for 60 s.
The back-off is `2 ^ attempt`, as in the code.

### TimelyClient

Between the breaker's gate and the request stands `_get_access_token`.  `queue`
is `_token_lock`, an `asyncio.Lock`, which serves in order: its holder, then
the waiters; `Release` hands it to the first of these, whoever held it, and
that the holder is the one who releases is what `LockServed` shows.  `LookUp`
is what its holder does up to the next await, so `Enter` does it at once when
the lock is free, and `Acquire` when the lock comes to a waiter.  A call is at
`auth` while it awaits the authentication server, lock in hand, and at `call`
while it awaits the completion.  Tokens are numbered in the order of issue and
run out in that order at the server (`Expire`, external); an entry whose 55
minutes are over is the same as none (`Outdate`).  `refused` and `lost` are
history.  The breaker, the attempts and the back-off are `LlmClient`'s actions.

## Runs

Runs with interchangeable values use symmetry, except the ones with liveness.
The session runs set `CHECK_DEADLOCK FALSE`: once every id and task is used the
server may have nothing left to do, and a server that waits for requests is not
stuck.  So does `content`, whose inputs end at their bound.  The others are
checked for deadlock.

| Run | Instance | What it shows |
|---|---|---|
| `session_faults` | 1 user, 1 PDF, 2 ids, 2 tasks, every fault | `IInv`, the invariant behind the proofs, and `RowsKeepOutcome` |
| `session_docs` | 2 users, 2 PDFs, 2 ids, 2 tasks, 1 request slot, failing rows, lost records | `TypeOK`, `SettledAgreement`, `ServesOwnDocument`, `ReadyWasGenerated`, `ReadyRecoverable`, `ProcessingHasTask` |
| `session_live` | 1 id, 2 tasks, fairness, failing bank, lost records | `ProcessingEnds`, `RowSettles` |
| `session_memory` | in-process store; 2 users, 1 PDF, 2 ids, 2 tasks, failing rows and bank, restarts | `MemoryInv`, `SettledAgreement`, `ProcessingHasTask`, and `KeepsPromise`: the store implements `SessionStore` |
| `user_store` | 2 users, 2 slots, 2 session ids, 1 subject id, 2 plans, every operation, failing statements | `UserInv`, the invariant behind the proofs, `SubjectOwned`, `ReviewsLive`, `OneRowPerDocument`, `SyncComplete`, `OwnReviews` |
| `jwks_cache` | 2 keys, lifetime 3, fetches of up to 2 ticks, 5 ticks | `IInv`, `CurrentKeyAccepted`, `RevokedKeysExpire` |
| `content` | documents of 5 lines on 3 pages with 2 read, chunks of 2; replies of 9 characters; 3 concepts; quizzes of 4; sentences of 12 | `RecoversComplete`, `PromptOffersNotes`, `QuizComplete`, `OneBlankLeft`, `DocumentComplete`, `SectionsPlaced` |
| `llm_client` | 3 calls, threshold 2, recovery 2 s, 2 retries, fairness | `TypeOK`, `BreakerInv`, `GateHolds`, and `KeepsContract`: `LlmClient` implements `LlmCall` |
| `timely_client` | 3 calls, 2 good keys and a bad one, threshold 2, recovery 1 s, 1 retry | `TokenInv`, `SingleFlight`, `LockServed` |

Why the bounds are enough to be interesting.  Two tasks are what every race
in the pipeline needs: two on one session, or two sessions of one document that
race for the bank.  Two ids give two callers or two documents, and let an
upload meet a deleted row whose id still has a task.  One slot gives
one multi-step request against the tasks, and `user_store` has two of them
against each other, at statement level: a check and the deletion of what it
checked, a sync and a second device.  There one subject id is enough for a
subject that is gone, and not for one created anew with another id, which the
proof covers.  `session_faults` has one user and one document, so there the
hand-over of a row to another is left to the proof of `RowsKeepOutcome`, and
whose document is served to `session_docs`.  Two keys are the one cached and the
one it was rotated to; five ticks are a fetch that takes two, in which the
issuer changes its keys before and after it replies, and a lifetime of three, and
the refetch at its end.  A document of five lines fills a chunk exactly, overflows it by one and
starts sections on both pages.  Nine characters hold two questions, the second
cut off, or a nested one.  Three calls against a threshold of two give a breaker that
opens, a late success, and a failed probe; and with the token cache, two calls
with one old token and a third that has fetched the next.

What must be excluded from a run, and why.  `ProcessingHasTask` and
`ProcessingEnds` are false when a task dies: `claim_stuck` shows it.
`SettledAgreement` is false over Redis after a crash, when the record outlives
the process between the two writes, and when the store call that takes the
record back to `failed` raises; with the in-process store neither can happen,
and `session_memory` has restarts.  It is stated of a session's only generation,
since a second one may finish with another outcome; uploads, deletes and
self-heals may be under way.
`RecoversComplete` is false when a string holds an unmatched brace.
`ReadyRecoverable` is false when saving to the bank fails or its task dies: the
save comes last, its failure is only logged, and nothing repeats it.
A query on `user_sessions` that fails leaves the row pending by design
(`_finalize_ready` turns the record to `failed`), so `RowSettles` is checked
without that fault.

Fairness.  `StudySession` assumes weak fairness of each task's steps: asyncio
resumes each coroutine whose await has returned, and the HTTP clients have
timeouts.  Requests are users' doing and have none.  `LlmClient` assumes that
time passes and that the API answers or times out.

### What the code does not keep

Each of these runs expects TLC to find the violation.

| Run | Said | Done |
|---|---|---|
| `claim_delete` | DELETE deletes the session (README.md:263) | a task's late write brings it back |
| `claim_stuck` | a failed generation answers 500 (README.md:259) | after an uncaught exception it answers 202 until the TTL |
| `claim_sync` | the same data sent again creates nothing (routers/user.py:188) | sessions without a hash are inserted again |

Seen while modelling, and left without a run of its own:

* A finished document that is uploaded again keeps its row `ready`, and its
  fresh record makes `/result` answer 400 until `/generate` is called
  (upload.py:129), though README.md:53 speaks of re-entry.
* After a restart between the two writes of `_finalize_ready` the record is
  `complete` and the row `pending`; `/generate` then answers `complete`, and
  only the self-heal could mend it, which needs the banked content
  (generate.py:84).
* A 401 to a TimelyGPT completion evicts the token for "next retry"
  (timely_client.py:171), but a 401 is not retried: a good key is reported bad.
* When the breaker's time is over every waiting call passes, not "one probe"
  (anthropic_client.py:41), and a late success closes an open breaker early.
* A second `/generate`, accepted before the first task has written, can take a
  complete record back to processing (its own task then writes an outcome
  again); over the in-process store it finds the first task's content where it
  expects the parsed text, and marks the session failed.
* `/result` answers 400 "not started" between the answer of `/generate` and
  the task's first write; `progress_pct` can go back, and `error_message` is
  never cleared.
* Content from the bank carries the id of the session that generated it; an
  upload whose upsert fails has a record but no row.
* Notes without a `term` pass `validate_notes` and raise in the prompt, which
  is how `claim_stuck` happens; so do notes whose entries are no objects.
* One question whose id is a number loses the whole quiz: `_ensure_id` fills in
  only a missing id, so `MCQQuestion(id=q["id"])` raises pydantic's
  `ValidationError` (response_validator.py:229), which is not the application's
  that generate.py:192 catches.  The good questions go with it, and the session
  ends as in `claim_stuck`, although the docstring says "Skips (logs) invalid
  questions rather than failing" (response_validator.py:156).  `QuizComplete`
  says exactly when this happens.  A concept with such an id raises in
  `validate_notes` (`TakeConcept`), and a fill-in question in `validate_fill`,
  which is left to `TaskDies`.
* A token whose claims lack `sub`, or an asymmetric algorithm that jose does not
  have, is answered 500 instead of 401 (auth.py:104, 59).
* Questions without Latin keywords, Korean ones, are never near-duplicates,
  even when identical; two with the same single keyword always are.
* A string with an unmatched brace makes the recovery of a cut-off reply lose
  questions.
* The scan check reads the first five pages only (pdf_parser.py:164): a text
  after five scanned pages is refused.  Of two headings in a row the first is
  lost.

## Proofs

`StudySessionProofs` (from `ConstantsAssumption` alone: the names are
distinct and the faults known):

* `Invariance`: `Spec => []IInv`.  `IInv` is `TypeOK`, what holds of a task at
  each await (`TaskState`), and `Provenance`.  Types alone are not inductive:
  the record a task writes is its snapshot, and the row an upsert returns was
  written by another request.  `Provenance` therefore follows the document
  wherever it is kept (store, rows, bank, `held`, `snap`, `content`, and the
  request slots) and says that it is that of the upload behind the id.  The
  proof has a lemma per action.
* `TypeCorrect`, `OwnDocumentServed`: consequences of `IInv`.
* `OutcomesKept`: `Spec => RowsKeepOutcome`.  A step that changes a row is an
  upsert, a sync, a self-heal or a delete; `IInv` gives the types of the row.
* `ProcessingIsAttended`: if no store failure, escaped exception or crash is
  among the faults, a processing record has a task in a stage or an
  `update_status`.  A task that writes `processing` is then still on its way;
  another task that ends has just overwritten the record with an outcome.

`StudySessionOutcomeProofs` (from `ConstantsAssumption`, and what each theorem
says of the faults):

* `ReadyHasContent`: `Spec => []ReadyWasGenerated`, under every fault.  A row
  becomes ready by a task's sync or by a self-heal, and both act on what was
  read earlier.  `SourceInv` therefore says that content which is banked or
  held carries the name of a task that did generate it, and `HealInv` that a
  self-heal under way names each row with the document behind its id and has
  found that document in the bank; rows may have gone in the meantime, but an
  id never gets another document.
* `ReadyIsRecoverable`: `ReadyRecoverable`, if neither `bank` nor `crash` is
  among the faults.  `BankedInv` adds that a task with another's content found
  it banked; a task with its own content goes on from the sync to the save.
  The two faults are what can come between these (`SaveEnds`), and with either
  of them the property is false.
* `RecordAndRowAgree`: `SettledAgreement`, if neither `redis` nor `crash` is
  among the faults.  While its task runs, the record of a session's only
  generation may be complete before the row is ready, so `SettlingInv` says
  where the task then stands: at the sync, in the update that takes the record
  back, or past a sync that succeeded, or whose row has gone.  The take-back is
  a store call: if it raises, or the process stops before it, the record stays
  complete, and the property is false.

`StudySessionMemoryProofs` (from `ConstantsAssumption`, and `MemoryAssumption`,
that `None` is no record):

* `MemoryInvariance`: `MemorySpec => []MemoryInv`.  `MemoryInv` is `IInv` and
  the fact that a shared record is the one in the dict.  Only `UpdateObject`,
  `DeleteObject` and `Restart` need a new argument for `IInv`: an update also
  changes what other tasks hold, but never its owner or document, and that is
  all `Provenance` says of a held record.  The other steps are those of
  `StudySession`, whose lemmas are cited.
* `StoreKeepsPromise`: `MemorySpec => KeepsPromise`.  `UpdateObject` is an
  `Update` of `SessionStore`, since its record is the stored one with another
  status and, only with a final status, another result (`ObjectType`); the
  upload is a `Save`, the deletes are `Delete`, and no other step touches the
  store.
* `OwnDocumentServedFromMemory` follows from `MemoryInv`.
* `OutcomesKeptInMemory`, `ReadyHasContentInMemory`, `ReadyIsRecoverableInMemory`:
  `RowsKeepOutcome`, `ReadyWasGenerated` and `ReadyRecoverable` over this store,
  with the invariants and under the faults of the theorems over Redis.  A step
  is one of `StudySession` or one of three of this store's own (`MemoryStep`).
  Of these only `UpdateObject` needs an argument: it changes records in other
  tasks' hands, but never the document they are of (`UpdateObjectEffect`), and
  `SourceInv` and `BankedInv` read nothing else of them.
* `ProcessingIsAttendedInMemory`: as `ProcessingIsAttended`, but crashes may be
  among the faults, since a restart loses the records with the tasks.
* `RecordAndRowAgreeInMemory`: as `RecordAndRowAgree` and with the same
  `SettlingInv`, again with restarts.  That the calls of this store do not
  raise is the one assumption on the faults.

`LlmClientProofs` (from `ClientAssumption`):

* `TypeCorrect`: `Spec => []TypeOK`, with the bound on the back-off.  The
  provers know nothing of `^`, but the library proves that a set of `n` elements
  has `2 ^ n` subsets: by counting those of `1..n`, `2 ^ n` is a number
  (`PowerOfTwo`).
* `BreakerInvariance`: `BreakerInv` ties `_opened_at` to the history: while
  it is set, it is the time of the last failure at the threshold; when it is
  not, that failure is `RecoveryTimeout` old or forgiven by a success.
* `OpenForACause`, and with `CallInvariance` (at most `MaxRetries + 1`
  attempts), `GateIsKept`.
* `MeetsContract`: `Spec => Contract!Spec`, the safety half of `KeepsContract`.
  `Phase` maps a call to idle, running or done; a call that starts or returns
  is a step of `LlmCall`, and everything it does in between, and time, leaves
  phase and outcome alone (`RetryContract`).

`TimelyClientProofs` (from `TimelyAssumption` and `ClientAssumption`):

* `TokenInvariance`: `TokenInv`, for any calls and keys.  It is inductive
  together with one more fact: a request carries a token issued for its key.
  A token refused is older than the next one issued, and the only place that
  caches a token caches one just issued.
* `LockIsServed`: `LockServed`, which with the types (`LockInv`) is inductive.
  A call that asks the server is the head of the queue (`AskerHolds`), so its
  release takes it out and no other, and the rest moves up by one.
* `OneAuthentication`: `SingleFlight`.  `FlightInv` adds that a call which asks
  the server has nothing in the cache for its key; this lasts as only the
  holder of the lock fills the cache, and by `LockServed` it is alone.
* `TimelyMeetsContract` and `TimelyBreaker`: the refinement of `LlmCall` and
  `BreakerInv` again, for this client, from the lemmas of `LlmClientProofs`.
  Its breaker steps are those of the other clients; those of the token cache
  leave the breaker and the outcome alone.

`UserStoreProofs` (from `UserStoreAssumption`):

* `UserInvariance`: `UserInv`.  `SubjectOwned`, `ReviewsLive` and
  `OneRowPerDocument` are not inductive alone: a request that has passed its
  ownership check must still be right when its insert runs.  `AtStatement`
  says what it knows by then (`Checked`: the subject is the user's or gone; as
  `SubjectsDrawn` and no id is drawn twice, it cannot have become another's)
  and the foreign key then refuses a subject that is gone.
* `SubjectsOwned`, `NoOrphanReviews`, `DocumentsUnique`: consequences.
* `OwnReviewsOnly`: `Spec => OwnReviews`, statement by statement.
* `SyncsComplete`: `Spec => []SyncComplete`.  `SyncInv` follows the payload
  through the three loops: of an undisturbed sync, every item it is past is in
  the tables, and an answered one is past all.  A statement that inserts
  nothing because of a conflict has met the row it wanted (`HasRow`), and only
  a delete takes rows away, after which the sync is undisturbed no longer.

`JwksCacheProofs` (from `JwksAssumption`):

* `CacheInvariance`: `IInv`.  Its parts are `CacheInv`, that a cached key was
  served when its fetch began, or later, and `FetchInv`, that a reply on its way
  has only such keys, and has every key served since the request came.
* `RotationIsSeen`, `RevocationIsSeen`: shown together with `IInv`, since the
  answer is the variable that the next step overwrites.  An answer of 401 for a
  missing key is given only from a second reply, which by `FetchInv` would hold a
  lasting key; and an accepted key was served after the beginning of a fetch
  that is younger than the lifetime (`LatelyServed`).

`ContentProofs` (from `IdAssumption`, `ContentAssumption` and `PdfAssumption`:
`None` is no id and the odd one no string, a raw concept has its three fields, a
number is an integer, a question can be made into the model or not, a
chunk and the pages that are read hold at least one line or page, and the
parser's own titles are no headings), for inputs of any length:

* `RecoversAll`: `Spec => []RecoversComplete`.  While the braces in its strings
  match, the count knows the nesting although it does not know about strings:
  `Tracks` says that its depth is the nesting of the JSON plus the braces open
  in strings, that a question it is in began at an outermost brace and has not
  ended, and that what it has found are the complete questions so far.  A
  string's brace can then neither start nor end a question, as the nesting
  around it is not zero.  The counting lemmas before it (`Number`, `Nesting`
  and `Inside` of a text that gets one character more) stand for the induction.
* `QuizIsComplete`: `Spec => []QuizComplete`.  `QuizInv` relates the loop's two
  lists, the texts seen and the questions kept: they are of the same length and
  in step, so a question dropped as a near-duplicate has its twin in the quiz.
  It also keeps the question at which an exception escaped: one that passes the
  checks, has no twin before it and is of the wrong type.  That the quiz loses no
  other good question is said only of replies without such a one, since the code
  then loses them all.
* `PromptOffersAll`: `Spec => []PromptOffersNotes`.  `NotesInv`: while every
  entry is an object and no id makes pydantic raise, the validated ids are those that `_ensure_id` has left in
  the raw notes.
* `DocumentIsComplete` and `ChunksArePlaced`: `Spec => []DocumentComplete` and
  `Spec => []SectionsPlaced`, by an invariant for each of the parser's loops.
  `ReadInv`: the sections found and the one being collected hold, in order,
  exactly the text of the lines that have been seen (`Collected`); the title of
  the open one is the last heading seen, or `Introduction` if there was none
  (`Titled`); and should there be nothing but headings, they have been kept
  (`Copied`).  `CutInv`: the chunks hold, in order, exactly what has been cut off
  the sections, and each stands where the section it is of does (`Chunked`).
  The sections the reader ends with are fit to be cut (`Cuttable`), in the
  document of headings only as well.

In three places a definition of the model was changed so that it could be
reasoned about.  `Content` reads its lists element by element, and a document
line by line, as the code's loops do, where it had recursive operators and
folds.  The phase a sync goes on to (`PhaseFrom`) was a `CASE` whose
conditions overlapped, of which only TLC's order of evaluation made sense; it
is now a chain of `IF`s.  `Release` removed its caller from the queue, wherever
it stood; it now gives the lock to the first waiter, as `asyncio.Lock` does.

Only model-checked: the liveness properties, and the liveness half of
`KeepsContract`, which need fairness and `ENABLED`, out of the prover's reach;
and `OneBlankLeft`, whose subject is what `str.split`, `join` and `replace` make
of a sentence: the model has them as folds, as the code calls them whole and has
no loop of its own there, and what a fold computes for every input needs
induction over data, which the prover does not do.

## Plan

What is left: two workers, each with a breaker and a token cache of its own,
over one Redis; and the one blank of a sentence, which could be proved only with
`str.split` and `str.replace` as loops over the characters.

## Not modelled

The texts of the prompts and how pdfplumber reads a page are opaque.  Settings,
logging, error wording, headers and the validation of request fields hold no
state, and neither does `calculate_question_counts`, which clamps a product.
The rate limiter is a library's, counted per worker.  Migrations appear as the
constraints the statements rely on; row-level security is not used by the
backend's own connection, and `user_attempts` is written by no code.
`generate_study_content` in
`anthropic_client.py` is not called by the application.
