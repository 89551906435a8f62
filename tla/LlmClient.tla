----------------------------- MODULE LlmClient -----------------------------
(***************************************************************************)
(* generate_with_retry and its circuit breaker, as anthropic_client.py and *)
(* openai_client.py have them: concurrent calls of one worker process that *)
(* share one breaker.  A tick is a second; the breaker's opening time is   *)
(* kept as the seconds passed since, up to RecoveryTimeout, after which    *)
(* nothing in the code tells them apart.                                   *)
(***************************************************************************)
EXTENDS Naturals

CONSTANTS
  Calls,            \* calls of generate_with_retry: the bound on them
  FailureThreshold, \* failures in a row that open the breaker
  RecoveryTimeout,  \* seconds it stays open
  MaxRetries,       \* attempts after the first
  None              \* no opening time, no outcome

ASSUME ClientAssumption ==
  /\ FailureThreshold \in Nat \ {0}
  /\ RecoveryTimeout \in Nat \ {0}
  /\ MaxRetries \in Nat
  /\ None \notin Nat

VARIABLES
  failures, \* _failures
  age,      \* seconds since _opened_at, or None
  pc,       \* call -> where it stands
  attempt,  \* call -> its loop variable
  wait,     \* call -> seconds left of its back-off
  outcome,  \* call -> what it returned or raised, or None
  since     \* seconds since the last failure that reached the threshold with
            \* no success after it, or None (history)

breaker == <<failures, age, since>>
calls == <<pc, attempt, wait, outcome>>
vars == <<breaker, calls>>

Outcomes == {"dict", "raised", "401", "429", "500", "503"}
Seconds == 0..RecoveryTimeout

Init ==
  /\ failures = 0 /\ age = None /\ since = None
  /\ pc = [j \in Calls |-> "idle"]
  /\ attempt = [j \in Calls |-> 0]
  /\ wait = [j \in Calls |-> 0]
  /\ outcome = [j \in Calls |-> None]

-----------------------------------------------------------------------------
(* The breaker.                                                            *)

Open == age # None /\ age # RecoveryTimeout

\* Mutant: a success forgets to close the breaker.
MutRecordSuccess == failures' = 0 /\ UNCHANGED age

RecordSuccess == failures' = 0 /\ age' = None

\* Mutant: only the failure that reaches the threshold opens the breaker.
MutReached(n) == n = FailureThreshold

Reached(n) == n >= FailureThreshold

RecordFailure ==
  /\ failures' = failures + 1
  /\ age' = IF Reached(failures + 1) THEN 0 ELSE age

-----------------------------------------------------------------------------
(* A call.                                                                 *)

Start(j) ==
  /\ pc[j] = "idle"
  /\ pc' = [pc EXCEPT ![j] = "gate"]
  /\ UNCHANGED <<breaker, attempt, wait, outcome>>

Return(j, o) ==
  /\ pc' = [pc EXCEPT ![j] = "done"]
  /\ outcome' = [outcome EXCEPT ![j] = o]
  /\ UNCHANGED <<attempt, wait>>

\* Mutant: one attempt too many.
MutMayRetry(j) == attempt[j] <= MaxRetries

MayRetry(j) == attempt[j] < MaxRetries

\* An error that is not 401, 429 or 503.
Retry(j) ==
  \/ /\ MayRetry(j)
     /\ pc' = [pc EXCEPT ![j] = "sleep"]
     /\ wait' = [wait EXCEPT ![j] = 2 ^ attempt[j]]
     /\ UNCHANGED <<attempt, outcome>>
  \/ ~MayRetry(j) /\ Return(j, "500")

\* is_open: reading it after the timeout closes the breaker.
Refused(j) ==
  /\ pc[j] = "gate"
  /\ Open
  /\ Return(j, "503")
  /\ UNCHANGED breaker

Request(j) ==
  /\ pc[j] = "gate"
  /\ ~Open
  /\ age' = None
  /\ pc' = [pc EXCEPT ![j] = "call"]
  /\ UNCHANGED <<failures, since, attempt, wait, outcome>>

\* The API answers; the text parses, does not, or is not there at all.
Success(j) ==
  /\ pc[j] = "call"
  /\ RecordSuccess
  /\ since' = None
  /\ Return(j, "dict") \/ Return(j, "raised") \/ Retry(j)

\* Mutant: a rejected call asks again at once, without counting it.
MutRejected(j) ==
  /\ pc[j] = "call"
  /\ pc' = [pc EXCEPT ![j] = "gate"]
  /\ UNCHANGED <<breaker, attempt, wait, outcome>>

\* A bad key, the rate limit, no credit, or an exception that no clause names:
\* the breaker does not count these.
Rejected(j) ==
  /\ pc[j] = "call"
  /\ \E o \in {"401", "429", "503", "raised"} : Return(j, o)
  /\ UNCHANGED breaker

\* A status error, a timeout, no connection.
Failure(j) ==
  /\ pc[j] = "call"
  /\ RecordFailure
  /\ since' = IF failures + 1 >= FailureThreshold THEN 0 ELSE since
  /\ Retry(j)

Wake(j) ==
  /\ pc[j] = "sleep" /\ wait[j] = 0
  /\ attempt' = [attempt EXCEPT ![j] = @ + 1]
  /\ pc' = [pc EXCEPT ![j] = "gate"]
  /\ UNCHANGED <<breaker, wait, outcome>>

Later(s) == IF s \in {None, RecoveryTimeout} THEN s ELSE s + 1

Tick ==
  /\ age' = Later(age) /\ since' = Later(since)
  /\ wait' = [j \in Calls |-> IF wait[j] = 0 THEN 0 ELSE wait[j] - 1]
  /\ UNCHANGED <<failures, pc, attempt, outcome>>

Answer(j) == Success(j) \/ Rejected(j) \/ Failure(j)
Advance(j) == Refused(j) \/ Request(j) \/ Answer(j) \/ Wake(j)

Next == (\E j \in Calls : Start(j) \/ Advance(j)) \/ Tick

Spec == Init /\ [][Next]_vars

\* The API answers within its timeout, the event loop resumes every call, and
\* time passes.
FairSpec ==
  Spec /\ WF_vars(Tick) /\ \A j \in Calls : WF_vars(Advance(j))

-----------------------------------------------------------------------------
(* What the client promises.                                               *)

TypeOK ==
  /\ failures \in Nat
  /\ age \in Seconds \cup {None} /\ since \in Seconds \cup {None}
  /\ pc \in [Calls -> {"idle", "gate", "call", "sleep", "done"}]
  /\ attempt \in [Calls -> 0..MaxRetries]
  /\ wait \in [Calls -> Nat]
  /\ outcome \in [Calls -> Outcomes \cup {None}]

\* The breaker is open only while at least FailureThreshold failures stand
\* against it with no success between them, whichever calls they came from.
OpenHasCause == age # None => Reached(failures)

\* How the opening time and the history agree: reading is_open clears the
\* time only once it has run out.
BreakerInv ==
  /\ failures \in Nat
  /\ age \in Seconds \cup {None} /\ since \in Seconds \cup {None}
  /\ age # None => since = age
  /\ age = None => since \in {None, RecoveryTimeout}
  /\ OpenHasCause

\* No request reaches the API sooner than RecoveryTimeout after a failure
\* that reached the threshold, failed probes and late answers included,
\* unless some call has succeeded since.
GateHolds ==
  [][\A j \in Calls : (pc[j] = "gate" /\ pc'[j] = "call") =>
       since \in {None, RecoveryTimeout}]_vars

\* What the pipeline is told: the call ends, once, with one outcome.
Phase == [j \in Calls |-> IF pc[j] \in {"idle", "done"} THEN pc[j]
                          ELSE "running"]
Contract == INSTANCE LlmCall WITH phase <- Phase
KeepsContract == Contract!FairSpec
=============================================================================
