-------------------------- MODULE LlmClientProofs --------------------------
(***************************************************************************)
(* Proofs about the circuit breaker for every number of concurrent calls   *)
(* and every threshold, timeout and number of retries.                     *)
(***************************************************************************)
EXTENDS LlmClient, FiniteSetTheorems, TLAPS

\* The breaker starts closed.
LEMMA InitBreaker == Init => BreakerInv
BY ClientAssumption DEF Init, BreakerInv, OpenHasCause

\* Every step keeps the breaker and its history in agreement.
LEMMA NextBreaker == BreakerInv /\ [Next]_vars => BreakerInv'
<1> SUFFICES ASSUME BreakerInv, [Next]_vars PROVE BreakerInv'
  OBVIOUS
<1> USE ClientAssumption DEF BreakerInv, OpenHasCause, Reached, Seconds
<1>1. ASSUME NEW j \in Calls, Start(j) \/ Refused(j) \/ Rejected(j) \/ Wake(j)
      PROVE  BreakerInv'
  BY <1>1 DEF Start, Refused, Rejected, Wake, breaker
<1>2. ASSUME NEW j \in Calls, Request(j)  PROVE BreakerInv'
  BY <1>2 DEF Request, Open
<1>3. ASSUME NEW j \in Calls, Success(j)  PROVE BreakerInv'
  BY <1>3 DEF Success, RecordSuccess
<1>4. ASSUME NEW j \in Calls, Failure(j)  PROVE BreakerInv'
  BY <1>4 DEF Failure, RecordFailure
<1>5. CASE Tick
  BY <1>5 DEF Tick, Later
<1>6. CASE UNCHANGED vars
  BY <1>6 DEF vars, breaker
<1> QED
  BY <1>1, <1>2, <1>3, <1>4, <1>5, <1>6 DEF Next, Advance, Answer

\* The breaker and its history always agree.
THEOREM BreakerInvariance == Spec => []BreakerInv
BY InitBreaker, NextBreaker, PTL DEF Spec

\* The breaker is open only after enough failures with no success among them.
THEOREM OpenForACause == Spec => []OpenHasCause
<1>1. BreakerInv => OpenHasCause
  BY DEF BreakerInv
<1> QED
  BY BreakerInvariance, <1>1, PTL

Places == {"idle", "gate", "call", "sleep", "done"}

\* Where the calls stand, and how many attempts they have made.
CallInv ==
  /\ pc \in [Calls -> Places] /\ attempt \in [Calls -> 0..MaxRetries]
  /\ \A j \in Calls : pc[j] = "sleep" => attempt[j] < MaxRetries

\* A call makes at most MaxRetries + 1 attempts.
THEOREM CallInvariance == Spec => []CallInv
<1> USE ClientAssumption DEF CallInv, Places
<1>1. Init => CallInv
  BY DEF Init
<1>2. CallInv /\ [Next]_vars => CallInv'
  <2> SUFFICES ASSUME CallInv, [Next]_vars PROVE CallInv'
    OBVIOUS
  <2>1. ASSUME NEW j \in Calls, Start(j) \/ Refused(j) \/ Request(j) \/ Rejected(j)
        PROVE  CallInv'
    BY <2>1 DEF Start, Refused, Request, Rejected, Return
  <2>2. ASSUME NEW j \in Calls, Retry(j)  PROVE CallInv'
    BY <2>2 DEF Retry, MayRetry, Return
  <2>3. ASSUME NEW j \in Calls, Success(j) \/ Failure(j)  PROVE CallInv'
    BY <2>2, <2>3 DEF Success, Failure, Return
  <2>4. ASSUME NEW j \in Calls, Wake(j)  PROVE CallInv'
    BY <2>4 DEF Wake
  <2>5. CASE Tick
    BY <2>5 DEF Tick
  <2>6. CASE UNCHANGED vars
    BY <2>6 DEF vars, calls
  <2> QED
    BY <2>1, <2>3, <2>4, <2>5, <2>6 DEF Next, Advance, Answer
<1> QED
  BY <1>1, <1>2, PTL DEF Spec

\* A back-off is a number of seconds: 2^n is how many subsets 1..n has.
LEMMA PowerOfTwo ==
  ASSUME NEW n \in Nat
  PROVE  2 ^ n \in Nat
<1>1. IsFiniteSet(1..n) /\ Cardinality(1..n) = n
  BY FS_Interval
<1>2. IsFiniteSet(SUBSET (1..n)) /\ Cardinality(SUBSET (1..n)) = 2 ^ n
  BY <1>1, FS_SUBSET, Zenon
<1> QED
  BY <1>2, FS_CardinalityType

\* How long the calls wait, and how they have ended.
WaitInv == wait \in [Calls -> Nat] /\ outcome \in [Calls -> Outcomes \cup {None}]

\* A call that comes back with one of the outcomes.
LEMMA ReturnWait ==
  ASSUME WaitInv, NEW j \in Calls, NEW o \in Outcomes, Return(j, o)
  PROVE  WaitInv'
BY DEF WaitInv, Return

\* A back-off from whatever attempt.
LEMMA RetryWait ==
  ASSUME CallInv, WaitInv, NEW j \in Calls, Retry(j)
  PROVE  WaitInv'
<1>1. CASE wait' = [wait EXCEPT ![j] = 2 ^ attempt[j]] /\ UNCHANGED outcome
  <2>1. attempt[j] \in Nat
    BY ClientAssumption DEF CallInv
  <2>2. 2 ^ attempt[j] \in Nat
    BY <2>1, PowerOfTwo
  <2> QED
    BY <1>1, <2>2 DEF WaitInv
<1>2. CASE Return(j, "500")
  BY <1>2, ReturnWait DEF Outcomes
<1> QED
  BY <1>1, <1>2 DEF Retry

LEMMA NextWait == CallInv /\ WaitInv /\ [Next]_vars => WaitInv'
<1> SUFFICES ASSUME CallInv, WaitInv, [Next]_vars  PROVE WaitInv'
  OBVIOUS
<1>1. ASSUME NEW j \in Calls, Start(j) \/ Request(j) \/ Wake(j)  PROVE WaitInv'
  BY <1>1 DEF Start, Request, Wake, WaitInv
<1>2. ASSUME NEW j \in Calls, Refused(j) \/ Rejected(j)  PROVE WaitInv'
  BY <1>2, ReturnWait DEF Refused, Rejected, Outcomes
<1>3. ASSUME NEW j \in Calls, Success(j) \/ Failure(j)  PROVE WaitInv'
  BY <1>3, ReturnWait, RetryWait DEF Success, Failure, Outcomes
<1>4. CASE Tick
  BY <1>4 DEF Tick, WaitInv
<1>5. CASE UNCHANGED vars
  BY <1>5 DEF vars, calls, WaitInv
<1> QED
  BY <1>1, <1>2, <1>3, <1>4, <1>5 DEF Next, Advance, Answer

\* Every variable stays in its range: the seconds saturate, the attempts are
\* bounded, the back-offs are natural numbers, the outcomes the pipeline's.
THEOREM TypeCorrect == Spec => []TypeOK
<1>1. Init => WaitInv
  BY DEF Init, WaitInv
<1>2. BreakerInv /\ CallInv /\ WaitInv => TypeOK
  BY DEF BreakerInv, CallInv, WaitInv, Places, TypeOK
<1> QED
  BY BreakerInvariance, CallInvariance, <1>1, NextWait, <1>2, PTL DEF Spec

\* No request goes out before the timeout, unless a call has succeeded.
THEOREM GateIsKept == Spec => GateHolds
<1>1. BreakerInv /\ CallInv /\ [Next]_vars
        => [\A j \in Calls : (pc[j] = "gate" /\ pc'[j] = "call") =>
              since \in {None, RecoveryTimeout}]_vars
  <2> SUFFICES ASSUME BreakerInv, CallInv, Next, NEW j \in Calls,
                      pc[j] = "gate", pc'[j] = "call"
               PROVE  since \in {None, RecoveryTimeout}
    OBVIOUS
  <2>1. ASSUME NEW i \in Calls, Request(i)
        PROVE  since \in {None, RecoveryTimeout}
    BY <2>1 DEF BreakerInv, Request, Open
  <2>2. ASSUME NEW i \in Calls, Start(i) \/ Refused(i) \/ Rejected(i) \/ Wake(i)
        PROVE  FALSE
    BY <2>2 DEF CallInv, Start, Refused, Rejected, Return, Wake
  <2>3. ASSUME NEW i \in Calls, Success(i) \/ Failure(i)
        PROVE  FALSE
    BY <2>3 DEF CallInv, Success, Failure, Return, Retry
  <2>4. CASE Tick
    BY <2>4 DEF Tick
  <2> QED
    BY <2>1, <2>2, <2>3, <2>4 DEF Next, Advance, Answer
<1> QED
  BY BreakerInvariance, CallInvariance, <1>1, PTL DEF Spec, GateHolds

-----------------------------------------------------------------------------
(* The contract with the pipeline.                                         *)

\* A call that starts is seen to start.
LEMMA StartBegins ==
  ASSUME NEW S, pc \in [Calls -> S], NEW j \in Calls, Start(j)
  PROVE  Contract!Next
<1>1. /\ Phase[j] = "idle" /\ Phase' = [Phase EXCEPT ![j] = "running"]
      /\ UNCHANGED outcome
  BY DEF Start, Phase
<1> QED
  BY <1>1 DEF Contract!Next, Contract!Start

\* A call that stays where the pipeline cannot see it move changes nothing.
LEMMA StepUnseen ==
  ASSUME NEW S, pc \in [Calls -> S], NEW j \in Calls, pc[j] \notin {"idle", "done"},
         NEW x, x \notin {"idle", "done"},
         pc' = [pc EXCEPT ![j] = x], UNCHANGED outcome
  PROVE  UNCHANGED Contract!vars
BY DEF Phase, Contract!vars

\* A call that has begun and returns ends for the pipeline, with one outcome.
LEMMA ReturnEnds ==
  ASSUME NEW S, pc \in [Calls -> S], NEW j \in Calls, pc[j] \notin {"idle", "done"},
         NEW o \in Outcomes, Return(j, o)
  PROVE  Contract!Next
<1>1. /\ Phase[j] = "running" /\ Phase' = [Phase EXCEPT ![j] = "done"]
      /\ outcome' = [outcome EXCEPT ![j] = o]
  BY DEF Phase, Return
<1> QED
  BY <1>1 DEF Contract!Next, Contract!Finish

\* What happens to a failed attempt is unseen or ends the call.
LEMMA RetryContract ==
  ASSUME NEW S, pc \in [Calls -> S], NEW j \in Calls, pc[j] \notin {"idle", "done"},
         Retry(j)
  PROVE  [Contract!Next]_(Contract!vars)
<1>1. CASE pc' = [pc EXCEPT ![j] = "sleep"] /\ UNCHANGED outcome
  BY <1>1, StepUnseen
<1>2. CASE Return(j, "500")
  BY <1>2, ReturnEnds DEF Outcomes
<1> QED
  BY <1>1, <1>2 DEF Retry

\* Whatever the breaker, the retries and the other calls do, each call of
\* generate_with_retry is for its caller one step to one outcome, as the
\* pipeline's model takes it.
THEOREM MeetsContract == Spec => Contract!Spec
<1>1. Init => Contract!Init
  BY DEF Init, Phase, Contract!Init
<1>2. CallInv /\ [Next]_vars => [Contract!Next]_(Contract!vars)
  <2> SUFFICES ASSUME CallInv, [Next]_vars
               PROVE  [Contract!Next]_(Contract!vars)
    OBVIOUS
  <2>0. pc \in [Calls -> Places]
    BY DEF CallInv
  <2>1. ASSUME NEW j \in Calls, Start(j)  PROVE Contract!Next
    BY <2>0, <2>1, StartBegins
  <2>2. ASSUME NEW j \in Calls, Refused(j)  PROVE Contract!Next
    BY <2>0, <2>2, ReturnEnds DEF Refused, Outcomes
  <2>3. ASSUME NEW j \in Calls, Request(j) \/ Wake(j)
        PROVE  UNCHANGED Contract!vars
    <3>1. pc[j] \in {"gate", "sleep"} /\ UNCHANGED outcome
      BY <2>3 DEF Request, Wake
    <3>2. \E x \in {"gate", "call"} : pc' = [pc EXCEPT ![j] = x]
      BY <2>3 DEF Request, Wake
    <3> QED
      BY <2>0, <3>1, <3>2, StepUnseen
  <2>4. ASSUME NEW j \in Calls, Answer(j)  PROVE [Contract!Next]_(Contract!vars)
    <3>1. pc[j] = "call" /\ (Retry(j) \/ \E o \in Outcomes : Return(j, o))
      BY <2>4 DEF Answer, Success, Rejected, Failure, Outcomes
    <3> QED
      BY <2>0, <3>1, RetryContract, ReturnEnds
  <2>5. CASE Tick \/ UNCHANGED vars
    BY <2>5 DEF Tick, vars, calls, Phase, Contract!vars
  <2> QED
    BY <2>1, <2>2, <2>3, <2>4, <2>5 DEF Next, Advance
<1> QED
  BY CallInvariance, <1>1, <1>2, PTL DEF Spec, Contract!Spec
=============================================================================
