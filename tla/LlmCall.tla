------------------------------ MODULE LlmCall ------------------------------
(***************************************************************************)
(* What the generation pipeline relies on when it awaits generate_with_    *)
(* retry: every call ends, once, with a parsed answer, a GenerationError   *)
(* or an exception nothing catches.  StudySession takes this as one step.  *)
(***************************************************************************)
CONSTANTS
  Calls,    \* calls of generate_with_retry
  Outcomes, \* how a call can end
  None      \* no outcome yet

VARIABLES phase, outcome
vars == <<phase, outcome>>

Init ==
  /\ phase = [j \in Calls |-> "idle"]
  /\ outcome = [j \in Calls |-> None]

Start(j) ==
  /\ phase[j] = "idle"
  /\ phase' = [phase EXCEPT ![j] = "running"]
  /\ UNCHANGED outcome

Finish(j) ==
  /\ phase[j] = "running"
  /\ phase' = [phase EXCEPT ![j] = "done"]
  /\ \E o \in Outcomes : outcome' = [outcome EXCEPT ![j] = o]

Next == \E j \in Calls : Start(j) \/ Finish(j)
Spec == Init /\ [][Next]_vars
FairSpec == Spec /\ \A j \in Calls : WF_vars(Finish(j))
=============================================================================
