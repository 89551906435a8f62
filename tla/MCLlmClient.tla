---------------------------- MODULE MCLlmClient ----------------------------
(* LlmClient for TLC: the calls are interchangeable.                       *)
EXTENDS LlmClient, TLC

Symmetry == Permutations(Calls)
=============================================================================
