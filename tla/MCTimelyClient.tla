--------------------------- MODULE MCTimelyClient ---------------------------
(* TimelyClient for TLC: the calls are interchangeable, and so are the     *)
(* keys that the server knows.                                             *)
EXTENDS TimelyClient, TLC

Symmetry == Permutations(Calls) \cup Permutations(GoodKeys)
=============================================================================
