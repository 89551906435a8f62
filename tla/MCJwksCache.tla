----------------------------- MODULE MCJwksCache -----------------------------
(* JwksCache for TLC: the keys are interchangeable.                        *)
EXTENDS JwksCache, TLC

Symmetry == Permutations(Kids)
=============================================================================
