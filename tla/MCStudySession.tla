--------------------------- MODULE MCStudySession ---------------------------
(* StudySession and its refuted claims for TLC: what the constants may     *)
(* permute.                                                                *)
EXTENDS StudySessionClaims, TLC

Symmetry == Permutations(Users) \cup Permutations(Pdfs) \cup Permutations(Sids)
              \cup Permutations(Tasks) \cup Permutations(Clients)
=============================================================================
