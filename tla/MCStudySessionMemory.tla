------------------------ MODULE MCStudySessionMemory ------------------------
(* StudySessionMemory for TLC: what the constants may permute.             *)
EXTENDS StudySessionMemory, TLC

Symmetry == Permutations(Users) \cup Permutations(Pdfs) \cup Permutations(Sids)
              \cup Permutations(Tasks) \cup Permutations(Clients)
=============================================================================
