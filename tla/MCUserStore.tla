----------------------------- MODULE MCUserStore -----------------------------
(* UserStore for TLC: what the devices have to sync.                       *)
EXTENDS UserStore, TLC

MCEntries ==
  {[hash |-> h, subject |-> g] : h \in Hashes, g \in SubjectIds \cup {None}}
    \cup {[hash |-> None, subject |-> None]}

\* A first login with a subject, a session filed under a subject that the
\* server knows, and a review of a session that it may know.
MCPayloads ==
  {[subjects |-> <<n>>,
    sessions |-> <<[hash |-> h, subject |-> g]>>,
    reviews |-> <<[session |-> s, question |-> q, plan |-> w]>>] :
     n \in Names, h \in Hashes, g \in SubjectIds,
     s \in SessionIds, q \in Questions, w \in Plans}

\* A session whose file the device did not hash.
UnhashedPayloads ==
  {[subjects |-> <<>>, sessions |-> <<[hash |-> None, subject |-> None]>>,
    reviews |-> <<>>]}

Symmetry == Permutations(Users) \cup Permutations(SessionIds)
              \cup Permutations(Plans) \cup Permutations(Slots)
=============================================================================
