-------------------------- MODULE ResponseValidator --------------------------
(***************************************************************************)
(* response_validator.py: what a generation keeps of the three replies,    *)
(* and what the prompts of the quizzes take from the validated notes.      *)
(*                                                                         *)
(* A text is the set of its keywords (words of four or more Latin letters) *)
(* or Blank.  A sentence is a sequence of "_" and of other characters.     *)
(* Explanations, hints and the like are copied and are left out.           *)
(***************************************************************************)
EXTENDS Naturals, SequencesExt

CONSTANTS
  Ids,    \* concept ids of the notes
  Odd,    \* an id that is no string, such as 1
  Blank,  \* a question without text
  None    \* no value, an exception

\* <<"new", n>> is the uuid made for the n-th concept.
ASSUME IdAssumption ==
  /\ None \notin Ids \cup {Odd} \cup ({"new"} \X Nat)
  /\ Odd \notin Ids \cup ({"new"} \X Nat)

Levels == 1..5

\* _DIFFICULTY_TO_LEVEL.
DifficultyLevel == [easy |-> 2, medium |-> 3, hard |-> 4]

Clamp(n) == IF n < 1 THEN 1 ELSE IF n > 5 THEN 5 ELSE n

\* _coerce_level.  A string of digits is a number.
CoerceLevel(raw) ==
  CASE raw.type = "word" /\ raw.value \in DOMAIN DifficultyLevel ->
         DifficultyLevel[raw.value]
    [] raw.type = "number" -> Clamp(raw.value)
    [] OTHER -> 3

\* MCQQuestion and FillQuestion coerce again when a stored quiz is read, with
\* a table for "difficulty" and none for "level".
SchemaLevel(raw) == IF raw.type = "number" THEN Clamp(raw.value) ELSE 3

\* The concept a question is linked to: its own if that exists, else whichever
\* the set of ids yields first; "" without any.
LinkedConcept(id, ids) ==
  IF id \in ids THEN id ELSE IF ids = {} THEN None ELSE CHOOSE x \in ids : TRUE

-----------------------------------------------------------------------------
(* Notes and the prompts built on them.                                    *)

\* Mutant: the id is filled in on a copy.
MutWithId(c, fresh) == c

\* _ensure_id works in place, so the raw notes get the id too.
WithId(c, fresh) == IF c.id = None THEN [c EXCEPT !.id = fresh] ELSE c

\* The raw concepts after validate_notes: an entry that is no object is left
\* alone.
Marked(raw) ==
  [i \in DOMAIN raw |->
     IF raw[i].object THEN WithId(raw[i], <<"new", i>>) ELSE raw[i]]

\* The loop body of validate_notes for the n-th concept: an entry that is no
\* object is skipped, a missing term becomes "Unknown", and pydantic's error at
\* an id that is no string escapes from the loop.  A list without entries is an
\* error before the loop.
TakeConcept(acc, c, n) ==
  LET id == WithId(c, <<"new", n>>).id IN
  IF acc.escaped \/ ~c.object THEN acc
  ELSE IF id = Odd THEN [acc EXCEPT !.escaped = TRUE]
  ELSE [acc EXCEPT !.ids = Append(@, id)]

NoConcepts == [ids |-> <<>>, escaped |-> FALSE]

\* build_mcq_prompt and build_fill_prompt list c["id"] and c["term"] of the
\* raw notes, and raise where either is missing.
PromptRaises(notes) ==
  \E i \in DOMAIN notes :
    ~(notes[i].object /\ notes[i].term /\ notes[i].id # None)

PromptConcepts(notes) == [i \in DOMAIN notes |-> notes[i].id]

-----------------------------------------------------------------------------
(* Multiple choice.                                                        *)

\* The checks of a single question, each of which skips it.  They do not look
\* at q.typed: that an MCQQuestion can be made of it, since its id is a string
\* or missing, its level not infinite and its question_type hashable.
WellFormed(q) ==
  /\ q.object
  /\ q.text # Blank
  /\ q.options = "distinct"   \* "missing": not four; "repeated"
  /\ q.answer                 \* A, B, C or D, in either case

\* More than 70 % of the keywords of both are shared.
NearDuplicate(a, b) ==
  10 * Cardinality(a \cap b) > 7 * Cardinality(a \cup b)

\* What becomes of the n-th question after the checks: it is remembered and
\* kept, or an exception that nobody catches ends the loop and the task.
Keep(acc, q, n, ids) ==
  IF ~q.typed THEN [acc EXCEPT !.escaped = TRUE]
  ELSE [acc EXCEPT !.seen = Append(@, q.text),
                   !.kept = Append(@, [at |-> n, text |-> q.text,
                                       concept |-> LinkedConcept(q.concept, ids),
                                       level |-> CoerceLevel(q.level)])]

\* Mutant: a near-duplicate is remembered as well.
MutTakeQuestion(acc, q, n, ids) ==
  IF acc.escaped \/ ~WellFormed(q) THEN acc
  ELSE IF \E i \in DOMAIN acc.seen : NearDuplicate(q.text, acc.seen[i])
  THEN [acc EXCEPT !.seen = Append(@, q.text)]
  ELSE Keep(acc, q, n, ids)

\* The loop body of validate_mcq for the n-th question.
TakeQuestion(acc, q, n, ids) ==
  IF \/ acc.escaped \/ ~WellFormed(q)
     \/ \E i \in DOMAIN acc.seen : NearDuplicate(q.text, acc.seen[i])
  THEN acc
  ELSE Keep(acc, q, n, ids)

NoQuestions == [seen |-> <<>>, kept |-> <<>>, escaped |-> FALSE]

\* The application's ValidationError when the loop is over: no question is left.
McqRaises(acc) == ~acc.escaped /\ acc.kept = <<>>

-----------------------------------------------------------------------------
(* Fill in the blank.                                                      *)

Gap == <<"_", "_", "_">>

\* str.split("___"): leftmost gaps first, none of them overlapping.
Split(s) ==
  FoldLeft(LAMBDA parts, c :
             LET part == Append(Last(parts), c)  n == Len(part) - 3 IN
             IF n >= 0 /\ SubSeq(part, n + 1, n + 3) = Gap
             THEN Front(parts) \o <<SubSeq(part, 1, n), <<>> >>
             ELSE Append(Front(parts), part),
           << <<>> >>, s)

\* "___".join(parts).
Join(parts) == FoldLeft(LAMBDA s, p : s \o Gap \o p, Head(parts), Tail(parts))

\* s.replace("___", "").
WithoutGaps(s) == FlattenSeq(Split(s))

\* s.count("___").
Gaps(s) == Len(Split(s)) - 1

\* Mutant: what follows the first blank is not cleaned of the others.
MutOneBlank(s) == Join(Split(s))

\* Only the first blank of several is kept.
OneBlank(s) ==
  LET parts == Split(s) IN
  IF Gaps(s) > 1 THEN Head(parts) \o Gap \o WithoutGaps(Join(Tail(parts))) ELSE s

\* The loop body of validate_fill for one question; None if it is skipped.
ValidateFill(s, answered) ==
  IF Gaps(s) = 0 \/ ~answered THEN None ELSE OneBlank(s)
=============================================================================
