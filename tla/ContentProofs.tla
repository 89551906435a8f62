---------------------------- MODULE ContentProofs ----------------------------
(***************************************************************************)
(* Proofs about the loops of the services: the braces of json_utils.py,    *)
(* the concepts and the questions of response_validator.py, the lines and  *)
(* the chunks of pdf_parser.py.  They hold for inputs of every length, and *)
(* whatever the lines, concepts and questions are.                         *)
(***************************************************************************)
EXTENDS Content, FiniteSetTheorems, TLAPS

\* The input is a sequence of what its kind is made of.
InputInv ==
  /\ kind \in Kinds
  /\ kind = "pdf" => input \in Seq(Seq(Lines))
  /\ kind = "reply" => input \in Seq(Chars)
  /\ kind = "notes" => input \in Seq(Concepts)
  /\ kind = "mcq" => input \in Seq(Questions)

\* A step adds an element to the input of one kind; a document is also read.
LEMMA StepGrows ==
  ASSUME InputInv, [Next]_vars
  PROVE  \/ UNCHANGED vars
         \/ kind = "fill" /\ UNCHANGED <<kind, acc>>
         \/ /\ kind = "pdf" /\ UNCHANGED kind
            /\ input' \in Seq(Seq(Lines))
            /\ \/ acc.step = "file" /\ UNCHANGED acc
               \/ UNCHANGED input /\ (OpenFile \/ ReadOn \/ EndReading \/ CutOn)
         \/ /\ kind = "reply" /\ UNCHANGED kind
            /\ \E c \in Chars : /\ Continues(input, c)
                                /\ input' = Append(input, c)
                                /\ acc' = Count(input', acc, Len(input) + 1)
         \/ /\ kind = "notes" /\ UNCHANGED kind
            /\ \E c \in Concepts : /\ input' = Append(input, c)
                                   /\ acc' = TakeConcept(acc, c, Len(input) + 1)
         \/ /\ kind = "mcq" /\ UNCHANGED kind
            /\ \E q \in Questions : /\ input' = Append(input, q)
                                    /\ acc' = TakeQuestion(acc, q, Len(input) + 1, Ids)
<1>1. ASSUME AddCharacter
      PROVE  /\ kind = "reply" /\ UNCHANGED kind
             /\ \E c \in Chars : /\ Continues(input, c)
                                 /\ input' = Append(input, c)
                                 /\ acc' = Count(input', acc, Len(input) + 1)
  BY <1>1 DEF AddCharacter, Grow, InputInv
<1>2. ASSUME AddConcept
      PROVE  /\ kind = "notes" /\ UNCHANGED kind
             /\ \E c \in Concepts : /\ input' = Append(input, c)
                                    /\ acc' = TakeConcept(acc, c, Len(input) + 1)
  BY <1>2 DEF AddConcept, Grow, InputInv, Last
<1>3. ASSUME AddQuestion
      PROVE  /\ kind = "mcq" /\ UNCHANGED kind
             /\ \E q \in Questions : /\ input' = Append(input, q)
                                     /\ acc' = TakeQuestion(acc, q, Len(input) + 1, Ids)
  BY <1>3 DEF AddQuestion, Grow, InputInv, Last
<1>4. ASSUME AddLetter
      PROVE  kind = "fill" /\ UNCHANGED <<kind, acc>>
  BY <1>4 DEF AddLetter, Grow
<1>5. ASSUME AddLine \/ AddPage
      PROVE  /\ kind = "pdf" /\ UNCHANGED kind
             /\ input' \in Seq(Seq(Lines))
             /\ acc.step = "file" /\ UNCHANGED acc
  <2>1. input \in Seq(Seq(Lines)) /\ kind = "pdf" /\ acc.step = "file" /\ UNCHANGED <<kind, acc>>
    BY <1>5 DEF AddLine, AddPage, InputInv
  <2>2. CASE AddLine
    <3>1. PICK l \in Lines : input' = [input EXCEPT ![Len(input)] = Append(@, l)]
      BY <2>2 DEF AddLine
    <3>2. \A p \in DOMAIN input : input[p] \in Seq(Lines) /\ Append(input[p], l) \in Seq(Lines)
      BY <2>1
    <3>3. Len(input) \in Nat /\ DOMAIN input = 1..Len(input)
      BY <2>1
    <3>4. input' \in [1..Len(input) -> Seq(Lines)]
      BY <3>1, <3>2, <3>3
    <3>5. \A n \in Nat : [1..n -> Seq(Lines)] \subseteq Seq(Seq(Lines))
      OBVIOUS
    <3> QED  BY <2>1, <3>3, <3>4, <3>5
  <2>3. CASE AddPage
    <3>1. input' = Append(input, <<>>) /\ <<>> \in Seq(Lines)
      BY <2>3 DEF AddPage
    <3> QED  BY <2>1, <3>1
  <2> QED  BY <1>5, <2>2, <2>3
<1>6. ASSUME OpenFile \/ ReadOn \/ EndReading \/ CutOn
      PROVE  /\ kind = "pdf" /\ UNCHANGED <<kind, input>>
             /\ input' \in Seq(Seq(Lines))
  BY <1>6 DEF OpenFile, ReadOn, EndReading, CutOn, InputInv
<1> QED
  BY <1>1, <1>2, <1>3, <1>4, <1>5, <1>6 DEF Next

\* The kind stays, and so does what its input is made of.
LEMMA NextInput == InputInv /\ [Next]_vars => InputInv'
<1> SUFFICES ASSUME InputInv, [Next]_vars  PROVE InputInv'
  OBVIOUS
<1>1. CASE UNCHANGED vars
  BY <1>1 DEF vars, InputInv
<1>2. CASE kind = "fill" /\ UNCHANGED <<kind, acc>>
  BY <1>2 DEF InputInv
<1> QED
  BY <1>1, <1>2, StepGrows DEF InputInv

\* The first input is empty.
LEMMA InitInput == Init => InputInv
BY DEF Init, InputInv

-----------------------------------------------------------------------------
(* The notes.                                                              *)

\* The ids a concept may have after the loop.
ConceptIds == Ids \cup {None, Odd} \cup ({"new"} \X Nat)

\* While every entry is an object with an id that the model takes, the model
\* lists the ids of the raw notes.
NotesInv ==
  kind = "notes" =>
    /\ acc \in [ids : Seq(ConceptIds), escaped : BOOLEAN]
    /\ ~acc.escaped /\ (\A i \in DOMAIN input : input[i].object)
         => acc.ids = PromptConcepts(Marked(input))

\* An entry more, whatever it is.
LEMMA NextNotes == InputInv /\ NotesInv /\ [Next]_vars => NotesInv'
<1> SUFFICES ASSUME InputInv, NotesInv, [Next]_vars, kind' = "notes"
             PROVE  NotesInv'
  BY DEF NotesInv
<1>1. CASE UNCHANGED vars
  BY <1>1 DEF vars, NotesInv, PromptConcepts, Marked
<1>2. CASE /\ kind = "notes"
           /\ \E c \in Concepts : /\ input' = Append(input, c)
                                  /\ acc' = TakeConcept(acc, c, Len(input) + 1)
  <2>1. PICK c \in Concepts : /\ input' = Append(input, c)
                              /\ acc' = TakeConcept(acc, c, Len(input) + 1)
    BY <1>2
  <2> DEFINE n == Len(input)
             id == WithId(c, <<"new", n + 1>>).id
  <2>2. /\ input \in Seq(Concepts) /\ n \in Nat
        /\ DOMAIN input = 1..n /\ DOMAIN input' = 1..(n + 1)
        /\ input'[n + 1] = c /\ \A i \in 1..n : input'[i] = input[i]
    BY <1>2, <2>1 DEF InputInv
  <2>3. /\ acc \in [ids : Seq(ConceptIds), escaped : BOOLEAN]
        /\ c.object => id \in ConceptIds
    BY <1>2, <2>2, ContentAssumption DEF NotesInv, WithId, ConceptIds
  <2>4. CASE ~acc.escaped /\ c.object /\ id # Odd
    <3> DEFINE ids == Append(acc.ids, id)
    <3>1. ids \in Seq(ConceptIds)
      BY <2>3, <2>4
    <3>2. acc' = [acc EXCEPT !.ids = ids]
      BY <2>1, <2>4 DEF TakeConcept
    <3> HIDE DEF ids
    <3>3. acc' \in [ids : Seq(ConceptIds), escaped : BOOLEAN] /\ acc'.ids = ids
      BY <2>3, <3>1, <3>2
    <3>4. ASSUME \A i \in DOMAIN input' : input'[i].object
          PROVE  ids = PromptConcepts(Marked(input'))
      <4>1. acc.ids = PromptConcepts(Marked(input))
        BY <1>2, <2>2, <2>4, <3>4 DEF NotesInv
      <4>2. acc.ids = [i \in 1..n |-> WithId(input[i], <<"new", i>>).id]
        BY <2>2, <3>4, <4>1 DEF PromptConcepts, Marked
      <4>3. PromptConcepts(Marked(input'))
              = [i \in 1..(n + 1) |-> WithId(input'[i], <<"new", i>>).id]
        BY <2>2, <3>4 DEF PromptConcepts, Marked
      <4> QED
        BY <2>2, <4>2, <4>3 DEF ids
    <3> QED
      BY <3>3, <3>4 DEF NotesInv
  <2>5. CASE acc.escaped \/ ~c.object
    <3>1. acc' = acc
      BY <2>1, <2>5 DEF TakeConcept
    <3> QED
      BY <2>2, <2>3, <2>5, <3>1 DEF NotesInv
  <2>6. CASE ~acc.escaped /\ c.object /\ id = Odd
    <3>1. acc' = [acc EXCEPT !.escaped = TRUE]
      BY <2>1, <2>6 DEF TakeConcept
    <3>2. acc' \in [ids : Seq(ConceptIds), escaped : BOOLEAN] /\ acc'.escaped
      BY <2>3, <3>1
    <3> QED
      BY <3>2 DEF NotesInv
  <2> QED
    BY <2>3, <2>4, <2>5, <2>6
<1> QED
  BY <1>1, <1>2, StepGrows

\* Every id is there after the marking; only an entry that is no object or has
\* no term makes the prompt raise.
LEMMA OnlyTermsMissing ==
  ASSUME InputInv, kind = "notes"
  PROVE  PromptRaises(Marked(input)) <=>
           \E i \in DOMAIN input : ~(input[i].object /\ input[i].term)
<1>1. /\ DOMAIN Marked(input) = DOMAIN input
      /\ \A i \in DOMAIN input : input[i] \in Concepts /\ i \in Nat
  BY DEF InputInv, Marked
<1>2. ASSUME NEW i \in DOMAIN input, input[i].object
      PROVE  /\ Marked(input)[i].object = input[i].object
             /\ Marked(input)[i].term = input[i].term
             /\ Marked(input)[i].id # None
  <2>1. /\ Marked(input)[i] = WithId(input[i], <<"new", i>>)
        /\ input[i] \in [object : BOOLEAN, id : Ids \cup {None, Odd}, term : BOOLEAN]
    BY <1>1, <1>2, ContentAssumption DEF Marked
  <2>2. <<"new", i>> # None
    BY <1>1, IdAssumption
  <2> QED
    BY <2>1, <2>2 DEF WithId
<1>3. ASSUME NEW i \in DOMAIN input, ~input[i].object
      PROVE  Marked(input)[i].object = input[i].object
  BY <1>1, <1>3 DEF Marked
<1> QED
  BY <1>1, <1>2, <1>3 DEF PromptRaises

\* The prompts offer the ids that the validators accept.
THEOREM PromptOffersAll == Spec => []PromptOffersNotes
<1>1. Init => NotesInv
  <2> SUFFICES ASSUME Init, kind = "notes"  PROVE NotesInv
    BY DEF NotesInv
  <2>1. input = <<>> /\ acc = [ids |-> <<>>, escaped |-> FALSE]
    BY DEF Init, NoConcepts
  <2>2. PromptConcepts(Marked(<<>>)) = <<>>
    BY DEF PromptConcepts, Marked
  <2> QED
    BY <2>1, <2>2 DEF NotesInv
<1>2. InputInv /\ NotesInv => PromptOffersNotes
  <2> SUFFICES ASSUME InputInv, NotesInv, kind = "notes", ~acc.escaped
               PROVE  /\ ~PromptRaises(Marked(input))
                            => PromptConcepts(Marked(input)) = acc.ids
                      /\ PromptRaises(Marked(input)) <=>
                           \E i \in DOMAIN input : ~(input[i].object /\ input[i].term)
    BY DEF PromptOffersNotes
  <2> QED
    BY OnlyTermsMissing DEF NotesInv
<1> QED
  BY InitInput, NextInput, <1>1, NextNotes, <1>2, PTL DEF Spec

-----------------------------------------------------------------------------
(* The quiz.                                                               *)

Texts == {q.text : q \in Questions}
Kept == [at : Nat, text : Texts, concept : Ids \cup {None}, level : Levels]

\* Whatever the model sends as a level, the quiz gets one from 1 to 5.
LEMMA LevelCoerced ==
  ASSUME NEW raw, raw.type = "number" => raw.value \in Int
  PROVE  CoerceLevel(raw) \in Levels
<1>1. CASE raw.type = "word" /\ raw.value \in DOMAIN DifficultyLevel
  BY <1>1 DEF CoerceLevel, DifficultyLevel, Levels
<1>2. CASE raw.type = "number"
  BY <1>2 DEF CoerceLevel, Clamp, Levels
<1>3. CASE /\ ~(raw.type = "word" /\ raw.value \in DOMAIN DifficultyLevel)
           /\ raw.type # "number"
  BY <1>3 DEF CoerceLevel, Levels
<1> QED
  BY <1>1, <1>2, <1>3

\* A level that was coerced is not changed when the quiz is read again.
LEMMA LevelStays ==
  ASSUME NEW n \in Levels
  PROVE  SchemaLevel([type |-> "number", value |-> n]) = n
BY DEF SchemaLevel, Clamp, Levels

\* A question is linked to a concept that exists, if any does.
LEMMA LinkExists ==
  ASSUME NEW id
  PROVE  /\ LinkedConcept(id, Ids) \in Ids \cup {None}
         /\ Ids # {} => LinkedConcept(id, Ids) \in Ids
BY DEF LinkedConcept

\* A question that passes the checks, and one of which a question can be made.
Fits(q) == WellFormed(q) /\ q.typed

\* What is kept are good questions of the reply in its order, no two alike, and
\* of every one that passes there is itself or an earlier twin, until a
\* question of the wrong type without a twin ends the loop.
QuizInv ==
  kind = "mcq" =>
    /\ acc \in [seen : Seq(Texts), kept : Seq(Kept), escaped : BOOLEAN]
    /\ Len(acc.seen) = Len(acc.kept)
    /\ \A j \in DOMAIN acc.kept :
         /\ acc.seen[j] = acc.kept[j].text
         /\ acc.kept[j].at \in DOMAIN input /\ Fits(input[acc.kept[j].at])
         /\ Ids # {} => acc.kept[j].concept \in Ids
    /\ \A i, j \in DOMAIN acc.kept : i < j =>
         /\ acc.kept[i].at < acc.kept[j].at
         /\ ~NearDuplicate(acc.kept[i].text, acc.kept[j].text)
    /\ ~acc.escaped => \A n \in DOMAIN input : WellFormed(input[n]) =>
         \E j \in DOMAIN acc.kept :
           \/ acc.kept[j].at = n
           \/ acc.kept[j].at < n /\ NearDuplicate(input[n].text, acc.kept[j].text)
    /\ acc.escaped => \E n \in DOMAIN input :
         /\ WellFormed(input[n]) /\ ~input[n].typed
         /\ \A j \in DOMAIN acc.kept :
              acc.kept[j].at < n => ~NearDuplicate(input[n].text, acc.kept[j].text)

\* Which of two questions is compared with which does not matter.
LEMMA AlikeBothWays ==
  ASSUME NEW a, NEW b
  PROVE  NearDuplicate(a, b) <=> NearDuplicate(b, a)
<1>1. a \cap b = b \cap a /\ a \cup b = b \cup a
  OBVIOUS
<1> QED
  BY <1>1 DEF NearDuplicate

\* A question more: it is skipped, or kept as the last of the quiz, or it ends
\* the loop.
LEMMA NextQuiz == InputInv /\ QuizInv /\ [Next]_vars => QuizInv'
<1> SUFFICES ASSUME InputInv, QuizInv, [Next]_vars, kind' = "mcq"  PROVE QuizInv'
  BY DEF QuizInv
<1>1. CASE UNCHANGED vars
  BY <1>1 DEF vars, QuizInv
<1>2. CASE kind = "mcq" /\ \E q \in Questions :
             input' = Append(input, q) /\ acc' = TakeQuestion(acc, q, Len(input) + 1, Ids)
  <2>1. PICK q \in Questions :
          input' = Append(input, q) /\ acc' = TakeQuestion(acc, q, Len(input) + 1, Ids)
    BY <1>2
  <2> DEFINE n == Len(input)
             k == Len(acc.kept)
             new == [at |-> n + 1, text |-> q.text,
                     concept |-> LinkedConcept(q.concept, Ids),
                     level |-> CoerceLevel(q.level)]
             twin == \E i \in DOMAIN acc.seen : NearDuplicate(q.text, acc.seen[i])
  <2>2. /\ n \in Nat /\ DOMAIN input = 1..n /\ DOMAIN input' = 1..(n + 1)
        /\ input'[n + 1] = q /\ \A i \in 1..n : input'[i] = input[i]
    BY <1>2, <2>1 DEF InputInv
  <2>3. /\ acc \in [seen : Seq(Texts), kept : Seq(Kept), escaped : BOOLEAN]
        /\ Len(acc.seen) = k /\ k \in Nat
        /\ DOMAIN acc.seen = 1..k /\ DOMAIN acc.kept = 1..k
    BY <1>2 DEF QuizInv
  <2>4. /\ \A j \in 1..k : /\ acc.seen[j] = acc.kept[j].text
                           /\ acc.kept[j].at \in 1..n /\ Fits(input[acc.kept[j].at])
                           /\ Ids # {} => acc.kept[j].concept \in Ids
        /\ \A i, j \in 1..k : i < j =>
             /\ acc.kept[i].at < acc.kept[j].at
             /\ ~NearDuplicate(acc.kept[i].text, acc.kept[j].text)
        /\ ~acc.escaped => \A m \in 1..n : WellFormed(input[m]) =>
             \E j \in 1..k :
               \/ acc.kept[j].at = m
               \/ acc.kept[j].at < m /\ NearDuplicate(input[m].text, acc.kept[j].text)
    BY <1>2, <2>2, <2>3 DEF QuizInv
  <2>5. \A j \in 1..k : /\ acc.kept[j].at \in 1..(n + 1)
                        /\ Fits(input'[acc.kept[j].at])
    BY <2>2, <2>4
  <2>6. CASE acc.escaped
    <3>1. acc' = acc
      BY <2>1, <2>6 DEF TakeQuestion
    <3>2. PICK m \in 1..n :
            /\ WellFormed(input[m]) /\ ~input[m].typed
            /\ \A j \in 1..k :
                 acc.kept[j].at < m => ~NearDuplicate(input[m].text, acc.kept[j].text)
      BY <1>2, <2>2, <2>3, <2>6 DEF QuizInv
    <3>3. m \in 1..(n + 1) /\ input'[m] = input[m]
      BY <2>2
    <3>4. DOMAIN acc.kept = 1..k /\ DOMAIN input' = 1..(n + 1)
      BY <2>2, <2>3
    <3> HIDE DEF k, n
    <3> QED
      BY <2>3, <2>4, <2>5, <2>6, <3>1, <3>2, <3>3, <3>4 DEF QuizInv
  <2>7. CASE ~acc.escaped /\ WellFormed(q) /\ ~twin /\ ~q.typed
    <3>1. acc' = [acc EXCEPT !.escaped = TRUE]
      BY <2>1, <2>7 DEF TakeQuestion, Keep
    <3>2. /\ acc' \in [seen : Seq(Texts), kept : Seq(Kept), escaped : BOOLEAN]
          /\ acc'.seen = acc.seen /\ acc'.kept = acc.kept /\ acc'.escaped
      BY <2>3, <3>1
    <3>3. \A j \in 1..k : ~NearDuplicate(q.text, acc.kept[j].text)
      BY <2>3, <2>4, <2>7
    <3>4. /\ DOMAIN acc.kept = 1..k /\ DOMAIN input' = 1..(n + 1)
          /\ n + 1 \in 1..(n + 1) /\ input'[n + 1] = q
      BY <2>2, <2>3
    <3>5. \E m \in 1..(n + 1) :
            /\ WellFormed(input'[m]) /\ ~input'[m].typed
            /\ \A j \in 1..k :
                 acc.kept[j].at < m => ~NearDuplicate(input'[m].text, acc.kept[j].text)
      BY <2>7, <3>3, <3>4
    <3> HIDE DEF k, n
    <3>6. \E m \in DOMAIN input' :
            /\ WellFormed(input'[m]) /\ ~input'[m].typed
            /\ \A j \in DOMAIN acc'.kept :
                 acc'.kept[j].at < m => ~NearDuplicate(input'[m].text, acc'.kept[j].text)
      BY <3>2, <3>4, <3>5
    <3>7. /\ Len(acc'.seen) = Len(acc'.kept)
          /\ \A j \in DOMAIN acc'.kept :
               /\ acc'.seen[j] = acc'.kept[j].text
               /\ acc'.kept[j].at \in DOMAIN input' /\ Fits(input'[acc'.kept[j].at])
               /\ Ids # {} => acc'.kept[j].concept \in Ids
      BY <2>3, <2>4, <2>5, <3>2, <3>4
    <3>8. \A i, j \in DOMAIN acc'.kept : i < j =>
            /\ acc'.kept[i].at < acc'.kept[j].at
            /\ ~NearDuplicate(acc'.kept[i].text, acc'.kept[j].text)
      BY <2>4, <3>2, <3>4
    <3> QED
      BY <3>2, <3>6, <3>7, <3>8 DEF QuizInv
  <2>8. CASE ~acc.escaped /\ (~WellFormed(q) \/ twin)
    <3>1. acc' = acc
      BY <2>1, <2>8 DEF TakeQuestion
    <3>2. WellFormed(q) =>
            \E j \in 1..k : acc.kept[j].at < n + 1 /\ NearDuplicate(q.text, acc.kept[j].text)
      BY <2>2, <2>3, <2>4, <2>8
    <3>3. \A m \in DOMAIN input' : WellFormed(input'[m]) =>
            \E j \in 1..k :
              \/ acc.kept[j].at = m
              \/ acc.kept[j].at < m /\ NearDuplicate(input'[m].text, acc.kept[j].text)
      BY <2>2, <2>4, <2>8, <3>2
    <3>4. DOMAIN acc.kept = 1..k /\ DOMAIN input' = 1..(n + 1)
      BY <2>2, <2>3
    <3> HIDE DEF k, n
    <3> QED
      BY <2>3, <2>4, <2>5, <2>8, <3>1, <3>3, <3>4 DEF QuizInv
  <2>9. CASE ~acc.escaped /\ Fits(q) /\ ~twin
    <3>1. acc' = [acc EXCEPT !.seen = Append(@, q.text), !.kept = Append(@, new)]
      BY <2>1, <2>9 DEF TakeQuestion, Keep, Fits
    <3>2. q.text \in Texts /\ new \in Kept /\ (Ids # {} => new.concept \in Ids)
      BY <2>2, LevelCoerced, LinkExists, ContentAssumption DEF Texts, Kept
    <3> HIDE DEF new
    <3>3. /\ acc' \in [seen : Seq(Texts), kept : Seq(Kept), escaped : BOOLEAN]
          /\ ~acc'.escaped
          /\ Len(acc'.seen) = k + 1 /\ Len(acc'.kept) = k + 1
          /\ acc'.seen[k + 1] = q.text /\ acc'.kept[k + 1] = new
          /\ \A j \in 1..k : acc'.seen[j] = acc.seen[j] /\ acc'.kept[j] = acc.kept[j]
      <4>1. acc.seen \in Seq(Texts) /\ acc.kept \in Seq(Kept)
        BY <2>3
      <4>2. /\ acc'.seen = Append(acc.seen, q.text) /\ acc'.kept = Append(acc.kept, new)
            /\ acc'.escaped = acc.escaped
            /\ acc' \in [seen : Seq(Texts), kept : Seq(Kept), escaped : BOOLEAN]
        <5> DEFINE seen == Append(acc.seen, q.text)
                   kept == Append(acc.kept, new)
        <5>1. seen \in Seq(Texts) /\ kept \in Seq(Kept)
          BY <3>2, <4>1
        <5>2. acc' = [acc EXCEPT !.seen = seen, !.kept = kept]
          BY <3>1
        <5> HIDE DEF seen, kept
        <5>3. /\ acc' \in [seen : Seq(Texts), kept : Seq(Kept), escaped : BOOLEAN]
              /\ acc'.seen = seen /\ acc'.kept = kept /\ acc'.escaped = acc.escaped
          BY <2>3, <5>1, <5>2
        <5> QED
          BY <5>3 DEF seen, kept
      <4> QED
        BY <2>3, <2>9, <3>2, <4>1, <4>2
    <3>4. new.at = n + 1 /\ new.text = q.text
      BY DEF new
    <3>5. \A j \in 1..(k + 1) :
            /\ acc'.seen[j] = acc'.kept[j].text
            /\ acc'.kept[j].at \in 1..(n + 1) /\ Fits(input'[acc'.kept[j].at])
            /\ Ids # {} => acc'.kept[j].concept \in Ids
      <4>1. ASSUME NEW j \in 1..k
            PROVE  /\ acc'.seen[j] = acc'.kept[j].text
                   /\ acc'.kept[j].at \in 1..(n + 1) /\ Fits(input'[acc'.kept[j].at])
                   /\ Ids # {} => acc'.kept[j].concept \in Ids
        <5>1. acc'.seen[j] = acc.seen[j] /\ acc'.kept[j] = acc.kept[j]
          BY <3>3
        <5> QED
          BY <2>4, <2>5, <5>1
      <4>2. /\ acc'.seen[k + 1] = acc'.kept[k + 1].text /\ n + 1 \in 1..(n + 1)
            /\ acc'.kept[k + 1].at \in 1..(n + 1)
            /\ Fits(input'[acc'.kept[k + 1].at])
            /\ Ids # {} => acc'.kept[k + 1].concept \in Ids
        BY <2>2, <2>9, <3>2, <3>3, <3>4
      <4>3. \A j \in 1..(k + 1) : j \in 1..k \/ j = k + 1
        BY <2>3
      <4> QED
        BY <4>1, <4>2, <4>3
    <3>6. \A i, j \in 1..(k + 1) : i < j =>
            /\ acc'.kept[i].at < acc'.kept[j].at
            /\ ~NearDuplicate(acc'.kept[i].text, acc'.kept[j].text)
      <4>1. ASSUME NEW i \in 1..k, NEW j \in 1..k, i < j
            PROVE  /\ acc'.kept[i].at < acc'.kept[j].at
                   /\ ~NearDuplicate(acc'.kept[i].text, acc'.kept[j].text)
        BY <2>4, <3>3, <4>1
      <4>2. ASSUME NEW i \in 1..k
            PROVE  /\ acc'.kept[i].at < acc'.kept[k + 1].at
                   /\ ~NearDuplicate(acc'.kept[i].text, acc'.kept[k + 1].text)
        <5>1. acc'.kept[i].at < n + 1
          BY <2>2, <2>4, <3>3
        <5>2. acc'.kept[i].text = acc.seen[i] /\ i \in DOMAIN acc.seen
          BY <2>3, <2>4, <3>3
        <5>3. ~NearDuplicate(q.text, acc.seen[i])
          BY <2>9, <5>2
        <5>4. ~NearDuplicate(acc.seen[i], q.text)
          BY <5>3, AlikeBothWays
        <5> QED
          BY <3>3, <3>4, <5>1, <5>2, <5>4
      <4>3. \A i, j \in 1..(k + 1) : i < j => i \in 1..k /\ (j \in 1..k \/ j = k + 1)
        BY <2>3
      <4> QED
        BY <4>1, <4>2, <4>3
    <3>7. \A m \in 1..(n + 1) : WellFormed(input'[m]) =>
            \E j \in 1..(k + 1) :
              \/ acc'.kept[j].at = m
              \/ acc'.kept[j].at < m /\ NearDuplicate(input'[m].text, acc'.kept[j].text)
      <4>1. ASSUME NEW m \in 1..n, WellFormed(input'[m])
            PROVE  \E j \in 1..(k + 1) :
                     \/ acc'.kept[j].at = m
                     \/ acc'.kept[j].at < m
                        /\ NearDuplicate(input'[m].text, acc'.kept[j].text)
        <5>1. PICK j \in 1..k :
                \/ acc.kept[j].at = m
                \/ acc.kept[j].at < m /\ NearDuplicate(input[m].text, acc.kept[j].text)
          BY <2>2, <2>4, <2>9, <4>1
        <5>2. j \in 1..(k + 1)
          BY <2>3
        <5> QED
          BY <2>2, <3>3, <5>1, <5>2
      <4>2. acc'.kept[k + 1].at = n + 1 /\ k + 1 \in 1..(k + 1)
        BY <2>3, <3>3, <3>4
      <4>3. \A m \in 1..(n + 1) : m \in 1..n \/ m = n + 1
        BY <2>2
      <4> QED
        BY <4>1, <4>2, <4>3
    <3>8. Len(acc'.seen) = Len(acc'.kept) /\ DOMAIN acc'.kept = 1..(k + 1)
      BY <2>3, <3>3
    <3> HIDE DEF k, n
    <3> QED
      BY <2>2, <3>3, <3>5, <3>6, <3>7, <3>8 DEF QuizInv
  <2> QED
    <3>1. q.typed \in BOOLEAN /\ acc.escaped \in BOOLEAN
      BY <2>3, ContentAssumption
    <3> QED
      BY <2>6, <2>7, <2>8, <2>9, <3>1 DEF Fits
<1> QED
  BY <1>1, <1>2, StepGrows

\* Unless an exception escapes, and one does exactly at a question of the wrong
\* type without a twin, the quiz loses no question that passes the checks but
\* for a twin, repeats none, and is refused only where no question passes.
THEOREM QuizIsComplete == Spec => []QuizComplete
<1>1. Init => QuizInv
  BY DEF Init, QuizInv, NoQuestions
<1>2. QuizInv => QuizComplete
  <2> SUFFICES ASSUME QuizInv, kind = "mcq"  PROVE QuizComplete
    BY DEF QuizComplete
  <2>1. DOMAIN acc.kept = 1..Len(acc.kept)
        /\ \A j \in DOMAIN acc.kept : acc.kept[j] \in Kept
    BY DEF QuizInv
  <2>2. \A j \in DOMAIN acc.kept :
          /\ acc.kept[j].level \in Levels
          /\ acc.kept[j].level
               = SchemaLevel([type |-> "number", value |-> acc.kept[j].level])
    BY <2>1, LevelStays DEF Kept
  <2>3. \A j \in DOMAIN acc.kept :
          acc.kept[j].at \in DOMAIN input /\ Fits(input[acc.kept[j].at])
    BY DEF QuizInv
  <2>4. McqRaises(acc) <=> \A n \in DOMAIN input : ~WellFormed(input[n])
    <3>1. acc.kept = <<>> <=> DOMAIN acc.kept = {}
      BY DEF QuizInv
    <3>2. CASE acc.escaped
      BY <3>2 DEF QuizInv, McqRaises
    <3>3. CASE ~acc.escaped
      BY <2>3, <3>1, <3>3 DEF QuizInv, McqRaises, Fits
    <3> QED
      BY <3>2, <3>3
  <2>5. ~acc.escaped => \A n \in DOMAIN input : WellFormed(input[n]) =>
          HasTwin(n) \/ \E j \in DOMAIN acc.kept : acc.kept[j].at = n
    BY DEF QuizInv, HasTwin
  <2>6. acc.escaped <=> \E n \in DOMAIN input :
          WellFormed(input[n]) /\ ~input[n].typed /\ ~HasTwin(n)
    <3>1. CASE acc.escaped
      BY <3>1 DEF QuizInv, HasTwin
    <3>2. CASE ~acc.escaped
      BY <2>3, <2>5, <3>2 DEF Fits
    <3> QED
      BY <3>1, <3>2
  <2>7. /\ \A i, j \in DOMAIN acc.kept : i < j =>
             /\ acc.kept[i].at < acc.kept[j].at
             /\ ~NearDuplicate(acc.kept[i].text, acc.kept[j].text)
        /\ \A j \in DOMAIN acc.kept : Ids # {} => acc.kept[j].concept \in Ids
    BY DEF QuizInv
  <2> QED
    BY <2>2, <2>4, <2>5, <2>6, <2>7 DEF QuizComplete
<1> QED
  BY InitInput, NextInput, <1>1, NextQuiz, <1>2, PTL DEF Spec

-----------------------------------------------------------------------------
(* Counting characters.                                                    *)

\* The positions counted are finitely many.
LEMMA PositionsFinite ==
  ASSUME NEW text, NEW c, NEW i \in Int, NEW j \in Int
  PROVE  IsFiniteSet({k \in i..j : text[k] = c})
<1>1. {k \in i..j : text[k] = c} \in SUBSET (i..j)
  OBVIOUS
<1> QED
  BY <1>1, FS_Interval, FS_Subset

\* Their number is a natural number, and zero between neighbours.
LEMMA NumberType ==
  ASSUME NEW text, NEW c, NEW i \in Int, NEW j \in Int
  PROVE  /\ Number(text, c, i, j) \in Nat
         /\ j < i => Number(text, c, i, j) = 0
<1>1. Number(text, c, i, j) \in Nat
  BY PositionsFinite, FS_CardinalityType DEF Number
<1>2. j < i => {k \in i..j : text[k] = c} = {}
  OBVIOUS
<1> QED
  BY <1>1, <1>2, FS_EmptySet DEF Number

\* One position more counts if c is there.
LEMMA NumberStep ==
  ASSUME NEW text, NEW c, NEW i \in Int, NEW j \in Int, i <= j + 1
  PROVE  Number(text, c, i, j + 1)
           = Number(text, c, i, j) + (IF text[j + 1] = c THEN 1 ELSE 0)
<1> DEFINE old == {k \in i..j : text[k] = c}
           new == {k \in i..(j + 1) : text[k] = c}
<1>1. IsFiniteSet(old)
  BY PositionsFinite
<1>4. j + 1 \notin old
  OBVIOUS
<1>2. CASE text[j + 1] = c
  <2>1. new = old \cup {j + 1}
    BY <1>2
  <2>2. Cardinality(new) = Cardinality(old) + 1
    <3> HIDE DEF old, new
    <3> QED
      BY <1>1, <1>4, <2>1, FS_AddElement
  <2> QED
    BY <1>2, <2>2 DEF Number
<1>3. CASE text[j + 1] # c
  <2>1. \A k \in new : k \in old
    BY <1>3
  <2>2. new = old
    BY <2>1
  <2>3. Number(text, c, i, j + 1) = Number(text, c, i, j)
    BY <2>2 DEF Number
  <2>4. Number(text, c, i, j) \in Nat
    BY NumberType
  <2> QED
    BY <1>3, <2>3, <2>4
<1> QED
  BY <1>2, <1>3

\* What is counted up to a position and what is counted from there on.
LEMMA NumberSplit ==
  ASSUME NEW text, NEW c, NEW h \in Int, NEW i \in Int, NEW j \in Int,
         h <= i, i <= j + 1
  PROVE  Number(text, c, h, j) = Number(text, c, h, i - 1) + Number(text, c, i, j)
<1> DEFINE low == {k \in h..(i - 1) : text[k] = c}
           high == {k \in i..j : text[k] = c}
<1>1. IsFiniteSet(low) /\ IsFiniteSet(high)
  <2>1. i - 1 \in Int
    OBVIOUS
  <2>2. IsFiniteSet(low)
    BY <2>1, PositionsFinite, Zenon
  <2>3. IsFiniteSet(high)
    BY PositionsFinite, Zenon
  <2> QED
    BY <2>2, <2>3
<1>2. {k \in h..j : text[k] = c} = low \cup high /\ low \cap high = {}
  <2>1. h..j = (h..(i - 1)) \cup (i..j) /\ (h..(i - 1)) \cap (i..j) = {}
    OBVIOUS
  <2> QED
    BY <2>1
<1>3. Cardinality(low \cup high) = Cardinality(low) + Cardinality(high)
  <2>1. /\ Cardinality(low) \in Nat /\ Cardinality(high) \in Nat
        /\ Cardinality(low \cap high) = 0
        /\ Cardinality(low \cup high)
             = Cardinality(low) + Cardinality(high) - Cardinality(low \cap high)
    <3> HIDE DEF low, high
    <3> QED
      BY <1>1, <1>2, FS_Union, FS_EmptySet, FS_CardinalityType
  <2> HIDE DEF low, high
  <2> QED
    BY <2>1
<1> QED
  BY <1>2, <1>3 DEF Number

\* What is added behind changes no count before.
LEMMA NumberAppend ==
  ASSUME NEW text \in Seq(Chars), NEW x \in Chars, NEW c,
         NEW i \in Nat \ {0}, NEW j \in 0..Len(text)
  PROVE  Number(Append(text, x), c, i, j) = Number(text, c, i, j)
<1>1. \A k \in i..j : Append(text, x)[k] = text[k]
  OBVIOUS
<1>2. {k \in i..j : Append(text, x)[k] = c} = {k \in i..j : text[k] = c}
  BY <1>1
<1> QED
  BY <1>2 DEF Number

Weight(c) == IF c = "lbrace" THEN 1 ELSE IF c = "rbrace" THEN -1 ELSE 0
StringWeight(c) == IF c = "strlbrace" THEN 1 ELSE IF c = "strrbrace" THEN -1 ELSE 0

\* Depths are integers, and none is left before the first position.
LEMMA DepthType ==
  ASSUME NEW text, NEW i \in Int, NEW j \in Int
  PROVE  /\ Nesting(text, i, j) \in Int /\ Inside(text, i, j) \in Int
         /\ j < i => Nesting(text, i, j) = 0 /\ Inside(text, i, j) = 0
<1>1. \A d \in Chars : /\ Number(text, d, i, j) \in Nat
                       /\ j < i => Number(text, d, i, j) = 0
  BY NumberType
<1>2. {"lbrace", "rbrace", "strlbrace", "strrbrace"} \subseteq Chars
  BY DEF Chars
<1> QED
  BY <1>1, <1>2 DEF Nesting, Inside

\* How the depths grow with the text.
LEMMA DepthAppend ==
  ASSUME NEW text \in Seq(Chars), NEW c \in Chars, NEW i \in 1..(Len(text) + 1)
  PROVE  LET n == Len(text)  longer == Append(text, c) IN
         /\ \A k \in 0..n : /\ Nesting(longer, i, k) = Nesting(text, i, k)
                            /\ Inside(longer, i, k) = Inside(text, i, k)
         /\ Nesting(longer, i, n + 1) = Nesting(text, i, n) + Weight(c)
         /\ Inside(longer, i, n + 1) = Inside(text, i, n) + StringWeight(c)
<1> DEFINE n == Len(text)
           longer == Append(text, c)
<1>1. \A d \in Chars : \A k \in 0..n : Number(longer, d, i, k) = Number(text, d, i, k)
  BY NumberAppend
<1>2. n \in Nat /\ i \in 1..(n + 1) /\ longer[n + 1] = c
  OBVIOUS
<1>3. ASSUME NEW d \in Chars
      PROVE  /\ Number(longer, d, i, n + 1)
                  = Number(text, d, i, n) + (IF c = d THEN 1 ELSE 0)
             /\ Number(text, d, i, n) \in Nat
  <2>1. Number(longer, d, i, n + 1)
          = Number(longer, d, i, n) + (IF longer[n + 1] = d THEN 1 ELSE 0)
    <3> HIDE DEF longer, n
    <3> QED
      BY <1>2, NumberStep
  <2>2. Number(longer, d, i, n) = Number(text, d, i, n)
    BY <1>1, <1>2
  <2>3. Number(text, d, i, n) \in Nat
    BY <1>2, NumberType
  <2> QED
    BY <1>2, <2>1, <2>2, <2>3
<1>4. {"lbrace", "rbrace", "strlbrace", "strrbrace"} \subseteq Chars
  BY DEF Chars
<1> HIDE DEF n, longer
<1>5. Nesting(longer, i, n + 1) = Nesting(text, i, n) + Weight(c)
  BY <1>3, <1>4 DEF Nesting, Weight
<1>6. Inside(longer, i, n + 1) = Inside(text, i, n) + StringWeight(c)
  BY <1>3, <1>4 DEF Inside, StringWeight
<1>7. \A k \in 0..n : /\ Nesting(longer, i, k) = Nesting(text, i, k)
                      /\ Inside(longer, i, k) = Inside(text, i, k)
  BY <1>1, <1>4 DEF Nesting, Inside
<1> QED
  BY <1>5, <1>6, <1>7 DEF n, longer

\* The depth at a position, from that at an earlier one.
LEMMA DepthSplit ==
  ASSUME NEW text, NEW i \in Nat \ {0}, NEW j \in Nat, i <= j + 1
  PROVE  Nesting(text, 1, j) = Nesting(text, 1, i - 1) + Nesting(text, i, j)
<1>1. ASSUME NEW d
      PROVE  /\ Number(text, d, 1, j) = Number(text, d, 1, i - 1) + Number(text, d, i, j)
             /\ Number(text, d, 1, i - 1) \in Nat /\ Number(text, d, i, j) \in Nat
  BY NumberSplit, NumberType
<1> QED
  BY <1>1 DEF Nesting

-----------------------------------------------------------------------------
(* The complete questions.                                                 *)

\* What makes positions i and j the ends of a complete question.
IsComplete(text, i, j) ==
  /\ i < j /\ text[i] = "lbrace" /\ text[j] = "rbrace"
  /\ Nesting(text, 1, i - 1) = 0 /\ Nesting(text, i, j) = 0
  /\ \A k \in i..(j - 1) : Nesting(text, i, k) > 0

LEMMA CompletePairs ==
  ASSUME NEW text \in Seq(Chars)
  PROVE  /\ CompleteObjects(text) \subseteq (1..Len(text)) \X (1..Len(text))
         /\ \A i, j \in 1..Len(text) :
              <<i, j>> \in CompleteObjects(text) <=> IsComplete(text, i, j)
BY DEF CompleteObjects, IsObject, IsComplete

LEMMA NoneInEmpty == CompleteObjects(<<>>) = {}
BY DEF CompleteObjects

\* A character adds at most the questions that it closes.
LEMMA CompleteAppend ==
  ASSUME NEW text \in Seq(Chars), NEW c \in Chars, NEW q
  PROVE  LET n == Len(text)  longer == Append(text, c) IN
         q \in CompleteObjects(longer) <=>
           \/ q \in CompleteObjects(text)
           \/ \E i \in 1..n : q = <<i, n + 1>> /\ IsComplete(longer, i, n + 1)
<1> DEFINE n == Len(text)
           longer == Append(text, c)
<1>1. /\ n \in Nat /\ longer \in Seq(Chars) /\ Len(longer) = n + 1
      /\ \A i \in 1..n : longer[i] = text[i]
  OBVIOUS
<1>2. \A i \in 1..(n + 1), k \in 0..n : Nesting(longer, i, k) = Nesting(text, i, k)
  BY DepthAppend
<1> HIDE DEF n, longer
<1>3. ASSUME NEW i \in 1..n, NEW j \in 1..n
      PROVE  IsComplete(longer, i, j) <=> IsComplete(text, i, j)
  <2>1. 1 \in 1..(n + 1) /\ i \in 1..(n + 1) /\ i - 1 \in 0..n /\ j \in 0..n
        /\ i..(j - 1) \subseteq 0..n
    BY <1>1
  <2> QED
    BY <1>1, <1>2, <2>1 DEF IsComplete
<1>4. /\ CompleteObjects(text) \subseteq (1..n) \X (1..n)
      /\ \A i, j \in 1..n : <<i, j>> \in CompleteObjects(text) <=> IsComplete(text, i, j)
  BY CompletePairs DEF n
<1>5. /\ CompleteObjects(longer) \subseteq (1..(n + 1)) \X (1..(n + 1))
      /\ \A i, j \in 1..(n + 1) :
           <<i, j>> \in CompleteObjects(longer) <=> IsComplete(longer, i, j)
  BY <1>1, CompletePairs
<1>6. ASSUME q \in CompleteObjects(longer)
      PROVE  \/ q \in CompleteObjects(text)
             \/ \E i \in 1..n : q = <<i, n + 1>> /\ IsComplete(longer, i, n + 1)
  <2>1. PICK i \in 1..(n + 1), j \in 1..(n + 1) : q = <<i, j>>
    BY <1>5, <1>6
  <2>2. IsComplete(longer, i, j) /\ i < j
    BY <1>5, <1>6, <2>1 DEF IsComplete
  <2>3. i \in 1..n /\ (j \in 1..n \/ j = n + 1)
    BY <1>1, <2>2
  <2> QED
    BY <1>3, <1>4, <2>1, <2>2, <2>3
<1>7. ASSUME q \in CompleteObjects(text)
      PROVE  q \in CompleteObjects(longer)
  <2>1. PICK i \in 1..n, j \in 1..n : q = <<i, j>>
    BY <1>4, <1>7
  <2>2. i \in 1..(n + 1) /\ j \in 1..(n + 1)
    BY <1>1
  <2> QED
    BY <1>3, <1>4, <1>5, <1>7, <2>1, <2>2
<1>8. ASSUME NEW i \in 1..n, q = <<i, n + 1>>, IsComplete(longer, i, n + 1)
      PROVE  q \in CompleteObjects(longer)
  <2>1. i \in 1..(n + 1) /\ n + 1 \in 1..(n + 1)
    BY <1>1
  <2> QED
    BY <1>5, <1>8, <2>1
<1> QED
  BY <1>6, <1>7, <1>8 DEF n, longer

-----------------------------------------------------------------------------
(* The count of the braces.                                                *)

\* What the count knows while the strings' braces match: how deep the text is,
\* where the open question began, and the questions that are complete.
Tracks(text, a) ==
  LET n == Len(text) IN
  /\ a.depth = Nesting(text, 1, n) + Inside(text, 1, n)
  /\ a.depth # 0 => /\ a.start \in 1..n /\ text[a.start] = "lbrace"
                    /\ Nesting(text, 1, a.start - 1) = 0
                    /\ \A k \in a.start..n : Nesting(text, 1, k) > 0
  /\ a.found = CompleteObjects(text)

CountInv(text, a) ==
  /\ a \in [depth : Int, start : Nat, found : SUBSET (Nat \X Nat)]
  /\ text # <<>> => text[1] = "lbracket"
  /\ \A k \in 0..Len(text) : Nesting(text, 1, k) >= 0
  /\ StringsMatch(text) => Tracks(text, a)

\* Where the depth is zero no string has an open brace, also before the text.
LEMMA DepthZero ==
  ASSUME NEW text \in Seq(Chars), StringsMatch(text), NEW k \in 0..Len(text)
  PROVE  /\ Inside(text, 1, k) >= 0
         /\ Nesting(text, 1, k) = 0 => Inside(text, 1, k) = 0
BY DepthType DEF StringsMatch

\* A prefix of a text whose strings match is such a text.
LEMMA PrefixMatches ==
  ASSUME NEW text \in Seq(Chars), NEW c \in Chars, StringsMatch(Append(text, c))
  PROVE  StringsMatch(text)
<1> DEFINE n == Len(text)
           longer == Append(text, c)
<1>1. n \in Nat /\ DOMAIN text = 1..n /\ DOMAIN longer = 1..(n + 1) /\ 1 \in 1..(n + 1)
  OBVIOUS
<1>2. \A k \in 0..n : /\ Nesting(longer, 1, k) = Nesting(text, 1, k)
                      /\ Inside(longer, 1, k) = Inside(text, 1, k)
  BY <1>1, DepthAppend
<1>3. StringsMatch(longer)
  OBVIOUS
<1> HIDE DEF n, longer
<1> QED
  BY <1>1, <1>2, <1>3 DEF StringsMatch

\* A character more: the count still knows.
LEMMA TracksOn ==
  ASSUME NEW text \in Seq(Chars), NEW c \in Chars, NEW a, CountInv(text, a),
         Continues(text, c), StringsMatch(Append(text, c))
  PROVE  LET longer == Append(text, c) IN
         Tracks(longer, Count(longer, a, Len(text) + 1))
<1> DEFINE n == Len(text)
           longer == Append(text, c)
           b == Count(longer, a, n + 1)
           N(k) == Nesting(text, 1, k)
           I(k) == Inside(text, 1, k)
<1> SUFFICES Tracks(longer, b)
  OBVIOUS
<1>1. /\ n \in Nat /\ longer \in Seq(Chars) /\ Len(longer) = n + 1 /\ longer[n + 1] = c
      /\ \A i \in 1..n : longer[i] = text[i]
  OBVIOUS
<1>2. 1 \in 1..(n + 1)
  BY <1>1
<1>3. /\ \A i \in 1..(n + 1), k \in 0..n : Nesting(longer, i, k) = Nesting(text, i, k)
      /\ \A i \in 1..(n + 1) :
           Nesting(longer, i, n + 1) = Nesting(text, i, n) + Weight(c)
      /\ Inside(longer, 1, n + 1) = I(n) + StringWeight(c)
  BY <1>2, DepthAppend
<1>4. /\ \A i, k \in Int : Nesting(text, i, k) \in Int /\ Inside(text, i, k) \in Int
      /\ N(0) = 0 /\ I(0) = 0
  BY DepthType
<1>5. /\ a \in [depth : Int, start : Nat, found : SUBSET (Nat \X Nat)]
      /\ a.depth = N(n) + I(n)
      /\ a.depth # 0 => /\ a.start \in 1..n /\ text[a.start] = "lbrace"
                        /\ N(a.start - 1) = 0 /\ \A k \in a.start..n : N(k) > 0
      /\ a.found = CompleteObjects(text)
      /\ \A k \in 0..n : N(k) >= 0
  BY PrefixMatches DEF CountInv, Tracks
<1>6. /\ I(n) >= 0 /\ (N(n) = 0 => I(n) = 0)
      /\ Inside(longer, 1, n + 1) >= 0
      /\ (Nesting(longer, 1, n + 1) = 0 => Inside(longer, 1, n + 1) = 0)
  <2>1. n \in 0..Len(text) /\ n + 1 \in 0..Len(longer)
    BY <1>1
  <2>2. StringsMatch(text) /\ StringsMatch(longer)
    BY PrefixMatches
  <2>3. I(n) >= 0 /\ (N(n) = 0 => I(n) = 0)
    BY <2>1, <2>2, DepthZero
  <2> HIDE DEF longer
  <2> QED
    BY <1>1, <2>1, <2>2, <2>3, DepthZero
<1>7. \A q : q \in CompleteObjects(longer) <=>
        \/ q \in CompleteObjects(text)
        \/ \E i \in 1..n : q = <<i, n + 1>> /\ IsComplete(longer, i, n + 1)
  BY CompleteAppend
<1>8. \A i \in 1..(n + 1), k \in 0..n : i <= k + 1 => N(k) = N(i - 1) + Nesting(text, i, k)
  BY <1>1, DepthSplit
<1>9. /\ c \in {"lbracket", "rbracket"} => N(n) = 0
      /\ c \in {"rbrace", "strlbrace", "strrbrace"} => N(n) > 0
  BY <1>4 DEF Continues, Chars
<1> HIDE DEF n, longer, b, N, I
<1>10. (\A i \in 1..n : ~IsComplete(longer, i, n + 1))
         => CompleteObjects(longer) = CompleteObjects(text)
  BY <1>7
<1>11. c # "rbrace" => CompleteObjects(longer) = CompleteObjects(text)
  BY <1>1, <1>10 DEF IsComplete
<1>12. /\ Nesting(longer, 1, n + 1) = N(n) + Weight(c)
       /\ N(n) \in Int /\ N(n) >= 0 /\ I(n) \in Int
  BY <1>1, <1>2, <1>3, <1>4, <1>5 DEF N, I
<1>13. \A k \in 0..n : Nesting(longer, 1, k) = N(k)
  BY <1>2, <1>3 DEF N
<1>14. CASE c \in {"lbracket", "rbracket"}
  <2>1. b = a
    BY <1>1, <1>14 DEF Count, b
  <2>2. Weight(c) = 0 /\ StringWeight(c) = 0
    BY <1>14 DEF Weight, StringWeight
  <2>3. a.depth = 0 /\ a.depth = Nesting(longer, 1, n + 1) + Inside(longer, 1, n + 1)
    BY <1>3, <1>5, <1>6, <1>9, <1>12, <1>14, <2>2
  <2>4. a.found = CompleteObjects(longer)
    BY <1>5, <1>11, <1>14
  <2> QED
    BY <1>1, <2>1, <2>3, <2>4 DEF Tracks
<1>15. CASE c \in {"lbrace", "strlbrace"}
  <2>1. b = [a EXCEPT !.start = IF a.depth = 0 THEN n + 1 ELSE a.start,
                      !.depth = a.depth + 1]
    BY <1>1, <1>15 DEF Count, b
  <2>2. /\ b.depth = a.depth + 1 /\ b.found = a.found
        /\ b.start = IF a.depth = 0 THEN n + 1 ELSE a.start
    BY <1>5, <2>1
  <2>3. /\ b.depth = Nesting(longer, 1, n + 1) + Inside(longer, 1, n + 1)
        /\ Nesting(longer, 1, n + 1) > 0
    BY <1>3, <1>5, <1>9, <1>12, <1>15, <2>2, <1>1 DEF Weight, StringWeight
  <2>4. b.found = CompleteObjects(longer)
    BY <1>5, <1>11, <1>15, <2>2
  <2>5. CASE a.depth = 0
    <3>1. N(n) = 0 /\ c = "lbrace"
      BY <1>1, <1>5, <1>6, <1>9, <1>12, <1>15, <2>5
    <3>2. b.start = n + 1 /\ Nesting(longer, 1, n) = 0
      BY <1>1, <1>13, <2>2, <2>5, <3>1
    <3> QED
      BY <1>1, <2>3, <2>4, <3>1, <3>2 DEF Tracks
  <2>6. CASE a.depth # 0
    <3>1. b.start = a.start /\ a.start \in 1..n
      BY <1>5, <2>2, <2>6
    <3>2. /\ Nesting(longer, 1, a.start - 1) = 0
          /\ \A k \in a.start..n : Nesting(longer, 1, k) > 0
      BY <1>1, <1>5, <1>13, <2>6, <3>1
    <3>3. \A k \in a.start..(n + 1) : k \in a.start..n \/ k = n + 1
      BY <1>1, <3>1
    <3> QED
      BY <1>1, <1>5, <2>3, <2>4, <2>6, <3>1, <3>2, <3>3 DEF Tracks
  <2> QED
    BY <2>5, <2>6
<1>16. CASE c = "strrbrace"
  <2>1. I(n) > 0 /\ N(n) > 0 /\ a.depth > 1
    BY <1>3, <1>5, <1>6, <1>9, <1>12, <1>16 DEF StringWeight
  <2>2. b = [a EXCEPT !.depth = a.depth - 1]
    BY <1>1, <1>5, <1>16, <2>1 DEF Count, b
  <2>3. b.depth = a.depth - 1 /\ b.found = a.found /\ b.start = a.start
    BY <1>5, <2>2
  <2>4. /\ b.depth = Nesting(longer, 1, n + 1) + Inside(longer, 1, n + 1)
        /\ Nesting(longer, 1, n + 1) > 0
    BY <1>3, <1>5, <1>12, <1>16, <2>1, <2>3 DEF Weight, StringWeight
  <2>5. /\ a.start \in 1..n /\ Nesting(longer, 1, a.start - 1) = 0
        /\ \A k \in a.start..n : Nesting(longer, 1, k) > 0
    BY <1>1, <1>5, <1>13, <2>1
  <2>6. \A k \in a.start..(n + 1) : k \in a.start..n \/ k = n + 1
    BY <1>1, <2>5
  <2>7. b.found = CompleteObjects(longer)
    BY <1>5, <1>11, <1>16, <2>3
  <2> QED
    BY <1>1, <1>5, <2>1, <2>3, <2>4, <2>5, <2>6, <2>7 DEF Tracks
<1>17. CASE c = "rbrace"
  <2> DEFINE m == a.start
  <2>1. /\ N(n) > 0 /\ a.depth > 0
        /\ Nesting(longer, 1, n + 1) = N(n) - 1 /\ Inside(longer, 1, n + 1) = I(n)
    BY <1>3, <1>5, <1>6, <1>9, <1>12, <1>17 DEF Weight, StringWeight
  <2>2. m \in 1..n /\ text[m] = "lbrace" /\ N(m - 1) = 0 /\ \A k \in m..n : N(k) > 0
    BY <1>5, <2>1
  <2>3. ASSUME NEW i \in 1..n, NEW k \in 0..n, i <= k + 1
        PROVE  /\ Nesting(longer, i, k) \in Int
               /\ N(k) = N(i - 1) + Nesting(longer, i, k)
    <3>1. i \in 1..(n + 1) /\ i \in Int /\ k \in Int
      BY <1>1
    <3>2. Nesting(longer, i, k) = Nesting(text, i, k) /\ Nesting(text, i, k) \in Int
      BY <1>3, <1>4, <3>1
    <3> QED
      BY <1>8, <2>3, <3>1, <3>2
  <2>4. ASSUME NEW i \in 1..n
        PROVE  /\ Nesting(longer, i, n) \in Int /\ N(i - 1) \in Int
               /\ Nesting(longer, i, n + 1) = Nesting(longer, i, n) - 1
    <3>1. Weight(c) = -1
      BY <1>17 DEF Weight
    <3>2. /\ i \in 1..(n + 1) /\ i \in Int /\ i - 1 \in Int /\ n \in 0..n /\ n \in Int
          /\ 1 \in Int
      BY <1>1
    <3>3. N(i - 1) \in Int /\ Nesting(text, i, n) \in Int
      BY <1>4, <3>2 DEF N
    <3>4. /\ Nesting(longer, i, n) = Nesting(text, i, n)
          /\ Nesting(longer, i, n + 1) = Nesting(text, i, n) + Weight(c)
      BY <1>3, <3>2
    <3> QED
      BY <3>1, <3>3, <3>4
  <2>5. CASE a.depth = 1
    <3>1. N(n) = 1
      BY <1>5, <1>6, <1>12, <2>1, <2>5
    <3>2. \A k \in m..n : Nesting(longer, m, k) > 0
      <4>1. ASSUME NEW k \in m..n
            PROVE  k \in 0..n /\ m <= k + 1
        BY <1>1, <2>2
      <4> QED
        BY <2>2, <2>3, <4>1
    <3>3. Nesting(longer, m, n + 1) = 0
      BY <1>1, <2>2, <2>3, <2>4, <3>1
    <3>4. longer[m] = "lbrace" /\ longer[n + 1] = "rbrace" /\ m < n + 1
          /\ m..((n + 1) - 1) = m..n
      BY <1>1, <1>17, <2>2
    <3>5. Nesting(longer, 1, m - 1) = 0
      BY <1>1, <1>13, <2>2
    <3>6. IsObject(longer, m, n + 1) /\ IsComplete(longer, m, n + 1)
      BY <3>2, <3>3, <3>4, <3>5 DEF IsObject, IsComplete
    <3>7. ASSUME NEW i \in 1..n, IsComplete(longer, i, n + 1)
          PROVE  i = m
      <4>1. /\ N(i - 1) = 0 /\ \A k \in i..n : Nesting(longer, i, k) > 0
        BY <1>1, <1>13, <3>7 DEF IsComplete
      <4>2. CASE i < m
        <5>1. m - 1 \in i..n /\ m - 1 \in 0..n /\ i <= (m - 1) + 1
          BY <1>1, <2>2, <4>2
        <5>2. Nesting(longer, i, m - 1) \in Int /\ Nesting(longer, i, m - 1) > 0
          BY <2>3, <4>1, <5>1
        <5>3. 0 = 0 + Nesting(longer, i, m - 1)
          BY <2>2, <2>3, <4>1, <5>1
        <5> QED
          BY <5>2, <5>3
      <4>3. CASE i > m
        <5>1. i - 1 \in m..n
          BY <1>1, <2>2, <4>3
        <5> QED
          BY <2>2, <4>1, <5>1
      <4> QED
        BY <2>2, <4>2, <4>3
    <3>8. CompleteObjects(longer) = a.found \cup {<<m, n + 1>>}
      BY <1>5, <1>7, <2>2, <3>6, <3>7
    <3>9. b = [depth |-> 0, start |-> 0, found |-> a.found \cup {<<m, n + 1>>}]
      BY <1>1, <1>17, <2>2, <2>5, <3>6 DEF Count, b
    <3>10. 0 = Nesting(longer, 1, n + 1) + Inside(longer, 1, n + 1)
      BY <1>5, <1>12, <2>1, <2>5
    <3> QED
      BY <1>1, <3>8, <3>9, <3>10 DEF Tracks
  <2>6. CASE a.depth > 1
    <3>1. b = [a EXCEPT !.depth = a.depth - 1]
      BY <1>1, <1>5, <1>17, <2>6 DEF Count, b
    <3>2. b.depth = a.depth - 1 /\ b.found = a.found /\ b.start = m
      BY <1>5, <3>1
    <3>3. b.depth = Nesting(longer, 1, n + 1) + Inside(longer, 1, n + 1)
      BY <1>5, <1>12, <2>1, <3>2
    <3>4. Nesting(longer, 1, n + 1) > 0
      BY <1>5, <1>6, <1>12, <2>1, <2>6
    <3>5. ASSUME NEW i \in 1..n, IsComplete(longer, i, n + 1)
          PROVE  FALSE
      <4>1. N(i - 1) = 0 /\ Nesting(longer, i, n + 1) = 0
        BY <1>1, <1>13, <3>5 DEF IsComplete
      <4>2. N(n) = N(i - 1) + Nesting(longer, i, n)
        BY <1>1, <2>3
      <4> QED
        BY <1>12, <2>1, <2>4, <3>4, <4>1, <4>2
    <3>6. b.found = CompleteObjects(longer)
      BY <1>5, <1>10, <3>2, <3>5
    <3>7. /\ Nesting(longer, 1, m - 1) = 0
          /\ \A k \in m..n : Nesting(longer, 1, k) > 0
      BY <1>1, <1>13, <2>2
    <3>8. \A k \in m..(n + 1) : k \in m..n \/ k = n + 1
      BY <1>1, <2>2
    <3> QED
      BY <1>1, <2>2, <3>2, <3>3, <3>4, <3>6, <3>7, <3>8 DEF Tracks
  <2> QED
    BY <1>5, <2>1, <2>5, <2>6
<1> QED
  BY <1>14, <1>15, <1>16, <1>17 DEF Chars

\* A character more, whether the strings match or not.
LEMMA CountOn ==
  ASSUME NEW text \in Seq(Chars), NEW c \in Chars, NEW a, CountInv(text, a),
         Continues(text, c)
  PROVE  LET longer == Append(text, c) IN
         CountInv(longer, Count(longer, a, Len(text) + 1))
<1> DEFINE n == Len(text)
           longer == Append(text, c)
           b == Count(longer, a, n + 1)
<1> SUFFICES CountInv(longer, b)
  OBVIOUS
<1>1. /\ n \in Nat /\ Len(longer) = n + 1 /\ longer[n + 1] = c
      /\ \A i \in 1..n : longer[i] = text[i]
      /\ longer # <<>> /\ (text = <<>> <=> n = 0)
  OBVIOUS
<1>2. /\ a \in [depth : Int, start : Nat, found : SUBSET (Nat \X Nat)]
      /\ text # <<>> => text[1] = "lbracket"
      /\ \A k \in 0..n : Nesting(text, 1, k) >= 0
  BY DEF CountInv
<1>3. /\ \A k \in 0..n : Nesting(longer, 1, k) = Nesting(text, 1, k)
      /\ Nesting(longer, 1, n + 1) = Nesting(text, 1, n) + Weight(c)
      /\ Nesting(text, 1, n) \in Int
  BY <1>1, DepthAppend, DepthType
<1>4. /\ text = <<>> => c = "lbracket"
      /\ c = "rbrace" => Nesting(text, 1, n) > 0
  BY DEF Continues, Chars
<1>5. StringsMatch(longer) => Tracks(longer, b)
  BY TracksOn
<1> HIDE DEF n, longer
<1>6. b \in [depth : Int, start : Nat, found : SUBSET (Nat \X Nat)]
  <2>1. CASE c \in {"lbrace", "strlbrace"}
    <3> DEFINE first == IF a.depth = 0 THEN n + 1 ELSE a.start
    <3>1. b = [a EXCEPT !.start = first, !.depth = a.depth + 1]
      BY <1>1, <1>2, <2>1 DEF Count
    <3>2. first \in Nat /\ a.depth + 1 \in Int
      BY <1>1, <1>2
    <3> HIDE DEF b, first
    <3> QED
      BY <1>2, <3>1, <3>2
  <2>2. CASE c \in {"rbrace", "strrbrace"}
    <3>1. a.found \cup {<<a.start, n + 1>>} \in SUBSET (Nat \X Nat)
      BY <1>1, <1>2
    <3>2. \/ b = [a EXCEPT !.depth = a.depth - 1]
          \/ b = [depth |-> 0, start |-> 0, found |-> a.found]
          \/ b = [depth |-> 0, start |-> 0, found |-> a.found \cup {<<a.start, n + 1>>}]
      BY <1>1, <1>2, <2>2 DEF Count
    <3> HIDE DEF b
    <3> QED
      BY <1>2, <3>1, <3>2
  <2>3. CASE c \in {"lbracket", "rbracket"}
    BY <1>1, <1>2, <2>3 DEF Count
  <2> QED
    BY <2>1, <2>2, <2>3 DEF Chars
<1>7. longer[1] = "lbracket"
  BY <1>1, <1>2, <1>4
<1>8. Nesting(longer, 1, n + 1) >= 0
  BY <1>1, <1>2, <1>3, <1>4 DEF Weight
<1>9. \A k \in 0..(n + 1) : Nesting(longer, 1, k) >= 0
  <2>1. \A k \in 0..(n + 1) : k \in 0..n \/ k = n + 1
    BY <1>1
  <2> QED
    BY <1>2, <1>3, <1>8, <2>1
<1> HIDE DEF b
<1> QED
  BY <1>1, <1>5, <1>6, <1>7, <1>9 DEF CountInv

ReplyInv == kind = "reply" => CountInv(input, acc)

\* The braces that are counted are those of the reply so far.
LEMMA NextReply == InputInv /\ ReplyInv /\ [Next]_vars => ReplyInv'
<1> SUFFICES ASSUME InputInv, ReplyInv, [Next]_vars, kind' = "reply"
             PROVE  CountInv(input', acc')
  BY DEF ReplyInv
<1>1. CASE UNCHANGED vars
  BY <1>1 DEF vars, ReplyInv
<1>2. CASE kind = "reply" /\ \E c \in Chars : /\ Continues(input, c)
                                              /\ input' = Append(input, c)
                                              /\ acc' = Count(input', acc, Len(input) + 1)
  <2>1. PICK c \in Chars : /\ Continues(input, c)
                           /\ input' = Append(input, c)
                           /\ acc' = Count(Append(input, c), acc, Len(input) + 1)
    BY <1>2
  <2>2. input \in Seq(Chars) /\ CountInv(input, acc)
    BY <1>2 DEF InputInv, ReplyInv
  <2> QED
    BY <2>1, <2>2, CountOn
<1> QED
  BY <1>1, <1>2, StepGrows

\* Wherever a reply was cut off, exactly its complete questions are recovered.
THEOREM RecoversAll == Spec => []RecoversComplete
<1>1. Init => ReplyInv
  <2> SUFFICES ASSUME Init, kind = "reply"  PROVE CountInv(<<>>, NothingFound)
    BY DEF Init, ReplyInv
  <2>1. <<>> \in Seq(Chars) /\ Len(<<>>) = 0
    OBVIOUS
  <2>2. Nesting(<<>>, 1, 0) = 0 /\ Inside(<<>>, 1, 0) = 0
    BY DepthType
  <2>3. CompleteObjects(<<>>) = {}
    BY <2>1, NoneInEmpty
  <2> QED
    BY <2>1, <2>2, <2>3 DEF CountInv, Tracks, NothingFound
<1>2. InputInv /\ ReplyInv => RecoversComplete
  <2> SUFFICES ASSUME InputInv, ReplyInv, kind = "reply", StringsMatch(input)
               PROVE  Extract(input, acc) = CompleteObjects(input)
    BY DEF RecoversComplete
  <2>1. input \in Seq(Chars) /\ acc.found = CompleteObjects(input)
        /\ (input # <<>> => input[1] = "lbracket")
    BY DEF InputInv, ReplyInv, CountInv, Tracks
  <2>2. input = <<>> => CompleteObjects(input) = {}
    BY NoneInEmpty
  <2>3. input # <<>> => 1 \in DOMAIN input
    BY <2>1
  <2> QED
    BY <2>1, <2>2, <2>3 DEF Extract, Recover
<1> QED
  BY InitInput, NextInput, <1>1, NextReply, <1>2, PTL DEF Spec

-----------------------------------------------------------------------------
(* The document: reading it.                                               *)

Places == Nat \X Nat
Section == [title : Places \cup {Introduction, Whole}, content : Seq(Places),
            from : Nat, to : Nat]

\* The lines before line i of page p, and those of X that are text.
Seen(pages, p, i) == {x \in LinesRead(pages) : Before(x, <<p, i>>)}
Lone(pages, x) == pages[x[1]][x[2]].word = Num
BodyOf(pages, X) == {x \in X \ Headings(pages) : ~Lone(pages, x)}

Increasing(s) == \A a, b \in DOMAIN s : a < b => Before(s[a], s[b])

Readers(pages) ==
  [step : {"read"}, page : 1..(Used(pages) + 1), line : Nat \ {0},
   sections : Seq(Section), title : Places \cup {Introduction, Whole},
   start : Nat, lines : BOOLEAN, text : Seq(Places), full : Seq(Places)]

\* The reader is at a line, behind the last of a page or behind all pages.
AtLine(pages, r) ==
  r.line <= IF r.page <= Used(pages) THEN Len(pages[r.page]) + 1 ELSE 1

\* The sections found and the one being collected hold the text of the lines
\* that have been seen.
Collected(pages, r, seen) ==
  /\ InOrder(r.sections) /\ Increasing(r.text)
  /\ \A x \in Covered(r.sections), y \in ToSet(r.text) : Before(x, y)
  /\ Covered(r.sections) \cup ToSet(r.text) = BodyOf(pages, seen)
  /\ ~r.lines => r.text = <<>>
  /\ (r.sections # <<>> \/ r.lines) <=> ~(seen \subseteq Headings(pages))
  /\ \A i \in DOMAIN r.sections : /\ r.sections[i].title # Whole
                                  /\ Placed(pages, r.sections[i])

\* The section being collected has the title of the last heading seen.
Titled(pages, r, seen) ==
  LET above == seen \cap Headings(pages) IN
  /\ r.start <= r.page /\ r.title # Whole
  /\ IF r.title = Introduction THEN above = {} /\ r.start = 1
     ELSE /\ r.title \in above /\ r.start = r.title[1]
          /\ \A h \in above : ~Before(r.title, h)
          /\ \A x \in ToSet(r.text) : Before(r.title, x)

\* Should there be nothing but headings, they have been kept.
Copied(pages, r, seen) ==
  Increasing(r.full) /\ ToSet(r.full) = {x \in seen : ~Lone(pages, x)}

\* r is the state of the reader.
ReadInv(pages, r) ==
  /\ r \in Readers(pages) /\ AtLine(pages, r)
  /\ LET seen == Seen(pages, r.page, r.line) IN
       Collected(pages, r, seen) /\ Titled(pages, r, seen) /\ Copied(pages, r, seen)

-----------------------------------------------------------------------------
(* The document: cutting its sections.                                     *)

\* What there is to cut.
Cuttable(pages, secs) ==
  LET read == LinesRead(pages)
      body == IF read = Headings(pages) THEN read ELSE read \ Headings(pages)
  IN  /\ secs \in Seq(Section) /\ secs # <<>>
      /\ InOrder(secs)
      /\ Covered(secs) = {x \in body : ~Lone(pages, x)}
      /\ \A i \in DOMAIN secs : Placed(pages, secs[i])

\* Line a of section j has been cut off, and all the lines that have.
Cut(r, j, a) == j < r.next \/ (j = r.next /\ a <= r.offset)
CutOff(r) ==
  UNION {{r.sections[j].content[a] :
            a \in {b \in DOMAIN r.sections[j].content : Cut(r, j, b)}} :
         j \in DOMAIN r.sections}

Cutters ==
  [step : {"chunk"}, sections : Seq(Section), next : Nat \ {0}, offset : Nat,
   chunks : Seq(Section)]

\* The next cut is in a section, or at the end of all.
AtCut(r) ==
  /\ r.next <= Len(r.sections) + 1
  /\ r.offset > 0 => /\ r.next <= Len(r.sections)
                     /\ r.offset < Len(r.sections[r.next].content)

\* The chunks hold what has been cut off, and so come before the rest.
Chunked(pages, r) ==
  /\ InOrder(r.chunks) /\ Covered(r.chunks) = CutOff(r)
  /\ r.chunks = <<>> => r.next = 1
  /\ \A i \in DOMAIN r.chunks : /\ Len(r.chunks[i].content) <= ChunkSize
                                /\ Placed(pages, r.chunks[i])

\* r is the state of the cutter.
CutInv(pages, r) ==
  r \in Cutters /\ Cuttable(pages, r.sections) /\ AtCut(r) /\ Chunked(pages, r)

\* The state of the parser, whatever step it is in.
PdfInv ==
  kind = "pdf" =>
    \/ acc.step \in {"file", "refused"}
    \/ acc.step = "read" /\ ReadInv(input, acc)
    \/ acc.step = "chunk" /\ CutInv(input, acc)

-----------------------------------------------------------------------------
(* The order of lines.                                                     *)

\* The lines that are read, by page and line number.
LEMMA LineRead ==
  ASSUME NEW pages \in Seq(Seq(Lines))
  PROVE  /\ Used(pages) \in Nat /\ Used(pages) <= Len(pages)
         /\ \A p \in 1..Used(pages) : /\ DOMAIN pages[p] = 1..Len(pages[p])
                                      /\ Len(pages[p]) \in Nat
         /\ LinesRead(pages) \subseteq Places
         /\ \A p, i \in Nat : <<p, i>> \in LinesRead(pages) <=>
              p \in 1..Used(pages) /\ i \in 1..Len(pages[p])
<1>1. Used(pages) \in Nat /\ Used(pages) <= Len(pages)
  BY PdfAssumption DEF Used, Smaller
<1>2. \A p \in 1..Used(pages) : pages[p] \in Seq(Lines)
  BY <1>1
<1>3. \A p \in 1..Used(pages) : DOMAIN pages[p] = 1..Len(pages[p]) /\ Len(pages[p]) \in Nat
  BY <1>2
<1>4. LinesRead(pages) \subseteq Places
  BY <1>1, <1>3 DEF LinesRead, Places
<1>5. \A p, i \in Nat : <<p, i>> \in LinesRead(pages) <=>
        p \in 1..Used(pages) /\ i \in 1..Len(pages[p])
  BY <1>1, <1>3 DEF LinesRead
<1> QED
  BY <1>1, <1>3, <1>4, <1>5

\* Reading order is a linear order.
LEMMA BeforeOrder ==
  /\ \A x \in Places : ~Before(x, x)
  /\ \A x, y \in Places : x = y \/ Before(x, y) \/ Before(y, x)
  /\ \A x, y, z \in Places : Before(x, y) /\ Before(y, z) => Before(x, z)
BY DEF Before, Places

\* With line i of page p that line has been seen too.
LEMMA SeenLine ==
  ASSUME NEW pages \in Seq(Seq(Lines)), NEW p \in 1..Used(pages),
         NEW i \in 1..Len(pages[p])
  PROVE  /\ <<p, i>> \in LinesRead(pages)
         /\ <<p, i>> \notin Seen(pages, p, i)
         /\ Seen(pages, p, i + 1) = Seen(pages, p, i) \cup {<<p, i>>}
<1>1. p \in Nat /\ i \in Nat /\ <<p, i>> \in LinesRead(pages)
      /\ LinesRead(pages) \subseteq Places
  BY LineRead
<1>2. \A x \in Places : Before(x, <<p, i + 1>>) <=> Before(x, <<p, i>>) \/ x = <<p, i>>
  BY <1>1 DEF Before, Places
<1>3. ~Before(<<p, i>>, <<p, i>>)
  BY <1>1 DEF Before
<1> QED
  BY <1>1, <1>2, <1>3 DEF Seen

\* The end of a page is the beginning of the next.
LEMMA SeenPage ==
  ASSUME NEW pages \in Seq(Seq(Lines)), NEW p \in 1..Used(pages)
  PROVE  Seen(pages, p, Len(pages[p]) + 1) = Seen(pages, p + 1, 1)
<1>1. /\ p \in Nat /\ Len(pages[p]) \in Nat /\ LinesRead(pages) \subseteq Places
      /\ \A x \in LinesRead(pages) : x[2] \in 1..Len(pages[x[1]])
  BY LineRead DEF Places
<1>2. ASSUME NEW x \in LinesRead(pages)
      PROVE  Before(x, <<p, Len(pages[p]) + 1>>) <=> Before(x, <<p + 1, 1>>)
  <2>1. x \in Places /\ x[2] \in 1..Len(pages[x[1]])
    BY <1>1
  <2>2. x[1] \in Nat /\ x[2] \in Nat
    BY <2>1 DEF Places
  <2>3. CASE x[1] = p
    BY <1>1, <2>1, <2>2, <2>3 DEF Before
  <2>4. CASE x[1] # p
    BY <1>1, <2>1, <2>2, <2>4 DEF Before
  <2> QED  BY <2>3, <2>4
<1> QED
  BY <1>2 DEF Seen

\* Nothing has been seen before the first page, and everything after the last.
LEMMA SeenEnds ==
  ASSUME NEW pages \in Seq(Seq(Lines))
  PROVE  /\ Seen(pages, 1, 1) = {}
         /\ Seen(pages, Used(pages) + 1, 1) = LinesRead(pages)
<1>1. /\ LinesRead(pages) \subseteq Places /\ Used(pages) \in Nat
      /\ \A x \in LinesRead(pages) : /\ x[1] \in 1..Used(pages)
                                     /\ x[2] \in 1..Len(pages[x[1]])
  BY LineRead DEF Places
<1>2. ASSUME NEW x \in LinesRead(pages)
      PROVE  ~Before(x, <<1, 1>>) /\ Before(x, <<Used(pages) + 1, 1>>)
  <2>1. x[1] \in Nat /\ x[2] \in Nat /\ x[1] >= 1 /\ x[2] >= 1 /\ x[1] <= Used(pages)
    BY <1>1, <1>2 DEF Places
  <2> QED  BY <1>1, <2>1 DEF Before
<1> QED
  BY <1>2 DEF Seen

-----------------------------------------------------------------------------
(* Lists of sections.                                                      *)

\* One more place in a text.
LEMMA AppendPlace ==
  ASSUME NEW s \in Seq(Places), NEW x \in Places
  PROVE  /\ Append(s, x) \in Seq(Places)
         /\ ToSet(Append(s, x)) = ToSet(s) \cup {x}
         /\ (Increasing(s) /\ \A y \in ToSet(s) : Before(y, x)) => Increasing(Append(s, x))
<1> DEFINE t == Append(s, x)  n == Len(s)
<1>1. /\ t \in Seq(Places) /\ n \in Nat /\ DOMAIN s = 1..n /\ DOMAIN t = 1..(n + 1)
      /\ \A i \in 1..n : t[i] = s[i]
      /\ t[n + 1] = x
  OBVIOUS
<1> HIDE DEF t, n
<1>2. ToSet(t) = ToSet(s) \cup {x}
  BY <1>1 DEF ToSet
<1>3. ASSUME Increasing(s), \A y \in ToSet(s) : Before(y, x)
      PROVE  Increasing(t)
  <2>1. SUFFICES ASSUME NEW a \in DOMAIN t, NEW b \in DOMAIN t, a < b
                 PROVE  Before(t[a], t[b])
    BY DEF Increasing
  <2>2. CASE b = n + 1
    BY <1>1, <1>3, <2>1, <2>2 DEF ToSet
  <2>3. CASE b # n + 1
    BY <1>1, <1>3, <2>1, <2>3 DEF Increasing
  <2> QED  BY <2>2, <2>3
<1> QED
  BY <1>1, <1>2, <1>3 DEF t

\* One more section.
LEMMA AppendSection ==
  ASSUME NEW secs \in Seq(Section), NEW sec \in Section
  PROVE  /\ Append(secs, sec) \in Seq(Section)
         /\ Append(secs, sec) # <<>>
         /\ Covered(Append(secs, sec)) = Covered(secs) \cup ToSet(sec.content)
         /\ (/\ InOrder(secs) /\ Increasing(sec.content)
             /\ \A x \in Covered(secs), y \in ToSet(sec.content) : Before(x, y))
               => InOrder(Append(secs, sec))
<1> DEFINE t == Append(secs, sec)  n == Len(secs)
<1>1. /\ t \in Seq(Section) /\ n \in Nat
      /\ DOMAIN secs = 1..n /\ DOMAIN t = 1..(n + 1)
      /\ \A i \in 1..n : t[i] = secs[i]
      /\ t[n + 1] = sec
  OBVIOUS
<1> HIDE DEF t, n
<1>2. Covered(t) = Covered(secs) \cup ToSet(sec.content)
  BY <1>1 DEF Covered
<1>3. ASSUME InOrder(secs), Increasing(sec.content),
             \A x \in Covered(secs), y \in ToSet(sec.content) : Before(x, y)
      PROVE  InOrder(t)
  <2>1. SUFFICES ASSUME NEW i \in DOMAIN t, NEW j \in DOMAIN t,
                        NEW a \in DOMAIN t[i].content, NEW b \in DOMAIN t[j].content,
                        i < j \/ (i = j /\ a < b)
                 PROVE  Before(t[i].content[a], t[j].content[b])
    BY DEF InOrder
  <2>2. CASE j # n + 1
    BY <1>1, <1>3, <2>1, <2>2 DEF InOrder
  <2>3. CASE j = n + 1 /\ i = n + 1
    BY <1>1, <1>3, <2>1, <2>3 DEF Increasing
  <2>4. CASE j = n + 1 /\ i # n + 1
    <3>1. i \in DOMAIN secs /\ t[i] = secs[i] /\ t[j] = sec
      BY <1>1, <2>1, <2>4
    <3>2. t[i].content[a] \in Covered(secs)
      BY <2>1, <3>1 DEF Covered, ToSet
    <3>3. t[j].content[b] \in ToSet(sec.content)
      BY <2>1, <3>1 DEF ToSet
    <3> QED  BY <1>3, <3>2, <3>3
  <2> QED  BY <2>2, <2>3, <2>4
<1>4. t # <<>>
  BY <1>1
<1> QED
  BY <1>1, <1>2, <1>3, <1>4 DEF t

-----------------------------------------------------------------------------
(* The steps of the reader.                                                *)

\* A line is added to a text if it is no page number.
LEMMA CleanAdds ==
  ASSUME NEW pages, NEW s \in Seq(Places), NEW x \in Places,
         Increasing(s), \A y \in ToSet(s) : Before(y, x)
  PROVE  /\ Clean(pages, s, x) \in Seq(Places)
         /\ Increasing(Clean(pages, s, x))
         /\ ToSet(Clean(pages, s, x))
              = ToSet(s) \cup (IF Lone(pages, x) THEN {} ELSE {x})
BY AppendPlace DEF Clean, Lone

\* The sections at the end of one, on page p: they hold what has been seen.
LEMMA FlushCovers ==
  ASSUME NEW pages \in Seq(Seq(Lines)), NEW r, ReadInv(pages, r), NEW p \in Nat,
         \A x \in Seen(pages, r.page, r.line) : x[1] <= p,
         \A h \in Headings(pages) \ Seen(pages, r.page, r.line) : p <= h[1]
  PROVE  /\ Flush(r, p) \in Seq(Section) /\ InOrder(Flush(r, p))
         /\ Covered(Flush(r, p)) = BodyOf(pages, Seen(pages, r.page, r.line))
         /\ Flush(r, p) = <<>> <=> Seen(pages, r.page, r.line) \subseteq Headings(pages)
         /\ \A i \in DOMAIN Flush(r, p) : /\ Flush(r, p)[i].title # Whole
                                          /\ Placed(pages, Flush(r, p)[i])
<1> DEFINE seen == Seen(pages, r.page, r.line)
           sec == [title |-> r.title, content |-> r.text, from |-> r.start, to |-> p]
<1>0. /\ r.sections \in Seq(Section) /\ r.lines \in BOOLEAN /\ r.text \in Seq(Places)
      /\ InOrder(r.sections) /\ Increasing(r.text)
      /\ \A x \in Covered(r.sections), y \in ToSet(r.text) : Before(x, y)
      /\ Covered(r.sections) \cup ToSet(r.text) = BodyOf(pages, seen)
      /\ ~r.lines => r.text = <<>>
      /\ (r.sections # <<>> \/ r.lines) <=> ~(seen \subseteq Headings(pages))
      /\ \A i \in DOMAIN r.sections : /\ r.sections[i].title # Whole
                                      /\ Placed(pages, r.sections[i])
      /\ Titled(pages, r, seen)
      /\ r.page \in Nat /\ r.line \in Nat
  BY LineRead DEF ReadInv, Readers, Collected
<1>1. sec \in Section
  BY DEF ReadInv, Readers, Section
<1>2. CASE ~r.lines
  <2>1. Flush(r, p) = r.sections
    BY <1>2 DEF Flush
  <2>2. ToSet(r.text) = {}
    BY <1>0, <1>2 DEF ToSet
  <2> QED  BY <1>0, <1>2, <2>1, <2>2
<1>3. CASE r.lines
  <2>1. Flush(r, p) = Append(r.sections, sec)
    BY <1>3 DEF Flush
  <2>2. /\ Append(r.sections, sec) \in Seq(Section)
        /\ Covered(Append(r.sections, sec)) = Covered(r.sections) \cup ToSet(r.text)
        /\ InOrder(Append(r.sections, sec))
    BY <1>0, <1>1, AppendSection
  <2>3. Append(r.sections, sec) # <<>>
    BY <1>0, <1>1, AppendSection
  <2>4. sec.title # Whole /\ Placed(pages, sec)
    <3>1. sec.title # Whole
      BY <1>0 DEF Titled
    <3>2. ASSUME NEW x \in ToSet(r.text)
          PROVE  /\ x \in Places /\ x \in seen /\ x[1] >= 1
                 /\ \A h \in Headings(pages) : Before(h, x) => h \in seen
      <4>1. x \in seen /\ x \in LinesRead(pages)
        BY <1>0 DEF BodyOf, Seen
      <4>2. x \in Places /\ x[1] >= 1
        BY <4>1, LineRead DEF Places
      <4>3. ASSUME NEW h \in Headings(pages), Before(h, x)
            PROVE  h \in seen
        <5>1. h \in LinesRead(pages) /\ h \in Places /\ <<r.page, r.line>> \in Places
          BY <1>0, LineRead DEF Headings, Places
        <5>2. Before(h, <<r.page, r.line>>)
          BY <4>1, <4>2, <4>3, <5>1, BeforeOrder DEF Seen
        <5> QED  BY <5>1, <5>2 DEF Seen
      <4> QED  BY <4>1, <4>2, <4>3
    <3>3. ASSUME NEW x \in ToSet(r.text), r.title = Introduction
          PROVE  /\ r.start = 1
                 /\ \A h \in Headings(pages) : ~Before(h, x) /\ h \notin seen
      BY <1>0, <3>2, <3>3 DEF Titled
    <3>4. ASSUME NEW x \in ToSet(r.text), r.title # Introduction
          PROVE  /\ r.title \in Headings(pages) /\ Before(r.title, x)
                 /\ r.start = r.title[1] /\ r.start <= x[1]
                 /\ \A h \in Headings(pages) : Before(h, x) => ~Before(r.title, h)
                 /\ \A h \in Headings(pages) : Before(x, h) => h \notin seen
      <4>1. /\ r.title \in Headings(pages) /\ Before(r.title, x)
            /\ r.start = r.title[1]
            /\ \A h \in Headings(pages) : h \in seen => ~Before(r.title, h)
        BY <1>0, <3>4 DEF Titled
      <4>2. Headings(pages) \subseteq Places
        BY LineRead DEF Headings
      <4>3. r.start <= x[1]
        BY <3>2, <4>1, <4>2 DEF Before, Places
      <4>4. \A h \in Headings(pages) : Before(x, h) => Before(r.title, h)
        BY <3>2, <4>1, <4>2, BeforeOrder
      <4> QED  BY <3>2, <4>1, <4>3, <4>4
    <3>5. ASSUME NEW x \in ToSet(sec.content)
          PROVE  LET above == {h \in Headings(pages) : Before(h, x)}
                     below == {h \in Headings(pages) : Before(x, h)}
                 IN  /\ sec.from <= x[1] /\ x[1] <= sec.to
                     /\ IF sec.title = Introduction THEN above = {} /\ sec.from = 1
                        ELSE /\ sec.title \in above /\ sec.from = sec.title[1]
                             /\ \A h \in above : ~Before(sec.title, h)
                     /\ \A h \in below : sec.to <= h[1]
      <4>1. x \in ToSet(r.text) /\ x[1] <= p /\ x[1] >= 1
        BY <3>2
      <4>2. \A h \in Headings(pages) : Before(x, h) => p <= h[1]
        BY <3>3, <3>4, <4>1
      <4>3. CASE r.title = Introduction
        BY <3>3, <4>1, <4>2, <4>3
      <4>4. CASE r.title # Introduction
        BY <3>4, <4>1, <4>2, <4>4
      <4> QED  BY <4>3, <4>4
    <3> QED  BY <3>1, <3>5 DEF Placed
  <2>5. \A i \in DOMAIN Append(r.sections, sec) :
          /\ Append(r.sections, sec)[i].title # Whole
          /\ Placed(pages, Append(r.sections, sec)[i])
    <3>1. \A i \in DOMAIN Append(r.sections, sec) :
            \/ i \in DOMAIN r.sections /\ Append(r.sections, sec)[i] = r.sections[i]
            \/ Append(r.sections, sec)[i] = sec
      BY <1>0, <1>1
    <3> QED  BY <1>0, <2>4, <3>1
  <2> QED  BY <1>0, <1>3, <2>1, <2>2, <2>3, <2>5
<1> QED
  BY <1>0, <1>2, <1>3

\* What has been seen is before the reader, what has not is not.
LEMMA SeenBounds ==
  ASSUME NEW pages \in Seq(Seq(Lines)), NEW p \in Nat, NEW i \in Nat
  PROVE  /\ \A y \in Seen(pages, p, i) : y \in Places /\ y[1] <= p /\ Before(y, <<p, i>>)
         /\ \A y \in LinesRead(pages) \ Seen(pages, p, i) : p <= y[1]
<1>1. LinesRead(pages) \subseteq Places
  BY LineRead
<1> QED
  BY <1>1 DEF Seen, Before, Places

\* The reader at a line.
LEMMA ReaderAt ==
  ASSUME NEW pages \in Seq(Seq(Lines)), NEW r \in Readers(pages), AtLine(pages, r),
         r.page <= Used(pages)
  PROVE  /\ r.page \in 1..Used(pages) /\ r.page \in Nat /\ r.line \in Nat
         /\ Len(pages[r.page]) \in Nat /\ r.line <= Len(pages[r.page]) + 1
         /\ r.line <= Len(pages[r.page]) => r.line \in 1..Len(pages[r.page])
<1>1. Used(pages) \in Nat /\ \A p \in 1..Used(pages) : Len(pages[p]) \in Nat
  BY LineRead
<1>2. r.page \in 1..Used(pages) /\ r.line \in Nat \ {0}
  BY <1>1 DEF Readers
<1> QED
  BY <1>1, <1>2 DEF AtLine

\* A heading is read: it ends a section.
LEMMA HeadingKeeps ==
  ASSUME NEW pages \in Seq(Seq(Lines)), NEW r, ReadInv(pages, r),
         r.page <= Used(pages), r.line <= Len(pages[r.page]),
         <<r.page, r.line>> \in Headings(pages)
  PROVE  ReadInv(pages, ReadLine(pages, r))
<1>1. PICK x, seen, seen2, p, i, full, q :
        /\ p = r.page /\ i = r.line /\ x = <<p, i>>
        /\ seen = Seen(pages, p, i) /\ seen2 = Seen(pages, p, i + 1)
        /\ full = Clean(pages, r.full, x) /\ q = ReadLine(pages, r)
  OBVIOUS
<1>2. /\ r \in Readers(pages) /\ AtLine(pages, r)
      /\ Collected(pages, r, seen) /\ Titled(pages, r, seen) /\ Copied(pages, r, seen)
  BY <1>1 DEF ReadInv
<1>3. /\ p \in 1..Used(pages) /\ i \in 1..Len(pages[p]) /\ p \in Nat /\ i \in Nat
      /\ Len(pages[p]) \in Nat
  BY <1>1, <1>2, ReaderAt
<1>4. /\ x \in Places /\ x[1] = p /\ x \in LinesRead(pages) /\ x \in Headings(pages)
      /\ x \notin seen /\ seen2 = seen \cup {x}
      /\ \A y \in seen : y \in Places /\ y[1] <= p /\ Before(y, x)
      /\ \A y \in Headings(pages) \ seen : p <= y[1]
  BY <1>1, <1>3, SeenLine, SeenBounds DEF Places, Headings
<1>5. /\ q = [r EXCEPT !.line = i + 1, !.full = full, !.sections = Flush(r, p),
                       !.title = x, !.lines = FALSE, !.text = <<>>, !.start = p]
  BY <1>1, <1>4 DEF ReadLine, Headings
<1>6. /\ full \in Seq(Places) /\ Increasing(full)
      /\ ToSet(full) = {y \in seen2 : ~Lone(pages, y)}
  <2>1. /\ r.full \in Seq(Places) /\ Increasing(r.full)
        /\ ToSet(r.full) = {y \in seen : ~Lone(pages, y)}
    BY <1>2 DEF Readers, Copied
  <2>2. \A y \in ToSet(r.full) : Before(y, x)
    BY <1>4, <2>1
  <2>3. /\ Clean(pages, r.full, x) \in Seq(Places) /\ Increasing(Clean(pages, r.full, x))
        /\ ToSet(Clean(pages, r.full, x))
             = ToSet(r.full) \cup (IF Lone(pages, x) THEN {} ELSE {x})
    BY <1>4, <2>1, <2>2, CleanAdds
  <2>4. /\ full \in Seq(Places) /\ Increasing(full)
        /\ ToSet(full) = ToSet(r.full) \cup (IF Lone(pages, x) THEN {} ELSE {x})
    BY <1>1, <2>3
  <2> QED  BY <1>4, <2>1, <2>4
<1>7. /\ Flush(r, p) \in Seq(Section) /\ InOrder(Flush(r, p))
      /\ Covered(Flush(r, p)) = BodyOf(pages, seen)
      /\ Flush(r, p) = <<>> <=> seen \subseteq Headings(pages)
      /\ \A j \in DOMAIN Flush(r, p) : /\ Flush(r, p)[j].title # Whole
                                       /\ Placed(pages, Flush(r, p)[j])
  BY <1>1, <1>3, <1>4, FlushCovers
<1>8. /\ <<>> \in Seq(Places) /\ Increasing(<<>>) /\ ToSet(<<>>) = {}
  BY DEF ToSet, Increasing
<1>9. /\ q \in Readers(pages) /\ q.page = p /\ q.line = i + 1
      /\ q.sections = Flush(r, p) /\ q.title = x /\ q.lines = FALSE
      /\ q.text = <<>> /\ q.start = p /\ q.full = full
  <2>1. i + 1 \in Nat \ {0} /\ p \in Nat /\ r.page = p
    BY <1>1, <1>3
  <2>2. x \in Places /\ full \in Seq(Places) /\ Flush(r, p) \in Seq(Section)
        /\ <<>> \in Seq(Places)
    BY <1>4, <1>6, <1>7
  <2> QED  BY <1>2, <1>5, <2>1, <2>2 DEF Readers
<1>10. AtLine(pages, q)
  BY <1>3, <1>9 DEF AtLine
<1>11. Collected(pages, q, seen2)
  <2>1. BodyOf(pages, seen2) = BodyOf(pages, seen)
    BY <1>4 DEF BodyOf
  <2> QED  BY <1>4, <1>7, <1>8, <1>9, <2>1 DEF Collected
<1>12. Titled(pages, q, seen2)
  <2>1. x # Introduction /\ x # Whole
    BY <1>4, PdfAssumption DEF Places
  <2>2. \A h \in seen2 : ~Before(x, h)
    BY <1>4, BeforeOrder
  <2>3. \A y \in ToSet(q.text) : Before(q.title, y)
    BY <1>8, <1>9
  <2> QED  BY <1>3, <1>4, <1>9, <2>1, <2>2, <2>3 DEF Titled
<1>13. Copied(pages, q, seen2)
  BY <1>6, <1>9 DEF Copied
<1> QED
  BY <1>1, <1>9, <1>10, <1>11, <1>12, <1>13 DEF ReadInv

\* Any other line is read: it is collected.
LEMMA BodyLineKeeps ==
  ASSUME NEW pages \in Seq(Seq(Lines)), NEW r, ReadInv(pages, r),
         r.page <= Used(pages), r.line <= Len(pages[r.page]),
         <<r.page, r.line>> \notin Headings(pages)
  PROVE  ReadInv(pages, ReadLine(pages, r))
<1>1. PICK x, seen, seen2, p, i, full, text, q :
        /\ p = r.page /\ i = r.line /\ x = <<p, i>>
        /\ seen = Seen(pages, p, i) /\ seen2 = Seen(pages, p, i + 1)
        /\ full = Clean(pages, r.full, x) /\ text = Clean(pages, r.text, x)
        /\ q = ReadLine(pages, r)
  OBVIOUS
<1>2. /\ r \in Readers(pages) /\ AtLine(pages, r)
      /\ Collected(pages, r, seen) /\ Titled(pages, r, seen) /\ Copied(pages, r, seen)
  BY <1>1 DEF ReadInv
<1>3. /\ p \in 1..Used(pages) /\ i \in 1..Len(pages[p]) /\ p \in Nat /\ i \in Nat
      /\ Len(pages[p]) \in Nat
  BY <1>1, <1>2, ReaderAt
<1>4. /\ x \in Places /\ x \in LinesRead(pages) /\ x \notin Headings(pages)
      /\ x \notin seen /\ seen2 = seen \cup {x}
      /\ \A y \in seen : Before(y, x)
  BY <1>1, <1>3, SeenLine, SeenBounds DEF Places
<1>5. q = [r EXCEPT !.line = i + 1, !.full = full, !.lines = TRUE, !.text = text]
  BY <1>1, <1>4 DEF ReadLine, Headings
<1>6. /\ full \in Seq(Places) /\ Increasing(full)
      /\ ToSet(full) = {y \in seen2 : ~Lone(pages, y)}
  <2>1. /\ r.full \in Seq(Places) /\ Increasing(r.full)
        /\ ToSet(r.full) = {y \in seen : ~Lone(pages, y)}
    BY <1>2 DEF Readers, Copied
  <2>2. \A y \in ToSet(r.full) : Before(y, x)
    BY <1>4, <2>1
  <2>3. /\ Clean(pages, r.full, x) \in Seq(Places) /\ Increasing(Clean(pages, r.full, x))
        /\ ToSet(Clean(pages, r.full, x))
             = ToSet(r.full) \cup (IF Lone(pages, x) THEN {} ELSE {x})
    BY <1>4, <2>1, <2>2, CleanAdds
  <2>4. /\ full \in Seq(Places) /\ Increasing(full)
        /\ ToSet(full) = ToSet(r.full) \cup (IF Lone(pages, x) THEN {} ELSE {x})
    BY <1>1, <2>3
  <2> QED  BY <1>4, <2>1, <2>4
<1>7. /\ text \in Seq(Places) /\ Increasing(text)
      /\ ToSet(text) = ToSet(r.text) \cup (IF Lone(pages, x) THEN {} ELSE {x})
      /\ \A y \in Covered(r.sections) \cup ToSet(r.text) : Before(y, x)
  <2>1. \A y \in Covered(r.sections) \cup ToSet(r.text) : Before(y, x)
    BY <1>2, <1>4 DEF Collected, BodyOf
  <2>2. r.text \in Seq(Places) /\ Increasing(r.text)
    BY <1>2 DEF Readers, Collected
  <2>3. x \in Places /\ \A y \in ToSet(r.text) : Before(y, x)
    BY <1>4, <2>1
  <2>4. /\ Clean(pages, r.text, x) \in Seq(Places) /\ Increasing(Clean(pages, r.text, x))
        /\ ToSet(Clean(pages, r.text, x))
             = ToSet(r.text) \cup (IF Lone(pages, x) THEN {} ELSE {x})
    BY <2>2, <2>3, CleanAdds
  <2> QED  BY <1>1, <2>1, <2>4
<1>8. /\ q \in Readers(pages) /\ q.page = p /\ q.line = i + 1
      /\ q.sections = r.sections /\ q.title = r.title /\ q.lines = TRUE
      /\ q.text = text /\ q.start = r.start /\ q.full = full
  <2>1. i + 1 \in Nat \ {0} /\ r.page = p
    BY <1>1, <1>3
  <2>2. full \in Seq(Places) /\ text \in Seq(Places)
    BY <1>6, <1>7
  <2> QED  BY <1>2, <1>5, <2>1, <2>2 DEF Readers
<1>9. AtLine(pages, q)
  BY <1>3, <1>8 DEF AtLine
<1>10. Collected(pages, q, seen2)
  <2>1. BodyOf(pages, seen2)
          = BodyOf(pages, seen) \cup (IF Lone(pages, x) THEN {} ELSE {x})
    BY <1>4 DEF BodyOf
  <2>2. /\ \A y \in Covered(r.sections), z \in ToSet(text) : Before(y, z)
        /\ Covered(r.sections) \cup ToSet(text) = BodyOf(pages, seen2)
    BY <1>2, <1>7, <2>1 DEF Collected
  <2> QED  BY <1>2, <1>4, <1>7, <1>8, <2>2 DEF Collected
<1>11. Titled(pages, q, seen2)
  <2>1. seen2 \cap Headings(pages) = seen \cap Headings(pages)
    BY <1>4
  <2>2. r.title # Introduction => r.title \in seen
    BY <1>2 DEF Titled
  <2>3. r.title # Introduction => \A y \in ToSet(text) : Before(r.title, y)
    BY <1>2, <1>4, <1>7, <2>2 DEF Titled
  <2> QED  BY <1>1, <1>2, <1>8, <2>1, <2>3 DEF Titled
<1>12. Copied(pages, q, seen2)
  BY <1>6, <1>8 DEF Copied
<1> QED
  BY <1>1, <1>8, <1>9, <1>10, <1>11, <1>12 DEF ReadInv


\* A line is read, whichever it is.
LEMMA ReadLineKeeps ==
  ASSUME NEW pages \in Seq(Seq(Lines)), NEW r, ReadInv(pages, r),
         r.page <= Used(pages), r.line <= Len(pages[r.page])
  PROVE  ReadInv(pages, ReadLine(pages, r))
BY HeadingKeeps, BodyLineKeeps

\* A page is turned: nothing more has been seen.
LEMMA TurnPageKeeps ==
  ASSUME NEW pages \in Seq(Seq(Lines)), NEW r, ReadInv(pages, r),
         r.page <= Used(pages), ~(r.line <= Len(pages[r.page]))
  PROVE  ReadInv(pages, TurnPage(r))
<1>1. PICK seen, p, q : /\ p = r.page /\ q = TurnPage(r)
                        /\ seen = Seen(pages, p, r.line)
  OBVIOUS
<1>2. /\ r \in Readers(pages) /\ AtLine(pages, r)
      /\ Collected(pages, r, seen) /\ Titled(pages, r, seen) /\ Copied(pages, r, seen)
  BY <1>1 DEF ReadInv
<1>3. /\ p \in 1..Used(pages) /\ p \in Nat /\ r.line = Len(pages[p]) + 1
      /\ p + 1 \in 1..(Used(pages) + 1)
  <2>1. Used(pages) \in Nat
    BY LineRead
  <2> QED  BY <1>1, <1>2, <2>1, ReaderAt
<1>4. seen = Seen(pages, p + 1, 1)
  BY <1>1, <1>3, SeenPage
<1>5. q = [r EXCEPT !.page = p + 1, !.line = 1]
  BY <1>1 DEF TurnPage
<1>6. /\ q \in Readers(pages) /\ q.page = p + 1 /\ q.line = 1
      /\ q.sections = r.sections /\ q.title = r.title /\ q.lines = r.lines
      /\ q.text = r.text /\ q.start = r.start /\ q.full = r.full
  <2>1. 1 \in Nat \ {0}
    OBVIOUS
  <2> QED  BY <1>2, <1>3, <1>5, <2>1 DEF Readers
<1>7. AtLine(pages, q)
  <2>1. p + 1 <= Used(pages) => Len(pages[p + 1]) \in Nat
    BY <1>3, LineRead
  <2> QED  BY <1>6, <2>1 DEF AtLine
<1>8. Collected(pages, q, seen)
  BY <1>2, <1>6 DEF Collected
<1>9. Titled(pages, q, seen)
  <2>1. r.start <= p + 1
    BY <1>1, <1>2, <1>3 DEF Titled, Readers
  <2> QED  BY <1>2, <1>6, <2>1 DEF Titled
<1>10. Copied(pages, q, seen)
  BY <1>2, <1>6 DEF Copied
<1> QED
  BY <1>1, <1>4, <1>6, <1>7, <1>8, <1>9, <1>10 DEF ReadInv

\* A list without a section.
LEMMA NoSection ==
  /\ <<>> \in Seq(Section) /\ InOrder(<<>>) /\ Covered(<<>>) = {}
  /\ <<>> \in Seq(Places) /\ Increasing(<<>>) /\ ToSet(<<>>) = {}
BY DEF InOrder, Covered, Increasing, ToSet

\* A document is opened, or refused.
LEMMA OpenReads ==
  ASSUME NEW pages \in Seq(Seq(Lines))
  PROVE  Open(pages).step = "refused" \/ (Open(pages).step = "read" /\ ReadInv(pages, Open(pages)))
<1> DEFINE r == [step |-> "read", page |-> 1, line |-> 1, sections |-> <<>>,
                 title |-> Introduction, start |-> 1, lines |-> FALSE,
                 text |-> <<>>, full |-> <<>>]
<1>1. Open(pages) = r \/ Open(pages) = [step |-> "refused"]
  BY DEF Open
<1>2. ReadInv(pages, r)
  <2>1. Used(pages) \in Nat /\ \A p \in 1..Used(pages) : Len(pages[p]) \in Nat
    BY LineRead
  <2>2. r \in Readers(pages)
    <3>1. 1 \in 1..(Used(pages) + 1) /\ 1 \in Nat \ {0} /\ 1 \in Nat
      BY <2>1
    <3> QED  BY <3>1, NoSection DEF Readers
  <2>3. AtLine(pages, r)
    BY <2>1 DEF AtLine
  <2>4. Collected(pages, r, {})
    BY NoSection DEF Collected, BodyOf
  <2>5. Titled(pages, r, {})
    BY PdfAssumption DEF Titled
  <2>6. Copied(pages, r, {})
    BY NoSection DEF Copied
  <2>7. Seen(pages, r.page, r.line) = {}
    BY SeenEnds
  <2> QED  BY <2>2, <2>3, <2>4, <2>5, <2>6, <2>7 DEF ReadInv
<1>3. r.step = "read" /\ [step |-> "refused"].step = "refused"
  OBVIOUS
<1> HIDE DEF r
<1> QED
  BY <1>1, <1>2, <1>3

\* Everything has been read: there is something to cut.
LEMMA ExtractCuttable ==
  ASSUME NEW pages \in Seq(Seq(Lines)), NEW r, ReadInv(pages, r),
         ~(r.page <= Used(pages))
  PROVE  Cuttable(pages, ExtractSections(pages, r))
<1> DEFINE read == LinesRead(pages)
           found == Flush(r, Used(pages))
           sec == [title |-> Whole, content |-> r.full, from |-> 1, to |-> Used(pages)]
<1>1. Used(pages) \in Nat
  BY LineRead
<1>2. r.page = Used(pages) + 1 /\ r.line = 1
  BY <1>1 DEF ReadInv, Readers, AtLine
<1>3. Seen(pages, r.page, r.line) = read
  BY <1>2, SeenEnds
<1>4. \A x \in read : x[1] \in 1..Used(pages) /\ x \in Places
  BY LineRead DEF LinesRead
<1>5. Headings(pages) \subseteq read
  BY DEF Headings
<1>6. /\ found \in Seq(Section) /\ InOrder(found)
      /\ Covered(found) = BodyOf(pages, read)
      /\ found = <<>> <=> read \subseteq Headings(pages)
      /\ \A i \in DOMAIN found : Placed(pages, found[i])
  <2>1. /\ \A x \in Seen(pages, r.page, r.line) : x[1] <= Used(pages)
        /\ \A h \in Headings(pages) \ Seen(pages, r.page, r.line) : Used(pages) <= h[1]
    BY <1>1, <1>3, <1>4, <1>5
  <2> QED  BY <1>1, <1>3, <2>1, FlushCovers
<1>7. CASE found # <<>>
  <2>1. ExtractSections(pages, r) = found
    BY <1>7 DEF ExtractSections
  <2>2. read # Headings(pages)
    BY <1>6, <1>7
  <2> QED  BY <1>6, <1>7, <2>1, <2>2 DEF Cuttable, BodyOf
<1>8. CASE found = <<>>
  <2>1. ExtractSections(pages, r) = <<sec>> /\ <<sec>> = Append(<<>>, sec)
    BY <1>8 DEF ExtractSections
  <2>2. /\ r.full \in Seq(Places) /\ Increasing(r.full)
        /\ ToSet(r.full) = {x \in read : ~Lone(pages, x)}
    BY <1>3 DEF ReadInv, Readers, Copied
  <2>3. read = Headings(pages)
    BY <1>5, <1>6, <1>8
  <2>4. sec \in Section
    BY <1>1, <2>2 DEF Section
  <2>5. sec.content = r.full /\ sec.title = Whole /\ sec.from = 1 /\ sec.to = Used(pages)
    OBVIOUS
  <2> HIDE DEF sec
  <2>6. Placed(pages, sec)
    <3>1. ASSUME NEW x \in ToSet(sec.content)
          PROVE  x \in Headings(pages) /\ 1 <= x[1] /\ x[1] <= Used(pages)
      BY <1>1, <1>4, <2>2, <2>3, <2>5
    <3> QED  BY <2>5, <3>1 DEF Placed
  <2>7. /\ <<sec>> \in Seq(Section) /\ <<sec>> # <<>> /\ InOrder(<<sec>>)
        /\ Covered(<<sec>>) = ToSet(r.full)
    BY <2>1, <2>2, <2>4, <2>5, NoSection, AppendSection
  <2>8. \A i \in DOMAIN <<sec>> : Placed(pages, <<sec>>[i])
    BY <2>6
  <2> QED  BY <2>1, <2>2, <2>3, <2>7, <2>8 DEF Cuttable
<1> QED
  BY <1>7, <1>8


-----------------------------------------------------------------------------
(* The steps of the cutter.                                                *)

\* Part of a text.
LEMMA PieceOf ==
  ASSUME NEW s \in Seq(Places), NEW k \in Nat, NEW m \in Nat, k <= m, m <= Len(s),
         Increasing(s)
  PROVE  /\ SubSeq(s, k + 1, m) \in Seq(Places) /\ Len(SubSeq(s, k + 1, m)) = m - k
         /\ ToSet(SubSeq(s, k + 1, m)) = {s[a] : a \in (k + 1)..m}
         /\ Increasing(SubSeq(s, k + 1, m))
<1> DEFINE t == SubSeq(s, k + 1, m)
<1>1. /\ t \in Seq(Places) /\ Len(t) = m - k /\ m - k \in Nat
      /\ DOMAIN t = 1..(m - k) /\ DOMAIN s = 1..Len(s) /\ Len(s) \in Nat
      /\ \A a \in 1..(m - k) : t[a] = s[k + a]
  <2>1. m - k \in Nat /\ Len(s) \in Nat /\ k + 1 \in Nat /\ k + 1 \in 1..(Len(s) + 1)
    OBVIOUS
  <2>2. t \in Seq(Places) /\ Len(t) = m - k
    BY <2>1
  <2>3. \A a \in 1..(m - k) : t[a] = s[k + a]
    BY <2>1
  <2> HIDE DEF t
  <2> QED  BY <2>1, <2>2, <2>3
<1> HIDE DEF t
<1>2. ToSet(t) = {s[a] : a \in (k + 1)..m}
  <2>1. \A a \in (k + 1)..m : a - k \in DOMAIN t /\ t[a - k] = s[a]
    BY <1>1
  <2>2. \A a \in DOMAIN t : k + a \in (k + 1)..m /\ t[a] = s[k + a]
    BY <1>1
  <2> QED  BY <2>1, <2>2 DEF ToSet
<1>3. Increasing(t)
  <2>1. SUFFICES ASSUME NEW a \in DOMAIN t, NEW b \in DOMAIN t, a < b
                 PROVE  Before(t[a], t[b])
    BY DEF Increasing
  <2>2. k + a \in DOMAIN s /\ k + b \in DOMAIN s /\ k + a < k + b
    BY <1>1, <2>1
  <2> QED  BY <1>1, <2>1, <2>2 DEF Increasing
<1> QED
  BY <1>1, <1>2, <1>3 DEF t

\* What is cut off when the cutter goes from q to r.
LEMMA CutGrows ==
  ASSUME NEW q \in Cutters, NEW r \in Cutters, r.sections = q.sections,
         NEW n \in DOMAIN q.sections, n = q.next, NEW cut \in Nat,
         q.offset <= cut, cut <= Len(q.sections[n].content),
         \/ r.next = n /\ r.offset = cut
         \/ r.next = n + 1 /\ r.offset = 0 /\ cut = Len(q.sections[n].content)
  PROVE  CutOff(r) = CutOff(q) \cup {q.sections[n].content[a] : a \in (q.offset + 1)..cut}
<1> DEFINE secs == q.sections  text(j) == secs[j].content
<1>1. /\ \A j \in DOMAIN secs : text(j) \in Seq(Places)
      /\ n \in Nat /\ q.offset \in Nat /\ DOMAIN secs \subseteq Nat
  <2>1. q.sections \in Seq(Section) /\ q.offset \in Nat
    BY DEF Cutters
  <2>2. DOMAIN secs \subseteq Nat /\ \A j \in DOMAIN secs : secs[j] \in Section
    BY <2>1
  <2> QED  BY <2>1, <2>2 DEF Section
<1>2. \A j \in DOMAIN secs : DOMAIN text(j) = 1..Len(text(j)) /\ Len(text(j)) \in Nat
  BY <1>1
<1>3. ASSUME NEW j \in DOMAIN secs, NEW b \in DOMAIN text(j)
      PROVE  Cut(r, j, b) <=> Cut(q, j, b) \/ (j = n /\ b \in (q.offset + 1)..cut)
  <2>1. b \in Nat \ {0} /\ j \in Nat /\ (j = n => b <= Len(text(n)))
    BY <1>1, <1>2
  <2>2. CASE r.next = n /\ r.offset = cut
    BY <1>1, <2>1, <2>2 DEF Cut
  <2>3. CASE r.next = n + 1 /\ r.offset = 0 /\ cut = Len(q.sections[n].content)
    BY <1>1, <2>1, <2>3 DEF Cut
  <2> QED  BY <2>2, <2>3
<1>4. \A a \in (q.offset + 1)..cut : a \in DOMAIN text(n)
  BY <1>1, <1>2
<1>5. CutOff(r) = UNION {{text(j)[a] : a \in {b \in DOMAIN text(j) : Cut(r, j, b)}} :
                           j \in DOMAIN secs}
      /\ CutOff(q) = UNION {{text(j)[a] : a \in {b \in DOMAIN text(j) : Cut(q, j, b)}} :
                           j \in DOMAIN secs}
  BY DEF CutOff
<1>6. \A y : y \in CutOff(r) <=> \E j \in DOMAIN secs : \E b \in DOMAIN text(j) :
                                    Cut(r, j, b) /\ y = text(j)[b]
  BY <1>5
<1>7. \A y : y \in CutOff(q) <=> \E j \in DOMAIN secs : \E b \in DOMAIN text(j) :
                                    Cut(q, j, b) /\ y = text(j)[b]
  BY <1>5
<1> HIDE DEF secs, text
<1>8. n \in DOMAIN secs /\ {q.sections[n].content[a] : a \in (q.offset + 1)..cut}
                             = {text(n)[a] : a \in (q.offset + 1)..cut}
  BY DEF secs, text
<1>9. \A y : y \in CutOff(r) <=>
        y \in CutOff(q) \/ \E a \in (q.offset + 1)..cut : y = text(n)[a]
  BY <1>3, <1>4, <1>6, <1>7, <1>8
<1> QED
  BY <1>8, <1>9

\* The next piece is cut off.
LEMMA CutChunkKeeps ==
  ASSUME NEW pages, NEW r, CutInv(pages, r), r.next <= Len(r.sections)
  PROVE  CutInv(pages, CutChunk(r)) /\ CutChunk(r).step = "chunk"
<1>1. PICK n, sec, cut, text, piece, chunk, q :
        /\ n = r.next /\ sec = r.sections[n] /\ text = sec.content
        /\ cut = Smaller(r.offset + ChunkSize, Len(text))
        /\ piece = SubSeq(text, r.offset + 1, cut)
        /\ chunk = [sec EXCEPT !.content = piece]
        /\ q = CutChunk(r)
  OBVIOUS
<1>2. r \in Cutters /\ Cuttable(pages, r.sections) /\ AtCut(r) /\ Chunked(pages, r)
  BY DEF CutInv
<1>3. /\ r.sections \in Seq(Section) /\ r.offset \in Nat /\ r.chunks \in Seq(Section)
      /\ n \in DOMAIN r.sections /\ n \in Nat \ {0} /\ Len(r.sections) \in Nat
      /\ n <= Len(r.sections)
  BY <1>1, <1>2 DEF Cutters
<1>4. sec \in Section /\ text \in Seq(Places) /\ Len(text) \in Nat
  <2>1. sec \in Section
    BY <1>1, <1>3
  <2> QED  BY <1>1, <2>1 DEF Section
<1>5. /\ cut \in Nat /\ r.offset <= cut /\ cut <= Len(text)
      /\ cut - r.offset <= ChunkSize
  <2>1. r.offset = 0 \/ r.offset < Len(text)
    BY <1>1, <1>2, <1>3 DEF AtCut
  <2>2. ChunkSize \in Nat /\ r.offset \in Nat /\ Len(text) \in Nat
    BY <1>3, <1>4, PdfAssumption
  <2>3. cut = IF r.offset + ChunkSize < Len(text) THEN r.offset + ChunkSize ELSE Len(text)
    BY <1>1 DEF Smaller
  <2> QED  BY <2>1, <2>2, <2>3
<1>6. Increasing(text)
  BY <1>1, <1>2, <1>3 DEF Cuttable, InOrder, Increasing
<1>7. /\ piece \in Seq(Places) /\ Len(piece) = cut - r.offset /\ Increasing(piece)
      /\ ToSet(piece) = {text[a] : a \in (r.offset + 1)..cut}
  <2>1. r.offset \in Nat
    BY <1>3
  <2>2. text \in Seq(Places)
    BY <1>4
  <2> QED  BY <1>1, <1>5, <1>6, <2>1, <2>2, PieceOf
<1>8. /\ chunk \in Section /\ chunk.content = piece /\ chunk.title = sec.title
      /\ chunk.from = sec.from /\ chunk.to = sec.to
  BY <1>1, <1>4, <1>7 DEF Section
<1>9. Placed(pages, chunk) /\ Len(chunk.content) <= ChunkSize
  <2>1. ToSet(piece) \subseteq ToSet(sec.content)
    <3>1. \A a \in (r.offset + 1)..cut : a \in DOMAIN text
      BY <1>3, <1>4, <1>5
    <3> QED  BY <1>1, <1>7, <3>1 DEF ToSet
  <2>2. Placed(pages, sec)
    BY <1>1, <1>2, <1>3 DEF Cuttable
  <2>3. Len(chunk.content) <= ChunkSize
    BY <1>5, <1>7, <1>8
  <2> QED  BY <1>8, <2>1, <2>2, <2>3 DEF Placed
<1>10. \/ cut < Len(text) /\ q = [r EXCEPT !.offset = cut, !.chunks = Append(r.chunks, chunk)]
       \/ /\ cut = Len(text)
          /\ q = [r EXCEPT !.offset = 0, !.next = n + 1, !.chunks = Append(r.chunks, chunk)]
  <2>1. cut < Len(text) \/ cut = Len(text)
    BY <1>4, <1>5
  <2> QED  BY <1>1, <2>1 DEF CutChunk
<1>11. \A x \in Covered(r.chunks), y \in ToSet(piece) : Before(x, y)
  <2>1. SUFFICES ASSUME NEW x \in CutOff(r), NEW y \in ToSet(piece)  PROVE Before(x, y)
    BY <1>2 DEF Chunked
  <2>2. PICK j \in DOMAIN r.sections :
          \E b \in DOMAIN r.sections[j].content :
            Cut(r, j, b) /\ x = r.sections[j].content[b]
    BY DEF CutOff
  <2> PICK b \in DOMAIN r.sections[j].content :
             Cut(r, j, b) /\ x = r.sections[j].content[b]
    BY <2>2
  <2>3. PICK a \in (r.offset + 1)..cut : y = text[a]
    BY <1>7
  <2>4. a \in DOMAIN r.sections[n].content /\ y = r.sections[n].content[a] /\ a > r.offset
    BY <1>1, <1>3, <1>4, <1>5, <2>3
  <2>5. j < n \/ (j = n /\ b < a)
    <3>1. b \in Nat /\ j \in Nat
      <4>1. r.sections[j] \in Section
        BY <1>3
      <4>2. r.sections[j].content \in Seq(Places)
        BY <4>1 DEF Section
      <4> QED  BY <1>3, <4>2
    <3> QED  BY <1>1, <1>3, <2>2, <2>3, <2>4, <3>1 DEF Cut
  <2> QED  BY <1>2, <1>3, <2>2, <2>4, <2>5 DEF Cuttable, InOrder
<1>12. /\ Append(r.chunks, chunk) \in Seq(Section) /\ Append(r.chunks, chunk) # <<>>
       /\ Covered(Append(r.chunks, chunk)) = CutOff(r) \cup ToSet(piece)
       /\ InOrder(Append(r.chunks, chunk))
  <2>1. InOrder(r.chunks) /\ Covered(r.chunks) = CutOff(r)
    BY <1>2 DEF Chunked
  <2> QED  BY <1>3, <1>7, <1>8, <1>11, <2>1, AppendSection
<1>13. \A i \in DOMAIN Append(r.chunks, chunk) :
         /\ Len(Append(r.chunks, chunk)[i].content) <= ChunkSize
         /\ Placed(pages, Append(r.chunks, chunk)[i])
  <2>1. \A i \in DOMAIN Append(r.chunks, chunk) :
          \/ i \in DOMAIN r.chunks /\ Append(r.chunks, chunk)[i] = r.chunks[i]
          \/ Append(r.chunks, chunk)[i] = chunk
    BY <1>3, <1>8
  <2> QED  BY <1>2, <1>9, <2>1 DEF Chunked
<1>14. /\ q \in Cutters /\ q.step = "chunk" /\ q.sections = r.sections
       /\ q.chunks = Append(r.chunks, chunk)
       /\ \/ q.next = n /\ q.offset = cut /\ cut < Len(text)
          \/ q.next = n + 1 /\ q.offset = 0 /\ cut = Len(text)
  <2>1. n + 1 \in Nat \ {0} /\ 0 \in Nat
    BY <1>3
  <2> QED  BY <1>1, <1>2, <1>5, <1>10, <1>12, <2>1 DEF Cutters
<1>15. AtCut(q)
  BY <1>1, <1>3, <1>4, <1>5, <1>14 DEF AtCut
<1>16. CutOff(q) = CutOff(r) \cup ToSet(piece)
  <2>1. CutOff(q) = CutOff(r) \cup
          {r.sections[n].content[a] : a \in (r.offset + 1)..cut}
    <3>1. /\ r \in Cutters /\ q \in Cutters /\ q.sections = r.sections
          /\ n \in DOMAIN r.sections /\ n = r.next
          /\ cut \in Nat /\ r.offset <= cut /\ cut <= Len(r.sections[n].content)
      BY <1>1, <1>2, <1>3, <1>5, <1>14
    <3>2. \/ q.next = n /\ q.offset = cut
          \/ q.next = n + 1 /\ q.offset = 0 /\ cut = Len(r.sections[n].content)
      BY <1>1, <1>14
    <3> QED  BY <3>1, <3>2, CutGrows
  <2> QED  BY <1>1, <1>7, <2>1
<1>17. Chunked(pages, q)
  BY <1>12, <1>13, <1>14, <1>16 DEF Chunked
<1> QED
  BY <1>1, <1>2, <1>14, <1>15, <1>17 DEF CutInv

\* Nothing has been cut yet.
LEMMA StartCuts ==
  ASSUME NEW pages, NEW secs, Cuttable(pages, secs)
  PROVE  CutInv(pages, StartChunks(secs)) /\ StartChunks(secs).step = "chunk"
<1>1. PICK r : r = StartChunks(secs)
  OBVIOUS
<1>2. /\ r.step = "chunk" /\ r.sections = secs /\ r.next = 1 /\ r.offset = 0
      /\ r.chunks = <<>> /\ r \in Cutters
  <2>1. secs \in Seq(Section) /\ 1 \in Nat \ {0} /\ 0 \in Nat
    BY DEF Cuttable
  <2> QED  BY <1>1, <2>1, NoSection DEF StartChunks, Cutters
<1>3. AtCut(r)
  <2>1. Len(secs) \in Nat
    BY DEF Cuttable
  <2> QED  BY <1>2, <2>1 DEF AtCut
<1>4. CutOff(r) = {}
  <2>1. \A j \in DOMAIN secs : j \in Nat \ {0} /\ secs[j] \in Section
    BY DEF Cuttable
  <2>2. \A j \in DOMAIN secs : \A b \in DOMAIN secs[j].content : b \in Nat \ {0}
    <3>1. \A j \in DOMAIN secs : secs[j].content \in Seq(Places)
      BY <2>1 DEF Section
    <3> QED  BY <3>1
  <2>3. \A j \in DOMAIN secs : \A b \in DOMAIN secs[j].content : ~Cut(r, j, b)
    BY <1>2, <2>1, <2>2 DEF Cut
  <2> QED  BY <1>2, <2>3 DEF CutOff
<1>5. Chunked(pages, r)
  BY <1>2, <1>4, NoSection DEF Chunked
<1> QED
  BY <1>1, <1>2, <1>3, <1>5 DEF CutInv

-----------------------------------------------------------------------------
(* The document from the upload to its chunks.                             *)

\* A document that is read or cut stays as it was.
LEMMA NextPdf == InputInv /\ PdfInv /\ [Next]_vars => PdfInv'
<1> SUFFICES ASSUME InputInv, PdfInv, [Next]_vars, kind' = "pdf"  PROVE PdfInv'
  BY DEF PdfInv
<1>1. CASE UNCHANGED vars
  BY <1>1 DEF vars, PdfInv
<1>2. CASE kind = "pdf" /\ acc.step = "file" /\ UNCHANGED acc
  BY <1>2 DEF PdfInv
<1>3. CASE kind = "pdf" /\ UNCHANGED input /\ (OpenFile \/ ReadOn \/ EndReading \/ CutOn)
  <2>1. input \in Seq(Seq(Lines)) /\ input' = input
    BY <1>3 DEF InputInv
  <2>2. /\ acc.step = "read" => ReadInv(input, acc)
        /\ acc.step = "chunk" => CutInv(input, acc)
    BY <1>3 DEF PdfInv
  <2>3. CASE OpenFile
    <3>1. acc' = Open(input)
      BY <2>3 DEF OpenFile
    <3> QED  BY <2>1, <3>1, OpenReads DEF PdfInv
  <2>4. CASE ReadOn
    <3>1. /\ ReadInv(input, acc) /\ acc.page <= Used(input)
          /\ acc' = IF acc.line <= Len(input[acc.page]) THEN ReadLine(input, acc)
                    ELSE TurnPage(acc)
      BY <2>2, <2>4 DEF ReadOn
    <3>2. ReadInv(input, acc')
      BY <2>1, <3>1, ReadLineKeeps, TurnPageKeeps
    <3>3. acc'.step = "read"
      BY <3>2 DEF ReadInv, Readers
    <3> QED  BY <2>1, <3>2, <3>3 DEF PdfInv
  <2>5. CASE EndReading
    <3>1. /\ ReadInv(input, acc) /\ ~(acc.page <= Used(input))
          /\ acc' = StartChunks(ExtractSections(input, acc))
      <4>1. Used(input) \in Nat /\ ReadInv(input, acc) /\ acc.page > Used(input)
        BY <2>1, <2>2, <2>5, LineRead DEF EndReading
      <4>2. acc.page \in Int
        BY <4>1 DEF ReadInv, Readers
      <4> QED  BY <2>5, <4>1, <4>2 DEF EndReading
    <3>2. CutInv(input, acc') /\ acc'.step = "chunk"
      BY <2>1, <3>1, ExtractCuttable, StartCuts
    <3> QED  BY <2>1, <3>2 DEF PdfInv
  <2>6. CASE CutOn
    <3>1. /\ CutInv(input, acc) /\ acc.next <= Len(acc.sections) /\ acc' = CutChunk(acc)
      <4>1. CutInv(input, acc) /\ acc' = CutChunk(acc) /\ ~(acc.next > Len(acc.sections))
        BY <2>2, <2>6 DEF CutOn, Parsed
      <4>2. acc.next \in Int /\ Len(acc.sections) \in Int
        BY <4>1 DEF CutInv, Cutters
      <4> QED  BY <4>1, <4>2
    <3>2. CutInv(input, acc') /\ acc'.step = "chunk"
      BY <3>1, CutChunkKeeps
    <3> QED  BY <2>1, <3>2 DEF PdfInv
  <2> QED  BY <1>3, <2>3, <2>4, <2>5, <2>6
<1> QED
  BY <1>1, <1>2, <1>3, StepGrows

\* A document that has been parsed: all of its sections have been cut.
LEMMA AllCut ==
  ASSUME InputInv, PdfInv, kind = "pdf", Parsed(acc)
  PROVE  /\ Cuttable(input, acc.sections) /\ Chunked(input, acc)
         /\ acc.chunks # <<>> /\ CutOff(acc) = Covered(acc.sections)
<1>1. CutInv(input, acc) /\ acc.next > Len(acc.sections)
  BY DEF PdfInv, Parsed
<1>2. acc \in Cutters /\ Cuttable(input, acc.sections) /\ Chunked(input, acc)
  BY <1>1 DEF CutInv
<1>3. /\ acc.sections \in Seq(Section) /\ acc.sections # <<>> /\ Len(acc.sections) \in Nat
      /\ acc.next \in Nat
  BY <1>2 DEF Cuttable, Cutters
<1>4. \A j \in DOMAIN acc.sections : j < acc.next
  BY <1>1, <1>3
<1>5. acc.next # 1
  BY <1>1, <1>3
<1>6. \A j \in DOMAIN acc.sections :
        {acc.sections[j].content[a] : a \in {b \in DOMAIN acc.sections[j].content : Cut(acc, j, b)}}
          = ToSet(acc.sections[j].content)
  BY <1>4 DEF Cut, ToSet
<1>7. CutOff(acc) = Covered(acc.sections)
  BY <1>6 DEF CutOff, Covered
<1>8. acc.chunks # <<>>
  BY <1>2, <1>5 DEF Chunked
<1> QED
  BY <1>2, <1>7, <1>8

LEMMA InitPdf == Init => PdfInv
BY DEF Init, PdfInv, Unopened

\* Of the pages that are read every line of text is in one chunk, in reading
\* order, and no chunk is too large, whatever the document is.
THEOREM DocumentIsComplete == Spec => []DocumentComplete
<1>1. InputInv /\ PdfInv => DocumentComplete
  <2> SUFFICES ASSUME InputInv, PdfInv, kind = "pdf", Parsed(acc)
               PROVE  DocumentComplete
    BY DEF DocumentComplete
  <2>1. /\ Cuttable(input, acc.sections) /\ Chunked(input, acc)
        /\ CutOff(acc) = Covered(acc.sections)
    BY AllCut
  <2> QED  BY <2>1 DEF DocumentComplete, Cuttable, Chunked, Lone
<1> QED
  BY InitInput, NextInput, InitPdf, NextPdf, <1>1, PTL DEF Spec

\* Every chunk has the title of the heading its lines stand under and the pages
\* they are on, and no document is left without one.
THEOREM ChunksArePlaced == Spec => []SectionsPlaced
<1>1. InputInv /\ PdfInv => SectionsPlaced
  BY AllCut DEF SectionsPlaced, Chunked
<1> QED
  BY InitInput, NextInput, InitPdf, NextPdf, <1>1, PTL DEF Spec
=============================================================================
