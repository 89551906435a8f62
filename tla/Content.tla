------------------------------- MODULE Content -------------------------------
(***************************************************************************)
(* Content on its way through the pipeline: every document, reply, list of *)
(* concepts, quiz and sentence up to a bound, built one element at a time, *)
(* and what the pure functions of the services make of it.                 *)
(***************************************************************************)
EXTENDS JsonRecovery, ResponseValidator, PdfParser

CONSTANTS
  Lines,      \* lines of a document
  Concepts,   \* raw concepts of the notes
  Questions,  \* raw questions of a quiz
  MaxInput,   \* kind -> longest input
  MaxBreaks   \* most page breaks

VARIABLES
  kind,  \* what is being checked
  input, \* the input so far
  acc    \* what the loops that read it an element at a time have made of it

vars == <<kind, input, acc>>

Kinds == {"pdf", "reply", "notes", "mcq", "fill"}

ASSUME ContentAssumption ==
  /\ MaxInput \in [Kinds -> Nat] /\ MaxBreaks \in Nat
  /\ Concepts \subseteq
       [object : BOOLEAN, id : Ids \cup {None, Odd}, term : BOOLEAN]
  /\ \A q \in Questions : q.typed \in BOOLEAN
  /\ \A q \in Questions : q.level.type = "number" => q.level.value \in Int

Init ==
  /\ kind \in Kinds
  /\ input = IF kind = "pdf" THEN << <<>> >> ELSE <<>>
  /\ acc = CASE kind = "pdf" -> Unopened
             [] kind = "reply" -> NothingFound
             [] kind = "notes" -> NoConcepts
             [] kind = "mcq" -> NoQuestions
             [] OTHER -> <<>>

\* A document gets a line or a page.
AddLine ==
  /\ kind = "pdf" /\ acc.step = "file"
  /\ Len(Positions(input)) < MaxInput["pdf"]
  /\ \E l \in Lines :
       input' = [input EXCEPT ![Len(input)] = Append(@, l)]
  /\ UNCHANGED <<kind, acc>>

AddPage ==
  /\ kind = "pdf" /\ acc.step = "file"
  /\ Len(input) <= MaxBreaks
  /\ input' = Append(input, <<>>)
  /\ UNCHANGED <<kind, acc>>

\* It is uploaded: parse_pdf reads it, line by line and page by page, and then
\* cuts the sections it has found.
OpenFile ==
  /\ kind = "pdf" /\ acc.step = "file"
  /\ acc' = Open(input)
  /\ UNCHANGED <<kind, input>>

ReadOn ==
  /\ kind = "pdf" /\ acc.step = "read" /\ acc.page <= Used(input)
  /\ acc' = IF acc.line <= Len(input[acc.page]) THEN ReadLine(input, acc)
            ELSE TurnPage(acc)
  /\ UNCHANGED <<kind, input>>

EndReading ==
  /\ kind = "pdf" /\ acc.step = "read" /\ acc.page > Used(input)
  /\ acc' = StartChunks(ExtractSections(input, acc))
  /\ UNCHANGED <<kind, input>>

CutOn ==
  /\ kind = "pdf" /\ acc.step = "chunk" /\ ~Parsed(acc)
  /\ acc' = CutChunk(acc)
  /\ UNCHANGED <<kind, input>>

Grow(k, items) ==
  /\ kind = k
  /\ Len(input) < MaxInput[k]
  /\ \E x \in items : input' = Append(input, x)
  /\ UNCHANGED kind

\* A reply gets a character, and may be cut off after it.
AddCharacter ==
  /\ Grow("reply", {c \in Chars : Continues(input, c)})
  /\ acc' = Count(input', acc, Len(input'))

AddConcept ==
  /\ Grow("notes", Concepts)
  /\ acc' = TakeConcept(acc, Last(input'), Len(input'))

AddQuestion ==
  /\ Grow("mcq", Questions)
  /\ acc' = TakeQuestion(acc, Last(input'), Len(input'), Ids)

AddLetter == Grow("fill", {"_", "w"}) /\ UNCHANGED acc

Next == \/ AddLine \/ AddPage \/ OpenFile \/ ReadOn \/ EndReading \/ CutOn
        \/ AddCharacter \/ AddConcept \/ AddQuestion \/ AddLetter

Spec == Init /\ [][Next]_vars

-----------------------------------------------------------------------------
\* json_utils.py:13: wherever the reply was cut off, exactly its complete
\* questions are recovered, not the objects inside them, if the braces in
\* their strings match.
RecoversComplete ==
  (kind = "reply" /\ StringsMatch(input)) =>
    Extract(input, acc) = CompleteObjects(input)

\* The prompts of both quizzes offer the ids that validate_mcq and
\* validate_fill accept, invented ones included, although the prompts read
\* the raw notes and the validators the model.  They fail on exactly the
\* notes that validate_notes accepts with a term or an object missing; where
\* an id that is no string made it raise, no prompt is built.
PromptOffersNotes ==
  (kind = "notes" /\ ~acc.escaped) =>
    /\ ~PromptRaises(Marked(input)) => PromptConcepts(Marked(input)) = acc.ids
    /\ PromptRaises(Marked(input)) <=>
         \E i \in DOMAIN input : ~(input[i].object /\ input[i].term)

\* A kept question that came before the n-th of the reply is its twin.
HasTwin(n) ==
  \E j \in DOMAIN acc.kept :
    acc.kept[j].at < n /\ NearDuplicate(input[n].text, acc.kept[j].text)

\* A quiz has no two questions alike and the order of the reply; a question
\* that passes the checks is in it or has a twin in it that came earlier,
\* unless an exception escapes, and one does exactly where such a question
\* without a twin has an id, level or type of the wrong kind.  The validation
\* refuses the reply only where no question passes.  Each question is linked
\* to a concept that exists and keeps its level when it is read again.
QuizComplete ==
  kind = "mcq" =>
    LET kept == acc.kept IN
    /\ \A i, j \in DOMAIN kept : i < j =>
         kept[i].at < kept[j].at /\ ~NearDuplicate(kept[i].text, kept[j].text)
    /\ ~acc.escaped =>
         \A n \in DOMAIN input : WellFormed(input[n]) =>
           HasTwin(n) \/ \E j \in DOMAIN kept : kept[j].at = n
    /\ acc.escaped <=> \E n \in DOMAIN input :
         WellFormed(input[n]) /\ ~input[n].typed /\ ~HasTwin(n)
    /\ McqRaises(acc) <=> \A n \in DOMAIN input : ~WellFormed(input[n])
    /\ \A j \in DOMAIN kept :
         /\ Ids # {} => kept[j].concept \in Ids
         /\ kept[j].level \in Levels
         /\ kept[j].level
              = SchemaLevel([type |-> "number", value |-> kept[j].level])

\* A fill-in question has one blank, the first of its sentence, and keeps the
\* rest of the text in order.
OneBlankLeft ==
  kind = "fill" =>
    LET out == ValidateFill(input, TRUE) IN
    IF out = None THEN Gaps(input) = 0
    ELSE /\ Gaps(out) = 1
         /\ Head(Split(out)) = Head(Split(input))
         /\ SelectSeq(out, LAMBDA c : c # "_")
              = SelectSeq(input, LAMBDA c : c # "_")

\* The lines of the pages that are read, and the headings among them.
LinesRead(pages) == UNION {{p} \X DOMAIN pages[p] : p \in 1..Used(pages)}
Headings(pages) ==
  {x \in LinesRead(pages) : IsHeading(pages[x[1]], pages[x[1]][x[2]])}

Before(x, y) == x[1] < y[1] \/ (x[1] = y[1] /\ x[2] < y[2])

\* The lines that secs hold, and that they do in reading order.
Covered(secs) == UNION {ToSet(secs[i].content) : i \in DOMAIN secs}

InOrder(secs) ==
  \A i, j \in DOMAIN secs :
    \A a \in DOMAIN secs[i].content, b \in DOMAIN secs[j].content :
      (i < j \/ (i = j /\ a < b)) => Before(secs[i].content[a], secs[j].content[b])

\* Section sec has the title of the last heading before each of its lines, and
\* ranges from the page of that heading to no page after that of the next one.
Placed(pages, sec) ==
  \A x \in ToSet(sec.content) :
    LET above == {h \in Headings(pages) : Before(h, x)}
        below == {h \in Headings(pages) : Before(x, h)}
    IN  /\ sec.from <= x[1] /\ x[1] <= sec.to
        /\ IF sec.title = Whole THEN x \in Headings(pages)
           ELSE /\ IF sec.title = Introduction THEN above = {} /\ sec.from = 1
                   ELSE /\ sec.title \in above /\ sec.from = sec.title[1]
                        /\ \A h \in above : ~Before(sec.title, h)
                /\ \A h \in below : sec.to <= h[1]

\* Of the pages that are read, every line of the text is in one chunk, in
\* reading order, and no chunk is larger than it may be.  Only headings and
\* page numbers are not content, or page numbers if there is nothing else.
DocumentComplete ==
  (kind = "pdf" /\ Parsed(acc)) =>
    LET read == LinesRead(input)
        body == IF read = Headings(input) THEN read ELSE read \ Headings(input)
    IN  /\ \A i \in DOMAIN acc.chunks : Len(acc.chunks[i].content) <= ChunkSize
        /\ InOrder(acc.chunks)
        /\ Covered(acc.chunks) = {x \in body : input[x[1]][x[2]].word # Num}

\* Every chunk is where its lines are, and a document is never empty.
SectionsPlaced ==
  (kind = "pdf" /\ Parsed(acc)) =>
    /\ acc.chunks # <<>>
    /\ \A i \in DOMAIN acc.chunks : Placed(input, acc.chunks[i])
=============================================================================
