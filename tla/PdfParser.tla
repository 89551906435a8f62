------------------------------ MODULE PdfParser ------------------------------
(***************************************************************************)
(* pdf_parser.py: a PDF's text in sections, cut into chunks.               *)
(*                                                                         *)
(* A page is a sequence of non-empty lines, a line one word: the word, if  *)
(* it is set in bold or in 14 pt, if the line is too long for a heading.   *)
(* Num is a lone page number.  In a section a line is its position, the    *)
(* pair of page and line number.                                           *)
(*                                                                         *)
(* The loops of the parser are given by their bodies, on a record r of the *)
(* variables they share; r.step is the loop it is in.                      *)
(***************************************************************************)
EXTENDS Naturals, SequencesExt

CONSTANTS
  MaxPages,     \* MAX_PDF_PAGES
  ChunkSize,    \* CHUNK_TOKEN_SIZE
  SamplePages,  \* 5: the pages looked at for text
  MinText,      \* 50: less text than this is a scan
  Num,          \* the word of a lone page number
  Introduction, Whole \* "Introduction" and "Document Content", the titles of
                      \* what no heading precedes and of a document without text

ASSUME PdfAssumption ==
  /\ {MaxPages, ChunkSize, SamplePages, MinText} \subseteq Nat \ {0}
  /\ Introduction # Whole /\ {Introduction, Whole} \cap (Nat \X Nat) = {}

Smaller(m, n) == IF m < n THEN m ELSE n

\* The pages after the last admitted one are dropped.
Used(pages) == Smaller(Len(pages), MaxPages)

\* The positions of a document in reading order.
Positions(pages) ==
  FlattenSeq([p \in DOMAIN pages |->
                [i \in DOMAIN pages[p] |-> <<p, i>>]])

\* A word that is emphasised anywhere on the page makes a heading of every
\* short line that contains it.
IsHeading(page, line) ==
  /\ ~line.long
  /\ \E i \in DOMAIN page : page[i].bold /\ page[i].word = line.word

-----------------------------------------------------------------------------
(* A document is opened and read line by line.                             *)

Unopened == [step |-> "file"]

\* parse_pdf up to the first loop, of a file that opens, is no larger than
\* MAX_PDF_SIZE_MB and not encrypted: one without text on its first pages is
\* refused.
Open(pages) ==
  LET sample == SubSeq(pages, 1, Smaller(Used(pages), SamplePages)) IN
  IF Len(Positions(sample)) < MinText THEN [step |-> "refused"]
  ELSE [step |-> "read", page |-> 1, line |-> 1, sections |-> <<>>,
        title |-> Introduction, start |-> 1,
        lines |-> FALSE,  \* current_lines is not empty
        text |-> <<>>,    \* current_lines after _clean_text
        full |-> <<>>]    \* every line so far, headings too, after _clean_text

\* _clean_text, a line at a time: lone page numbers go.
Clean(pages, text, x) ==
  IF pages[x[1]][x[2]].word = Num THEN text ELSE Append(text, x)

\* The section that ends on page p, if a line was collected for it.
Flush(r, p) ==
  IF ~r.lines THEN r.sections
  ELSE Append(r.sections,
         [title |-> r.title, content |-> r.text, from |-> r.start, to |-> p])

\* Mutant: current_start stays where it was.
MutReadLine(pages, r) ==
  LET x == <<r.page, r.line>>
      next == [r EXCEPT !.line = @ + 1, !.full = Clean(pages, @, x)]
  IN  IF IsHeading(pages[r.page], pages[r.page][r.line])
      THEN [next EXCEPT !.sections = Flush(r, r.page), !.title = x,
                        !.lines = FALSE, !.text = <<>>]
      ELSE [next EXCEPT !.lines = TRUE, !.text = Clean(pages, @, x)]

\* The inner loop of _extract_sections.  A title is the heading's position.
ReadLine(pages, r) ==
  LET x == <<r.page, r.line>>
      next == [r EXCEPT !.line = @ + 1, !.full = Clean(pages, @, x)]
  IN  IF IsHeading(pages[r.page], pages[r.page][r.line])
      THEN [next EXCEPT !.sections = Flush(r, r.page), !.title = x,
                        !.lines = FALSE, !.text = <<>>, !.start = r.page]
      ELSE [next EXCEPT !.lines = TRUE, !.text = Clean(pages, @, x)]

TurnPage(r) == [r EXCEPT !.page = @ + 1, !.line = 1]

\* The end of _extract_sections; without a line outside headings the whole
\* document is one section.  The code reads the pages again for that; r.full is
\* what it reads.
ExtractSections(pages, r) ==
  LET found == Flush(r, Used(pages)) IN
  IF found # <<>> THEN found
  ELSE <<[title |-> Whole, content |-> r.full,
          from |-> 1, to |-> Used(pages)]>>

-----------------------------------------------------------------------------
(* The sections are cut into chunks.                                       *)

StartChunks(secs) ==
  [step |-> "chunk", sections |-> secs, next |-> 1, offset |-> 0, chunks |-> <<>>]

\* Mutant: what does not fill a chunk is left out.
MutCutChunk(r) ==
  LET sec == r.sections[r.next]
      cut == Smaller(r.offset + ChunkSize, Len(sec.content))
      chunk == [sec EXCEPT !.content = SubSeq(@, r.offset + 1, cut)]
  IN  IF cut + ChunkSize <= Len(sec.content)
      THEN [r EXCEPT !.offset = cut, !.chunks = Append(@, chunk)]
      ELSE [r EXCEPT !.offset = 0, !.next = @ + 1, !.chunks = Append(@, chunk)]

\* _chunk_sections: the next chunk of the section at hand, or the section
\* itself if it is not too long.
CutChunk(r) ==
  LET sec == r.sections[r.next]
      cut == Smaller(r.offset + ChunkSize, Len(sec.content))
      chunk == [sec EXCEPT !.content = SubSeq(@, r.offset + 1, cut)]
  IN  IF cut < Len(sec.content)
      THEN [r EXCEPT !.offset = cut, !.chunks = Append(@, chunk)]
      ELSE [r EXCEPT !.offset = 0, !.next = @ + 1, !.chunks = Append(@, chunk)]

Parsed(r) == r.step = "chunk" /\ r.next > Len(r.sections)
=============================================================================
