---------------------------- MODULE JsonRecovery ----------------------------
(***************************************************************************)
(* json_utils.py: what is kept of a model's reply.  A reply that parses is *)
(* taken whole; of one that was cut off, the complete question objects are *)
(* recovered by counting braces.                                           *)
(*                                                                         *)
(* A reply is what follows the key "questions", reduced to what the count  *)
(* sees: brackets and braces, of the JSON itself or inside a string of it. *)
(* A question is the pair of its first and last position.                  *)
(***************************************************************************)
EXTENDS Naturals, Integers, SequencesExt

Chars == {"lbracket", "rbracket", "lbrace", "rbrace", "strlbrace", "strrbrace"}

\* How often c is there between positions i and j.
Number(text, c, i, j) == Cardinality({k \in i..j : text[k] = c})

\* How deep position j is, counted from i, as JSON nests: strings are opaque.
Nesting(text, i, j) == Number(text, "lbrace", i, j) - Number(text, "rbrace", i, j)

\* json.loads(text[i : j + 1]) succeeds: one whole object; or a string that
\* holds {} and nothing else between its braces, cut out of its quotes.
IsObject(text, i, j) ==
  \/ /\ text[i] = "lbrace" /\ text[j] = "rbrace"
     /\ Nesting(text, i, j) = 0
     /\ \A k \in i..(j - 1) : Nesting(text, i, k) > 0
  \/ text[i] = "strlbrace" /\ text[j] = "strrbrace" /\ j = i + 1

\* The reply begins with the array and its last character closes it.
Parses(text) == Len(text) > 1 /\ text[1] = "lbracket" /\ Last(text) = "rbracket"

\* The questions of the array, in order of position.
CompleteObjects(text) ==
  {q \in (DOMAIN text) \X (DOMAIN text) :
     /\ q[1] < q[2]
     /\ Nesting(text, 1, q[1] - 1) = 0
     /\ text[q[1]] = "lbrace"
     /\ IsObject(text, q[1], q[2])}

\* Mutant: a nested object starts a question too.
MutCount(text, acc, i) ==
  CASE text[i] \in {"lbrace", "strlbrace"} ->
         [acc EXCEPT !.start = i, !.depth = @ + 1]
    [] text[i] \in {"rbrace", "strrbrace"} ->
         IF acc.depth = 1 /\ acc.start # 0
         THEN [depth |-> 0, start |-> 0,
               found |-> IF IsObject(text, acc.start, i)
                         THEN acc.found \cup {<<acc.start, i>>} ELSE acc.found]
         ELSE [acc EXCEPT !.depth = @ - 1]
    [] OTHER -> acc

\* One character of the count, which does not know about strings.  A slice
\* that does not parse is dropped; start 0 stands for None.
Count(text, acc, i) ==
  CASE text[i] \in {"lbrace", "strlbrace"} ->
         [acc EXCEPT !.start = IF acc.depth = 0 THEN i ELSE @, !.depth = @ + 1]
    [] text[i] \in {"rbrace", "strrbrace"} ->
         IF acc.depth = 1 /\ acc.start # 0
         THEN [depth |-> 0, start |-> 0,
               found |-> IF IsObject(text, acc.start, i)
                         THEN acc.found \cup {<<acc.start, i>>} ELSE acc.found]
         ELSE [acc EXCEPT !.depth = @ - 1]
    [] OTHER -> acc

NothingFound == [depth |-> 0, start |-> 0, found |-> {}]

\* recover_partial_questions, acc being its count of the whole text: nothing
\* without an array.
Recover(text, acc) ==
  IF \A i \in DOMAIN text : text[i] # "lbracket" THEN {} ELSE acc.found

\* extract_json: {} stands for the GenerationError, or an empty array.
Extract(text, acc) ==
  IF Parses(text) THEN CompleteObjects(text) ELSE Recover(text, acc)

-----------------------------------------------------------------------------
(* The replies a model can send, and what must come of them.               *)

\* Text extended by c is the beginning of a reply that is JSON: one array of
\* objects, with strings and other objects in them.
Continues(text, c) ==
  LET open == Nesting(text, 1, Len(text)) IN
  IF text = <<>> THEN c = "lbracket"
  ELSE /\ Last(text) # "rbracket"
       /\ CASE c = "lbracket" -> FALSE
            [] c = "rbracket" -> open = 0
            [] c = "lbrace" -> TRUE
            [] OTHER -> open > 0

\* How many braces are open in the strings between positions i and j.
Inside(text, i, j) == Number(text, "strlbrace", i, j) - Number(text, "strrbrace", i, j)

\* The strings of every question have matching braces.
StringsMatch(text) ==
  \A i \in DOMAIN text :
    /\ Inside(text, 1, i) >= 0
    /\ Nesting(text, 1, i) = 0 => Inside(text, 1, i) = 0
=============================================================================
