----------------------------- MODULE MCContent -----------------------------
(* Content for TLC: the lines, concepts and questions worth telling apart.  *)
EXTENDS Content

MCLines ==
  {[word |-> "a", bold |-> TRUE, long |-> FALSE],
   [word |-> "a", bold |-> FALSE, long |-> FALSE],
   [word |-> "a", bold |-> FALSE, long |-> TRUE],
   [word |-> "b", bold |-> FALSE, long |-> FALSE],
   [word |-> Num, bold |-> FALSE, long |-> FALSE]}

MCConcepts ==
  [object : BOOLEAN, id : Ids \cup {None, Odd}, term : BOOLEAN]

\* Three wordings of a question, the outer two of which are not duplicates;
\* one without a keyword; one of which no MCQQuestion can be made; one for
\* every reason to skip a question.
MCQuestions ==
  LET good == [object |-> TRUE, text |-> {1, 2, 3}, options |-> "distinct",
               answer |-> TRUE, typed |-> TRUE, concept |-> None,
               level |-> [type |-> "number", value |-> 9]]
  IN {good,
      [good EXCEPT !.text = {1, 2, 3, 4},
                   !.level = [type |-> "word", value |-> "hard"]],
      [good EXCEPT !.text = {1, 2, 3, 4, 5},
                   !.level = [type |-> "number", value |-> 0]],
      [good EXCEPT !.text = {}, !.level = [type |-> "word", value |-> "junk"]],
      [good EXCEPT !.typed = FALSE],
      [good EXCEPT !.object = FALSE],
      [good EXCEPT !.text = Blank],
      [good EXCEPT !.options = "missing"],
      [good EXCEPT !.options = "repeated"],
      [good EXCEPT !.answer = FALSE]}
    \cup {[good EXCEPT !.concept = i] : i \in Ids}

MCMaxInput ==
  [pdf |-> 5, reply |-> 9, notes |-> 3, mcq |-> 4, fill |-> 12]
=============================================================================
