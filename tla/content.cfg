SPECIFICATION Spec
CONSTANTS
  Ids = {k1, k2}
  Odd = odd
  Blank = blank
  None = none
  MaxPages = 2
  ChunkSize = 2
  SamplePages = 1
  MinText = 1
  Num = "1"
  Introduction = introduction
  Whole = whole
  Lines <- MCLines
  Concepts <- MCConcepts
  Questions <- MCQuestions
  MaxInput <- MCMaxInput
  MaxBreaks = 2
INVARIANT RecoversComplete
INVARIANT PromptOffersNotes
INVARIANT QuizComplete
INVARIANT OneBlankLeft
INVARIANT DocumentComplete
INVARIANT SectionsPlaced
CHECK_DEADLOCK FALSE
