CONSTANTS
  InumsDim = 62
  StackLimit = 12
  TkBufferN = 300
  GetsN = 4
  Seeds = {1, 2, 5}
  Orders = {TRUE, FALSE}
  Copying = {TRUE, FALSE}
  Offered <- Sessions
SPECIFICATION Spec
INVARIANTS AnswersMean StackReturned QsortSorts TracedAnswers RequiredOnce SavedStays CopyKeepsTheGraph
PROPERTIES ReadsBack StoresRemember CodingsInvert PiecesMakeTheWhole RunsAsTyped
CHECK_DEADLOCK FALSE
