SPECIFICATION FairSpec
CONSTANTS
  Pattern <- McOrderNames
  Reply <- McReply
  Noise = 0
  Table <- McOrder
  Plain <- McPlainTime
  Prio = {1}
  Distinct = FALSE
  Prompt = TRUE
  Faults = {}
  MaxQuestions = 3
INVARIANT AnswersWhole
PROPERTY Ends
CHECK_DEADLOCK FALSE
