SPECIFICATION Spec
CONSTANTS
  Pattern <- McStringNames
  Reply <- McReply
  Noise = 0
  Table <- McStrings
  Plain <- McPlainWho
  Prio = {0, 1}
  Distinct = TRUE
  Prompt = FALSE
  Faults = {"drop", "lose", "deloutq"}
  MaxQuestions = 3
INVARIANTS TypeOK QueuePairs OnlyOwnAnswers
CHECK_DEADLOCK FALSE
