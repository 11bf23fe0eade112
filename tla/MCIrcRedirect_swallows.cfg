SPECIFICATION Spec
CONSTANTS
  Pattern <- McStringNames
  Reply <- McReply
  Noise = 0
  Table <- McStrings
  Plain <- McPlainWho
  Prio = {0}
  Distinct = TRUE
  Prompt = TRUE
  Faults = {"interleave"}
  MaxQuestions = 3
INVARIANT OnlyAnswersTaken
CHECK_DEADLOCK FALSE
