CONSTANTS
  MaxHooks = 3
  Stream <- NoStream
  Code <- OneCode
  Kinds <- Background
  Timeouts <- ShortAndNone
  Flushes <- Full
  BufferSize = 3
  ReadSize = 2
  PipeSize = 3
  Rounds = 2
  MaxWritten = 0
  Faults <- Retries
SPECIFICATION FairSpec
INVARIANTS NoChildLeft
PROPERTIES TimeoutEnds
CHECK_DEADLOCK FALSE
