CONSTANTS
  MaxHooks = 1
  Stream <- Streams
  Code <- OneCode
  Kinds <- EveryKind
  Timeouts <- ShortAndNone
  Flushes <- FullAndLess
  BufferSize = 3
  ReadSize = 2
  PipeSize = 3
  Rounds = 2
  MaxWritten = 4
  Faults <- Leaves
SPECIFICATION Spec
INVARIANTS TypeOK BufferFits
PROPERTIES KeepsPromise
CHECK_DEADLOCK FALSE
