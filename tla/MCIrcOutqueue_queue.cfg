SPECIFICATION Spec
CONSTANTS
  ANTI_FLOOD <- McAntiFlood
  Far = 2
  MaxBack = 3
  MaxJumps = 1
  MaxMessages = 5
  MaxDepth = 1
INVARIANTS
  TypeOK
  SilenceIsBounded
PROPERTIES
  AntiFlood
  Fifo
