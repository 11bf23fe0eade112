SPECIFICATION Spec
CONSTANTS
  ANTI_FLOOD <- McAntiFlood
  Far = 2
  MaxBack = 3
  MaxJumps = 1
  MaxMessages = 2
  MaxDepth = 2
PROPERTIES
  SignalledIsWritten
