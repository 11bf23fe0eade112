SPECIFICATION FairSpec
CONSTANTS
  ANTI_FLOOD <- McNoAntiFloodHigh
  Far = 2
  MaxBack = 3
  MaxJumps = 1
  MaxMessages = 4
  MaxDepth = 3
INVARIANTS
  QueuesInOrder
PROPERTY Drains
