CONSTANTS
  core = core
  b1 = b1
  b2 = b2
  w1 = w1
  w2 = w2
  Buffer <- ThreeBuffers
  Core = core
  Window <- TwoWindows
  NoBuffer = NoBuffer
  LayoutNumber <- LayoutNumbers
  LayoutOrder <- LayoutOrders
  MayHide <- OneHidden
  MaxNumber = 3
  Commands <- AllCommands
SPECIFICATION Spec
INVARIANTS TypeOK NumbersInOrder GroupsSound
PROPERTY CountKept
SYMMETRY WindowSymmetry
