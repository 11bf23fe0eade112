SPECIFICATION FairSpec
CONSTANTS
  a = a  b = b  c1 = c1  c2 = c2
  NoNick = NoNick  NoChannel = NoChannel  Freed = Freed
  Channel = {c1}
  Name <- McNames
  MyNames <- McNames
  Modes = 1
  Granted <- McNoModes
  Autojoin = {c1}
  MULTI_PREFIX = TRUE
  AutorejoinDelays <- McDelays
  CommandDelays <- McBoth
  PartCloses <- McBoth
  Faults <- McFaults
  MaxWire = 1
  MaxSent = 1
  MaxTimers = 2
  MaxLinks = 1
INVARIANTS
  TypeOK
  ShowsNetwork
  TimerPending
PROPERTY Rejoins
CHECK_DEADLOCK FALSE
