SPECIFICATION Spec
CONSTANTS
  a = a  b = b  c1 = c1  c2 = c2
  NoNick = NoNick  NoChannel = NoChannel  Freed = Freed
  Channel = {c1, c2}
  Name <- McNames
  MyNames <- McNames
  Modes = 2
  Granted <- McAllModes
  Autojoin = {c1}
  MULTI_PREFIX = TRUE
  AutorejoinDelays <- McAtOnce
  CommandDelays <- McNow
  PartCloses <- McBoth
  Faults <- McResync
  MaxWire = 1
  MaxSent = 1
  MaxTimers = 2
  MaxLinks = 0
INVARIANTS
  ShowsNetwork
CHECK_DEADLOCK FALSE
