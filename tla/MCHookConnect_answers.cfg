CONSTANTS
  c1 = c1
  c2 = c2
  Conn <- TwoConns
  MaxAddresses = 2
  Pools <- NoneOrOne
  Tls <- WithAndWithout
  Proxies <- OnlyTrue
  Faults <- Anything
SPECIFICATION FairSpec
INVARIANTS TypeOK AnsweredOnce SocketsOwned
PROPERTIES Answered
CHECK_DEADLOCK FALSE
