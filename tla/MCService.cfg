\* Two connections compete for one descriptor over the whole life of the
\* service; a chunk is written in parts.
SPECIFICATION FairSpec
CONSTANTS
  c1 = c1
  c2 = c2
  a1 = a1
  a2 = a2
  Null = Null
  Conns <- MCConns
  Addrs <- MCAddrs
  MaxBytes = 2
  MaxRead = 2
  SndBuf = 1
  MaxFd = 1
CHECK_DEADLOCK FALSE
INVARIANTS EchoFidelity QueueHoldsGap ArmedIffQueued DownNeedsHangUp
PROPERTIES ImplementsEcho EchoedEventually AcceptedEventually
