\* Two connections, two descriptors, batches of two, fair.
SPECIFICATION FairSpec
CONSTANTS
  c1 = c1
  c2 = c2
  Null = Null
  Conns <- TwoConns
  Requests <- GetAndHead
  Fds <- TwoFds
  MaxEvent = 2
CHECK_DEADLOCK FALSE
INVARIANTS OwnRequestServed DownNeedsCause NoStaleDispatch NoEdgeLost
PROPERTIES ImplementsOneShot EventKeepsItsConnection ServedEventually AcceptedEventually
