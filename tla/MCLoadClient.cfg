\* Two connections, two round trips each, on a path that can fill up; fair.
SPECIFICATION FairLoadSpec
CONSTANTS
  c1 = c1
  c2 = c2
  a1 = a1
  a2 = a2
  Null = Null
  Conns <- TwoConns
  Addrs <- TwoAddrs
  MaxBytes = 4
  MaxRead = 2
  SndBuf = 1
  MaxFd = 2
  Chunk = 2
  PathBuf = 2
CHECK_DEADLOCK FALSE
INVARIANTS NoUseAfterClose NeitherKillsTheOther TeardownReachesAll NoMutualWait
PROPERTIES ClosesOnlyWhenStuffed RoundTripEnds
