\* One request while the configuration file is being replaced.
SPECIFICATION Spec
CONSTANTS
  c1 = c1
  c2 = c2
  Null = Null
  Conns <- OneConn
  Requests <- JustGet
  Fds <- TwoFds
  MaxEvent = 2
CHECK_DEADLOCK FALSE
INVARIANT RestartUnnecessary
