\* Two net::Servers and a core::service compete for two ports, fair.
SPECIFICATION FairSpec
CONSTANTS
  p23333 = p23333
  p8080 = p8080
  Servers <- ThreeServers
  Epoll <- TwoServers
  Ports <- BothPorts
  DEBUG_PORT = p23333
INVARIANT StatusTellsReach
PROPERTY DeafServerEnds
