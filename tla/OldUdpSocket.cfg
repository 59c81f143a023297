SPECIFICATION OldFairSpec
CONSTANTS
  c1 = c1
  c2 = c2
  s1 = s1
  s2 = s2
  old = old
  Clients = {c1, c2}
  Servers = {s1, s2, old}
  InfoShareServers = {old}
  BroadcastClients = {c2}
  PortOf <- Ports
  To <- Destinations
  SendBuffer = 1
  ReceiveBuffer = 2
  Sends = 2
INVARIANTS
  CrashNeedsSecondCall
PROPERTIES
  LeavingEnds
CHECK_DEADLOCK FALSE
