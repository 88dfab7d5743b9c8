CONSTANTS
  c1 = c1
  c2 = c2
  c3 = c3
  s1 = s1
  s2 = s2
  NoConn = NoConn
  NoUaid = NoUaid
  NoServer = NoServer
  UAIDs = {u1}
  Conns = {c1, c2, c3}
  Servers = {s1, s2}
  Home <- TwoWorkers
  MaxConnections = 2
SPECIFICATION SerialSpec
INVARIANTS
  RoutedSession
PROPERTIES
  RefinesPresence
CHECK_DEADLOCK FALSE
