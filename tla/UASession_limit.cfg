CONSTANTS
  c1 = c1
  c2 = c2
  c3 = c3
  s1 = s1
  s2 = s2
  NoConn = NoConn
  NoUaid = NoUaid
  NoServer = NoServer
  UAIDs = {u1}
  Conns = {c1, c2, c3}
  Servers = {s1}
  Home <- OneWorker
  MaxConnections = 1
SPECIFICATION Spec
INVARIANT WithinLimit
CHECK_DEADLOCK FALSE
