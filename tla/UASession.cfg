CONSTANTS
  c1 = c1
  c2 = c2
  c3 = c3
  s1 = s1
  s2 = s2
  NoConn = NoConn
  NoUaid = NoUaid
  NoServer = NoServer
  UAIDs = {u1}
  Conns = {c1, c2, c3}
  Servers = {s1}
  Home <- OneWorker
  MaxConnections = 2
SYMMETRY Symmetry
SPECIFICATION Spec
INVARIANTS
  TypeOK
  OpenSessionIsRegistered
  ConnectionAccounting
  AutocloseFiresOnce
  OverrunBounded
PROPERTIES
  RefinesSlotOwner
  AnsweredOnce
CHECK_DEADLOCK FALSE
