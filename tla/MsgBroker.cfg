CONSTANTS
  Conns = {a, b, c}
SPECIFICATION FairSpec
INVARIANTS
  TypeOK
  ListSound
  NeverReported
PROPERTIES
  EndedIsFinal
  OutageIsRetried
  RefinesBrokerLink
CHECK_DEADLOCK FALSE
