SPECIFICATION FairSpec
CONSTANTS
  Networks = {n1}
  Operators = {o1, o2}
  Servers = {o1}
  Lookups = {p1, p2}
  Devices = {d1}
  DeviceOf <- MCDeviceOf
  NetworkOf <- MCNetworkOf
  NoOperator = NoOperator
INVARIANTS WakeUpTypeOK CacheFresh
PROPERTIES AskedIsFresh UnackedIsPinged
CHECK_DEADLOCK FALSE
