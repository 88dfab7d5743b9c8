SPECIFICATION FairSpec
CONSTANTS
  Networks = {n1}
  Operators = {o1}
  Servers = {o1}
  Lookups = {p1}
  Devices = {d1}
  DeviceOf <- MCDeviceOf
  NetworkOf <- MCNetworkOf
  NoOperator = NoOperator
PROPERTY AsleepIsPinged
CHECK_DEADLOCK FALSE
