SPECIFICATION CalmSpec
CONSTANTS
  Puts = {p1}
  Devices = {d1}
  Workers = {w1}
  Brokers = {b1}
  Bodies <- MCBodies
  MaxVersion = 2
  NoVersion = NoVersion
  NoWorker = NoWorker
PROPERTY SentIsTold
CHECK_DEADLOCK FALSE
