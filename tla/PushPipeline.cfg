SPECIFICATION OpenSpec
CONSTANTS
  Puts = {p1}
  Devices = {d1}
  Workers = {w1, w2}
  Brokers = {b1, b2}
  Bodies <- MCBodies
  MaxVersion = 2
  NoVersion = NoVersion
  NoWorker = NoWorker
INVARIANTS TypeOK WaitsForLookup
PROPERTIES DeafIsFinal RefinesNotification
CHECK_DEADLOCK FALSE
SYMMETRY Symmetry
