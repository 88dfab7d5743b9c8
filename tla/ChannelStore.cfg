CONSTANTS
  ChannelIDs = {a, b}
  Ids = {i1, i2}
  MaxVersion = 1
SYMMETRY Symmetry
SPECIFICATION Spec
INVARIANTS
  TypeOK
  OneVersionedEntry
  RecoveryConverges
PROPERTIES
  UnreadWaitsForAck
  RefinesMailbox
CHECK_DEADLOCK FALSE
