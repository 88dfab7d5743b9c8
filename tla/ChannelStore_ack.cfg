CONSTANTS
  ChannelIDs = {a}
  Ids = {i1, i2, i3}
  MaxVersion = 2
SPECIFICATION Spec
INVARIANTS
  OnlyAckedIsAcked
CHECK_DEADLOCK FALSE
