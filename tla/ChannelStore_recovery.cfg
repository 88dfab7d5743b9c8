CONSTANTS
  ChannelIDs = {a}
  Ids = {i1, i2, i3}
  MaxVersion = 1
SPECIFICATION Spec
INVARIANTS
  ListedChannelKept
CHECK_DEADLOCK FALSE
