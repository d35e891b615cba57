SPECIFICATION FairSpec
CHECK_DEADLOCK FALSE
CONSTANTS
  i1 = i1
  i2 = i2
  i3 = i3
  none = none
  Items = {i1, i2, i3}
  NoItem = none
  CompactLines = 0
  CompactSize = 1
  MaxKills = 2
  MaxLanding = 2
INVARIANTS
  TypeOK
  NoneSkipped
  OneRedeliveryPerKill
PROPERTIES
  EventuallyDelivered
