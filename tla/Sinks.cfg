SPECIFICATION FairSpec
CHECK_DEADLOCK FALSE
CONSTANTS
  none = none
  NoFile = none
  MaxEvents = 3
  MaxDay = 2
  MaxKills = 1
  MaxReplaced = 1
  MaxShorts = 1
INVARIANTS
  TypeOK
  AuditKeeps
  NotesWhole
PROPERTIES
  RollLosesNothing
  EventuallyCompressed
