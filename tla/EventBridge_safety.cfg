SPECIFICATION FairSpec
CONSTANTS
  h1 = h1
  h2 = h2
  h3 = h3
  t1 = t1
  t2 = t2
  none = none
  Profiles = {1}
  Sinks = {1, 2}
  HookEvents = {h1, h2}
  TaskEvents = {t1}
  ProfileOf <- MCProfileOf
  Writebacks = {h2}
  LongEvents = {h1}
  BadForms = {"garbled", "undecodable"}
  Poison = {}
  NoFile = none
  MaxCrashes = 1
  MaxHanded = 4
INVARIANTS
  TypeOK
  CursorNeverAhead
  DuplicatesBounded
PROPERTIES
  CursorNeverBack
  AtLeastOnce
