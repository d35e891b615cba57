SPECIFICATION FairSpec
CONSTANTS
  h1 = h1
  h2 = h2
  h3 = h3
  t1 = t1
  t2 = t2
  none = none
  Profiles = {1}
  Sinks = {1, 2}
  HookEvents = {h1}
  TaskEvents = {t1}
  ProfileOf <- MCProfileOf
  Writebacks = {}
  LongEvents = {}
  BadForms = {"garbled"}
  Poison = {}
  NoFile = none
  MaxCrashes = 1
  MaxHanded = 4
PROPERTIES
  EmissionKeepsLines
