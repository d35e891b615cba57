CONSTANTS
  l1 = l1  l2 = l2  g1 = g1
  x = x  y = y  z = z
  nopid = nopid  noone = noone
  Profiles = {1, 2}
  Launchd = {l1, l2}
  Gateways = {g1}
  Ports = 4
  Pids = {x, y, z}
  NoPid = nopid
  NoOne = noone
  ProfileOf <- MCProfileOf
  StablePort <- MCStablePort
  MaxFaults = 2
SPECIFICATION FairSpec
CHECK_DEADLOCK FALSE
INVARIANTS TypeOK ServingListed EntryOwned
PROPERTY Settles
