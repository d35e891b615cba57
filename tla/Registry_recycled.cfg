CONSTANTS
  l1 = l1  l2 = l2  g1 = g1
  x = x  y = y  z = z
  nopid = nopid  noone = noone
  Profiles = {1, 2}
  Launchd = {l1, l2}
  Gateways = {}
  Ports = 4
  Pids = {x, y, z}
  NoPid = nopid
  NoOne = noone
  ProfileOf <- MCProfileOf
  StablePort <- MCStablePort
  MaxFaults = 1
SPECIFICATION Spec
CHECK_DEADLOCK FALSE
PROPERTY ReapsOwnProfile
