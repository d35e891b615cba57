SPECIFICATION Spec
CONSTANTS
  server = server
  client = client
  other = other
  r1 = r1
  r2 = r2
  r3 = r3
  Procs = {server, client, other}
  Server = server
  Requests = {r1, r2, r3}
  CallerOf <- MCCallerOf
  Burst = 2
  Window = 1
  Cooldown = 2
  MaxTime = 3
  MaxFaults = 1
INVARIANTS
  TypeOK
  TokensAgree
  LimiterExact
  AlertsSpaced
SYMMETRY Symmetry
CHECK_DEADLOCK FALSE
