SPECIFICATION SpecUnwatched
CONSTANTS
  c1 = c1
  c2 = c2
  o1 = o1
  r1 = r1
  r2 = r2
  Clients = {c1}
  Owners = {o1}
  OwnerOf <- OneTab
  Runs = {r1, r2}
  Processes <- TwoProcesses
  MaxAttempts = 1
  MaxClaims = 2
  DeadlineTime = 3
  LeaseTime = 1
  Horizon = 4
  Watchdog = FALSE
  NoOwner = NoOwner
PROPERTIES
  ActiveSettles
CHECK_DEADLOCK FALSE
