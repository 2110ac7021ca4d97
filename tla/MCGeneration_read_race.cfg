SPECIFICATION Spec
CONSTANTS
  c1 = c1
  c2 = c2
  o1 = o1
  r1 = r1
  r2 = r2
  Clients = {c1}
  Owners = {o1}
  OwnerOf <- OneTab
  Runs = {r1}
  Processes <- SingleRun
  MaxAttempts = 1
  MaxClaims = 1
  DeadlineTime = 3
  LeaseTime = 1
  Horizon = 4
  Watchdog = FALSE
  NoOwner = NoOwner
PROPERTIES
  TerminalIsStable
CHECK_DEADLOCK FALSE
