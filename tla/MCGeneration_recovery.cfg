SPECIFICATION SpecPolled
CONSTANTS
  c1 = c1
  c2 = c2
  o1 = o1
  r1 = r1
  r2 = r2
  Clients = {c1}
  Owners = {o1}
  OwnerOf <- OneTab
  Runs = {r1, r2}
  Processes <- OneProcess
  MaxAttempts = 1
  MaxClaims = 3
  DeadlineTime = 4
  LeaseTime = 1
  Horizon = 6
  Watchdog = TRUE
  NoOwner = NoOwner
INVARIANTS
  Ind
  TokensDiffer
PROPERTIES
  ActiveSettles
  SettledJobIsFinal
CHECK_DEADLOCK FALSE
