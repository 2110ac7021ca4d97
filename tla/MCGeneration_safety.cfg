SPECIFICATION Spec
CONSTANTS
  c1 = c1
  c2 = c2
  o1 = o1
  r1 = r1
  r2 = r2
  Clients = {c1, c2}
  Owners = {o1}
  OwnerOf <- OneOwner
  Runs = {r1, r2}
  Processes <- TwoProcesses
  MaxAttempts = 2
  MaxClaims = 2
  DeadlineTime = 3
  LeaseTime = 1
  Horizon = 3
  Watchdog = FALSE
  NoOwner = NoOwner
SYMMETRY TabsAndRuns
INVARIANTS
  OneActivePerOwner
  AtMostOneDispatch
  CompletedHasResult
  SucceededJobHasResult
  TimeoutMeansElapsed
  DeletedIsQuiet
PROPERTIES
  NoResurrection
  ImplementsLifecycle
CHECK_DEADLOCK FALSE
