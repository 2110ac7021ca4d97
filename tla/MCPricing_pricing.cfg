SPECIFICATION Spec
CONSTANTS
  r1 = r1
  r2 = r2
  r3 = r3
  Requests = {r1, r2, r3}
  MaxRates = 5
SYMMETRY Alike
INVARIANTS
  Ind
  CanBeReplaced
PROPERTIES
  NoSilentOverwrite
CHECK_DEADLOCK FALSE
