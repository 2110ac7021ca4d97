SPECIFICATION Spec
CONSTANTS
  u1 = u1
  q1 = q1
  q2 = q2
  q3 = q3
  Users = {u1}
  Requests = {q1, q2}
  MaxSessions = 0
  MaxTokens = 0
  MaxLinks = 1
  MaxVersion = 3
  NoUser = NoUser
SYMMETRY RequestsAlike
PROPERTIES
  LinkUsedOnce
CHECK_DEADLOCK FALSE
