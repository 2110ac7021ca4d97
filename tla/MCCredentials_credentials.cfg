SPECIFICATION Spec
CONSTANTS
  u1 = u1
  q1 = q1
  q2 = q2
  q3 = q3
  Users = {u1}
  Requests = {q1, q2, q3}
  MaxSessions = 1
  MaxTokens = 3
  MaxLinks = 2
  MaxVersion = 2
  NoUser = NoUser
SYMMETRY RequestsAlike
INVARIANTS
  Ind
  AcceptedKnowsPassword
  OneCurrentToken
PROPERTIES
  EndedForGood
  ResetEndsLinks
CHECK_DEADLOCK FALSE
