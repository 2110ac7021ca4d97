SPECIFICATION Spec
CONSTANTS
  u1 = u1
  u2 = u2
  q1 = q1
  q2 = q2
  sh1 = sh1
  Users = {u1, u2}
  Requests = {q1}
  Operators = {sh1}
  Roles = {"SUPER_ADMIN", "ADMIN", "USER"}
  MaxRevision = 2
  Nobody = Nobody
PROPERTIES
  DisableTakesEffect
CHECK_DEADLOCK FALSE
