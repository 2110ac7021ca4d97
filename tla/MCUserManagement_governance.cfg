SPECIFICATION Spec
CONSTANTS
  u1 = u1
  u2 = u2
  q1 = q1
  q2 = q2
  sh1 = sh1
  Users = {u1, u2}
  Requests = {q1, q2}
  Operators = {sh1}
  Roles = {"SUPER_ADMIN", "ADMIN", "USER"}
  MaxRevision = 3
  Nobody = Nobody
SYMMETRY TwoAlike
INVARIANTS
  Ind
PROPERTIES
  SuperAdminRemains
  AdminManagesOnlyUsers
  NoLostUpdate
  ChangesEndSessions
  UsableAdminRemains
  ImplementsGovernance
CHECK_DEADLOCK FALSE
