SPECIFICATION Spec
CONSTANTS
  t1 = t1
  t2 = t2
  c1 = c1
  i1 = i1
  k1 = k1
  k2 = k2
  Tabs = {t1, t2}
  Choices = {c1}
  Images = {i1}
  Keys = {k1, k2}
  MaxAttempts = 2
  MaxRevision = 3
  MaxLives = 2
  Nothing = Nothing
SYMMETRY Alike
INVARIANTS
  Ind
  AnswersAgree
PROPERTIES
  NoUnseenOverwrite
  ImplementsKeyed
CHECK_DEADLOCK FALSE
