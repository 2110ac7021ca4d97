SPECIFICATION SpecMail
CONSTANTS
  u1 = u1
  q1 = q1
  w1 = w1
  w2 = w2
  Users = {u1}
  Requests = {q1}
  Senders = {w1, w2}
  MaxSessions = 0
  MaxTokens = 0
  MaxLinks = 2
  MaxVersion = 1
  NoUser = NoUser
INVARIANTS
  MailInd
  QueuedHasPayload
PROPERTIES
  MailSettles
  ImplementsDelivery
CHECK_DEADLOCK FALSE
