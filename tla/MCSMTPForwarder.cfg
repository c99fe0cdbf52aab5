SPECIFICATION Spec
CONSTANTS
  m1 = m1
  m2 = m2
  m3 = m3
  Mails <- MCMails
  Size = 1
INVARIANTS
  SentOnce
PROPERTIES
  IntakeNotHeld
  RefusedDoNotBlock
  StopEnds
\* Once stopped and closed, with every mail dealt with.
CHECK_DEADLOCK FALSE
