SPECIFICATION Spec
CONSTANTS
  m1 = m1
  m2 = m2
  l1 = l1
  r1 = r1
  None = None
  Mails <- MCMails
  Local <- MCLocal
  Remote <- Nobody
  Size = 1
  Faults = {"stop", "disk"}
  MaxTurns = 2
INVARIANTS
  CanceledKeepsFile
CHECK_DEADLOCK FALSE
