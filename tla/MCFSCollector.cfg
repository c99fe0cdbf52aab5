SPECIFICATION Spec
CONSTANTS
  m1 = m1
  m2 = m2
  l1 = l1
  r1 = r1
  None = None
  Mails <- MCMails
  Local <- MCLocal
  Remote <- MCRemote
  Size = 1
  Faults = {"crash", "stop"}
  MaxTurns = 2
INVARIANTS
  OnePlace
PROPERTIES
  RefinesSpool
\* With no mail left, every goroutine waits for the next one.
CHECK_DEADLOCK FALSE
