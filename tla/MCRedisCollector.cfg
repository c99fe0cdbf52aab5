SPECIFICATION Spec
CONSTANTS
  m1 = m1
  m2 = m2
  l = l
  r = r
  None = None
  Mails = {m1, m2}
  Local = {l}
  Remote = {r}
  Faults = {"stop"}
  MaxFaults = 1
INVARIANT StartReturnsOnlyWhenDone
CHECK_DEADLOCK FALSE
