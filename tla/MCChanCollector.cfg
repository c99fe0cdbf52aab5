SPECIFICATION Spec
CONSTANTS
  m1 = m1
  m2 = m2
  m3 = m3
  m4 = m4
  l1 = l1
  r1 = r1
  u1 = u1
  u2 = u2
  u3 = u3
  u4 = u4
  u5 = u5
  u6 = u6
  None = None
  NoUID = NoUID
  Mails <- MCMails
  Patient <- MCPatient
  Local <- MCLocal
  Remote <- MCRemote
  UIDs <- MCUIDs
  Size = 1
  Minute = 1
  MaxDeaths = 0
  Stops = TRUE
SYMMETRY UIDSymmetry
INVARIANTS
  IInv
  NothingLost
  OneTurn
  KeyIsCurrent
PROPERTIES
  OnlyParsedLeaveCur
  RefinesMailQueue
