SPECIFICATION Spec
CONSTANTS
  m1 = m1
  m2 = m2
  m3 = m3
  m4 = m4
  l1 = l1
  r1 = r1
  u1 = u1
  u2 = u2
  u3 = u3
  u4 = u4
  u5 = u5
  u6 = u6
  None = None
  NoUID = NoUID
  Mails <- OneMail
  Patient <- OneMail
  Local <- MCLocal
  Remote <- MCRemote
  UIDs <- FewUIDs
  Size = 1
  Minute = 1
  MaxDeaths = 1
  Stops = FALSE
PROPERTIES
  EventuallyParsed
