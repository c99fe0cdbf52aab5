SPECIFICATION Spec
CONSTANTS
  m1 = m1
  p1 = p1
  None = None
  Mails <- MCMails
  Parsers <- MCParsers
  MaxTimeouts = 1
  MaxRestarts = 1
INVARIANTS
  ForgottenOnlyIfLate
  UploadedIsAccounted
PROPERTIES
  ForgottenEnds
  WorkerStops
  MailServed
\* A worker that polls an empty collector, or has stopped, waits.
CHECK_DEADLOCK FALSE
