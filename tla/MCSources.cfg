SPECIFICATION Spec
CONSTANTS
  c1 = c1
  c2 = c2
  MaxUID = 3
  Updates = 1
  MonitorFaults = {"expunge", "connection", "collector", "stop"}
  MaxMonitorFaults = 2
  Feeds <- MCFeeds
  FeedFaults = {"head", "get", "copy", "etag", "stop", "crash"}
  MaxFeedFaults = 3
  Conns = {c1, c2}
  Mails = {mail1, mail2}
  Rcpts = {rcpt}
  Uses <- MCUses
  MaxAborts = 1
  MaxFails = 1
INVARIANTS MonitorOnce TreeIsWhole HandedOnce
PROPERTIES  RefreshGoesOn IntakeEnds
CHECK_DEADLOCK FALSE
