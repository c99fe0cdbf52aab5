SPECIFICATION Spec
CONSTANTS
  Mails = {m1, m2}
  Foreign = {f}
  Local = {l}
  Remote = {r}
  Awaited = {a1, a2}
  Unawaited = {u1}
  MaxFaults = 2
  MaxErrs = 2
  MaxConn = 1
  None = None
  RedisFaults = {"push", "blpop", "hset", "hdel", "back", "leave", "die", "stop", "restart"}
INVARIANTS RedisAccounts RabbitAccounts OutcomeIsOwn
PROPERTIES StoredIsHanded RabbitEnds ConsumeReturns
CHECK_DEADLOCK FALSE
