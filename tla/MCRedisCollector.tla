-------------------------- MODULE MCRedisCollector --------------------------
EXTENDS RedisCollector
CONSTANTS m1, m2, l, r
=============================================================================
