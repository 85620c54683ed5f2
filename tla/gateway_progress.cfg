\* Three fair requests share two threads and one connection.
SPECIFICATION FairSpec
CONSTANTS
  r1 = r1 r2 = r2 r3 = r3
  Requests = {r1, r2, r3}
  Asked = {"health", "ready", "availability"}
  RawPaths = {"/nowhere"}
  Holders = {}
  Ids = {}
  Threads = 2
  PoolSize = 1
  TicksPerSecond = 1
  Ttl = 1
  MaxTime = 0
CHECK_DEADLOCK FALSE
PROPERTIES
  EveryRequestAnswered
