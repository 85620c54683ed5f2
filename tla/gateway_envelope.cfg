\* What an exception without a handler is answered with.
SPECIFICATION Spec
CONSTANTS
  r1 = r1 r2 = r2
  Requests = {r1, r2}
  Asked = {"health", "reserve", "release", "product"}
  RawPaths = {"/nowhere"}
  Holders = {"buyer"}
  Ids = {1}
  Threads = 2
  PoolSize = 1
  TicksPerSecond = 1
  Ttl = 1
  MaxTime = 0
SYMMETRY Symmetry
CHECK_DEADLOCK FALSE
INVARIANT
  ErrorsAreEnveloped
