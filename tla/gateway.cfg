\* Two requests, for a token and for whatever it opens; the clock passes its expiry.
SPECIFICATION Spec
CONSTANTS
  r1 = r1 r2 = r2
  Requests = {r1, r2}
  Asked = {"token", "search", "reserve", "release", "admin_list", "/nowhere", "wrong_method"}
  RawPaths = {"/nowhere"}
  Holders = {"buyer"}
  Ids = {1}
  Threads = 2
  PoolSize = 1
  TicksPerSecond = 2
  Ttl = 1
  MaxTime = 3
SYMMETRY Symmetry
CHECK_DEADLOCK FALSE
INVARIANTS
  TypeOK
  OnlyTheEntitled
  EveryAttemptIsCharged
  EffectsMatchStatus
  CountsMatchAnswers
PROPERTIES
  TokensLiveTheirTime
