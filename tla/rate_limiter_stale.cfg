\* A request that read its time before others, and reached the lock after them.
SPECIFICATION Spec
CONSTANTS
  t1 = t1  t2 = t2  t3 = t3
  Threads = {t1, t2, t3}
  Keys = {"client:/reserve"}
  Count = 3
  Period = 2
  MaxTime = 4
  MaxLog = 6
SYMMETRY Symmetry
INVARIANT DeniedOnlyWhenDrained
\* The clock and the log are bounded.
CHECK_DEADLOCK FALSE
