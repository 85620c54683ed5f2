\* Three threads race for one bucket of three tokens that refills three in four ticks.
SPECIFICATION Spec
CONSTANTS
  t1 = t1  t2 = t2  t3 = t3
  Threads = {t1, t2, t3}
  Keys = {"client:/reserve"}
  Count = 3
  Period = 4
  MaxTime = 4
  MaxLog = 6
SYMMETRY Symmetry
INVARIANTS
  TypeOK
  AdmissionBound
  DenialsAreEarned
  RetryAfterTokenTime
\* The clock and the log are bounded.
CHECK_DEADLOCK FALSE
