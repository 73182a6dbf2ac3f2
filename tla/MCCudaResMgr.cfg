SPECIFICATION MgrSpec
CONSTANTS
  Thread = {t1, t2}
  Gpu = {g0, g1}
  BadIndex = bad
  Stream = {s1, s2, s3}
  Null = Null
  Nobody = Nobody
  MaxFailures = 1
INVARIANTS
  LocksHeld
  RetainedOnce
  OneStream
PROPERTIES
  EveryCallReturns
CHECK_DEADLOCK FALSE
