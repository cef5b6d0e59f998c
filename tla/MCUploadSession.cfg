SPECIFICATION FairSpec
CONSTANTS
  f1 = f1  f2 = f2
  t1 = t1  t2 = t2
  i1 = i1  i2 = i2
  None = None
  File = {f1, f2}
  Timer = {t1, t2}
  MAX_FILES_PER_BATCH = 2
  Second = 2
  MaxRetryAfter = 1
  Instance = {i1, i2}
  max = 1
  windowMs = 2
INVARIANTS InFlightIsShown PausedHasTimer RetryIsInTime
PROPERTIES DropsOnlyOnRequest QueueGoesOn
CHECK_DEADLOCK FALSE
