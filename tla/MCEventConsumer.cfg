SPECIFICATION FairSpec
CONSTANTS
  m1 = m1  bad = bad
  i1 = i1  i2 = i2
  None = None
  Message = {m1, bad}
  Invalid = {bad}
  Instance = {i1, i2}
  FirstDelivery = 1
  maxRetries = 2
  MaxFailures = 3
  MaxInterrupts = 1
INVARIANTS AckedIsHandled GivenUpIsReported ReportedIsExhausted
PROPERTY EventuallyHandled
CHECK_DEADLOCK FALSE
