SPECIFICATION Spec
CONSTANTS
  u1 = u1  u2 = u2
  jpg = jpg  png = png
  r1 = r1  r2 = r2
  None = None
  Key <- KeyOrder
  PageSize = 2
  Upload = {u1, u2}
  Content = {jpg, png}
  Jpeg = {jpg}
  Reconciler = {r1, r2}
  Cleaner = {}
  MaxUploadRetries = 1
  Faults = {"db", "dbAck", "minio", "nats", "crash"}
  MaxFaults = 1
SYMMETRY Symmetry
INVARIANTS AcceptedIsDurable
PROPERTY KeepsPromise
