SPECIFICATION Spec
CONSTANTS
  u1 = u1  u2 = u2
  jpg = jpg  png = png
  r1 = r1
  k1 = k1
  None = None
  Key <- KeyOrder
  PageSize = 2
  Upload = {u1, u2}
  Content = {jpg, png}
  Jpeg = {jpg}
  Reconciler = {r1}
  Cleaner = {k1}
  MaxUploadRetries = 1
  Faults = {"db", "minio", "nats", "crash"}
  MaxFaults = 1
SYMMETRY Symmetry
INVARIANTS OneAcceptedPerContent PublishedIsKept DuplicateIsKept
PROPERTY InFlightFileIsKept
