SPECIFICATION LiveSpec
CONSTANTS
  u1 = u1  u2 = u2
  jpg = jpg  png = png
  r1 = r1
  k1 = k1
  None = None
  Key <- KeyOrder
  PageSize = 1
  Upload = {u1, u2}
  Content = {jpg, png}
  Jpeg = {jpg}
  Reconciler = {r1}
  Cleaner = {k1}
  MaxUploadRetries = 0
  Faults = {"nats"}
  MaxFaults = 1
PROPERTIES OrphanIsCollected UploadingSettles AcceptedIsPublished
