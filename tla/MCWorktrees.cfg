SPECIFICATION Spec
CONSTANTS
  w1 = w1  w2 = w2
  a = a
  pa = pa  pb = pb
  s1 = s1  s2 = s2
  None = None
  Worktree = {w1, w2}
  Branch = {a}
  Project = {pa, pb}
  projectOf <- Slugs
  MaxSlot = 2
  MaxMishaps = 2
  Secret = {s1, s2}
SYMMETRY Symmetry
INVARIANTS SlotsDiffer ProjectsDiffer PortsAreReserved
PROPERTY SecretIsKept
