SPECIFICATION Spec
CONSTANTS
  w1 = w1
  p1 = p1
  Original = Original
  Wallpaper = {w1}
  Image = {w1}
  Preset = {p1}
  Applicable <- AllPresets
  MaxDeliver = 2
  MaxUploaded = 1
  MaxFaults = 1
INVARIANTS IndexedIsServable NothingVanishes
CHECK_DEADLOCK FALSE
