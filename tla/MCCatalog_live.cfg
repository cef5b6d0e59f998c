SPECIFICATION FairSpec
CONSTANTS
  w1 = w1
  p1 = p1
  Original = Original
  Wallpaper = {w1}
  Image = {}
  Preset = {p1}
  Applicable <- AllPresets
  MaxDeliver = 3
  MaxUploaded = 1
  MaxFaults = 2
PROPERTY EventuallySearchable
CHECK_DEADLOCK FALSE
