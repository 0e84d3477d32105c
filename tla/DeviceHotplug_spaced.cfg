CONSTANTS
  Pad = {p1, p2}
  Control = control
  ApiThread = {t1, t2}
  Spaced = TRUE
  NoPad = none
SPECIFICATION HotplugFairSpec
INVARIANTS
  HotplugTypeOK
  PadsInOnePlace
PROPERTY
  PadComesBack
CHECK_DEADLOCK FALSE
