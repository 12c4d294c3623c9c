SPECIFICATION Spec
CONSTANTS
  a = a
  b = b
  c = c
  x = x
  y = y
  Src = {a, b, c}
  Texts = {x, y}
  ChanCap = 1
  Limits <- TooMany
CHECK_DEADLOCK FALSE
INVARIANT ReplayHidden
