SPECIFICATION FairSpec
CONSTANTS
  a = a
  b = b
  c = c
  x = x
  y = y
  Src = {a, b}
  Texts = {x, y}
  ChanCap = 1
  Limits <- DeleteOnce
CHECK_DEADLOCK FALSE
PROPERTY GoneStays
