SPECIFICATION FairSpec
CONSTANTS
  a = a
  b = b
  c = c
  x = x
  y = y
  Src = {a, b}
  Texts = {x, y}
  ChanCap = 1
  Limits <- AllLimits
CHECK_DEADLOCK FALSE
INVARIANTS TypeOK ShownOnce NothingSkipped ForgottenIsGone
PROPERTIES CatchesUp GoneShown
