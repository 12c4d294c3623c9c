SPECIFICATION LiveSpec
CONSTANTS
  Crds = {c1, c2}
  Skip = {c2}
  Workers = {w1, w2}
  MaxChanges = 3
  Modes = {"prompt", "flaky"}
CHECK_DEADLOCK FALSE
INVARIANTS TypeOK WiredOnce OneLoop NoLostTrigger RemovalAnnounced
PROPERTY PromptInstallShows
