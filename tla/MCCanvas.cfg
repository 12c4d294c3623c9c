CONSTANTS
  Kinds <- MCKinds
  Seed <- MCSeed
  Starts <- MCStarts
SPECIFICATION Spec
INVARIANTS TypeOK NothingLost BoxesApart HonestCounts SelectionShown TriageReaches CapacityAdds InFrame SelectionInView LitTogether
PROPERTIES FitsNewScope FitComes
CHECK_DEADLOCK FALSE
