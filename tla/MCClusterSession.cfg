CONSTANTS
  Contexts = {c1, c2}
  Default = c1
  Bogus = bogus
  c1 = c1
  c2 = c2
  Namespaces = {0, 1, 2}
  Healths = {0, 3, 4}
  Objects <- MCObjects
  RefOf <- MCRefOf
  Starts <- MCStarts
  None = none
SPECIFICATION Spec
INVARIANTS TypeOK RowsAreOwn DrawerIsHere OfflineHasCause NeverStranded JumpVisitsAll LinkReturns
PROPERTIES Settles DiagnosisShown
CHECK_DEADLOCK FALSE
