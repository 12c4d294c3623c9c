CONSTANTS
  Contexts = {c1, c2}
  Default = c1
  Bogus = bogus
  c1 = c1
  c2 = c2
  Namespaces = {0, 1, 2}
  Healths = {0, 3, 4}
  Objects <- MCObjects
  RefOf <- MCRefOf
  Starts <- MCWanders
  None = none
SPECIFICATION Spec
PROPERTIES SidebarSettles
CHECK_DEADLOCK FALSE
