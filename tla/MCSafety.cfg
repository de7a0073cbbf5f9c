SPECIFICATION Spec
CONSTANTS
  g1 = g1
  g2 = g2
  r1 = r1
  r2 = r2
  c1 = c1
  c2 = c2
  None = None
  Groups = {g1, g2}
  Routes = {r1, r2}
  Cfgs = {c1, c2}
  Specs <- SafetySpecs
  Adopted = {TRUE, FALSE}
  MaxEdits = 1
  MaxFaults = 1
  MaxOutside = 1
INVARIANTS
  TypeOK
  OneProvider
  CleanupComplete
  ServedSoFar
PROPERTIES
  ImplementsLifecycle
  CreationIsGuarded
  OnlyCreatedNamesDeleted
  CreatedGroupsKept
  ReadyIsEarned
CHECK_DEADLOCK FALSE
