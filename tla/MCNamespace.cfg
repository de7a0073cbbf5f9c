SPECIFICATION FairSpec
CONSTANTS
  None = None
  Apps <- MCApps
  Routes <- MCRoutes
  Groups = {"g", "h"}
  Specs <- MCSpecs
  Initial <- MCInitial
  NamespaceName <- MCNamespaceName
  MaxChanges = 2
  MaxFaults = 1
INVARIANTS
  TypeOK
  SlugsInv
  ReadyStands
  ReadyInv
PROPERTIES
  Served
  SlugsCleanedUp
CHECK_DEADLOCK FALSE
