SPECIFICATION FairSpec
CONSTANTS
  g1 = g1
  g2 = g2
  r1 = r1
  r2 = r2
  c1 = c1
  c2 = c2
  None = None
  Groups = {g1, g2}
  Routes = {r1}
  Cfgs = {c1, c2}
  Specs <- LiveSpecs
  Adopted = {TRUE, FALSE}
  MaxEdits = 1
  MaxFaults = 1
  MaxOutside = 1
INVARIANT IInv
PROPERTIES
  Converges
  Quiesces
  DeletionCompletes
CHECK_DEADLOCK FALSE
